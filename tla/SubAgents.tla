----------------------------- MODULE SubAgents -----------------------------
(***************************************************************************)
(* Delegation: the spawner's budget, the bounded fan-out of a batch, the   *)
(* write gate its siblings share and the permission manager that all of    *)
(* them ask.  Sub-agents are tasks of one event loop, so a step lasts from *)
(* one await to the next.  What a sub-agent does between its tool calls is *)
(* AgentLoop's matter: here it calls its tools or ends.                    *)
(***************************************************************************)
EXTENDS Integers, FiniteSets, SequencesExt

CONSTANTS
  Tools,        \* the catalog, each tool with one value of its arguments
  Effects,      \* Tool.side_effects
  Mutating,     \* the tools that do change shared state, whatever they declare
  Delegation,   \* _DELEGATION_TOOL_NAMES
  Ruling,       \* by_side_effect: the decision for each effect
  HumanPrompt,  \* whether there is a human to ask
  MaxSpawns,    \* max_subagents_per_session
  MaxParallel,  \* max_parallel
  MaxBatch,     \* bound: objectives in one call
  MaxCalls      \* bound: tool calls of one sub-agent

ReadOnly(t) == Effects[t] # {} /\ Effects[t] \subseteq {"read"}

\* A tool that declares nothing but reads does not write.
ASSUME LabelAssumption ==
  /\ Mutating \subseteq Tools /\ Delegation \subseteq Tools
  /\ \A t \in Mutating : ~ReadOnly(t)

ASSUME BoundsAssumption ==
  /\ MaxSpawns \in Nat
  /\ {MaxParallel, MaxBatch, MaxCalls} \subseteq Nat \ {0}
  /\ HumanPrompt \in BOOLEAN

VARIABLES
  size,        \* objectives of the batch in progress, 0 when there is none
  allowed,     \* its tools_allowed
  pc,          \* where each sub-agent of the batch is
  tool,        \* the call it is dispatching
  calls,       \* bound: calls it has made
  gate,        \* write_gate: its holder first, then the waiters in order
  result,      \* SubagentResult of each: "summary" or "error"
  spawnCount,  \* _spawn_count
  approvals,   \* session_approvals
  started,     \* history: sub-agent runs there have been
  pending      \* history: times the human was asked for a tool and did not refuse

agents == <<pc, tool, calls, result>>
human  == <<approvals, pending>>
vars   == <<size, allowed, agents, gate, spawnCount, human, started>>

Agents   == 1 .. MaxBatch
Live     == {"model", "asking", "body", "gated"}
Siblings == 1 .. size
Running  == {a \in Siblings : pc[a] \in Live}

Init ==
  /\ size = 0
  /\ allowed = {}
  /\ pc = [a \in Agents |-> "queued"]
  /\ tool \in [Agents -> {CHOOSE t \in Tools : TRUE}]
  /\ calls = [a \in Agents |-> 0]
  /\ gate = <<>>
  /\ result = [a \in Agents |-> "none"]
  /\ spawnCount = 0
  /\ approvals = {}
  /\ started = 0
  /\ pending = [t \in Tools |-> 0]

At(a, from, to) == pc[a] = from /\ pc' = [pc EXCEPT ![a] = to]

-----------------------------------------------------------------------------
(***************************************************************************)
(* The parent: one call of spawn_subagent or spawn_parallel_subagents      *)
(***************************************************************************)

\* One objective has no gate, which it would not have to share either.
Delegate ==
  /\ size = 0
  /\ size' \in 1 .. MaxBatch
  /\ allowed' \in SUBSET Tools
  /\ size' = 1 => allowed' # {}
  /\ pc' = [a \in Agents |-> "queued"]
  /\ calls' = [a \in Agents |-> 0]
  /\ result' = [a \in Agents |-> "none"]
  /\ UNCHANGED <<tool, gate, spawnCount, human, started>>

\* gather returns once every sibling has a result or an exception of its own.
Settled == \A a \in Siblings : pc[a] = "done"

Join ==
  /\ size > 0
  /\ Settled
  /\ size' = 0
  /\ UNCHANGED <<allowed, agents, gate, spawnCount, human, started>>

\* The parent's run is cancelled, which cancels every sibling at its await.
Cancel ==
  /\ size > 0
  /\ size' = 0
  /\ gate' = <<>>
  /\ pc' = [a \in Agents |-> "done"]
  /\ pending' = [t \in Tools |-> pending[t] -
                   Cardinality({a \in Siblings : pc[a] = "asking" /\ tool[a] = t})]
  /\ UNCHANGED <<allowed, tool, calls, result, spawnCount, approvals, started>>

-----------------------------------------------------------------------------
(***************************************************************************)
(* SubagentSpawner.spawn, under the semaphore of the batch                 *)
(***************************************************************************)

\* Mutant of Affordable: the limit itself is let through.
AffordableOnceMore == spawnCount <= MaxSpawns

Affordable == spawnCount < MaxSpawns

\* The tools a sub-agent is given.
Catalog == allowed \ Delegation

\* Tasks get the semaphore in the order of the specs.
Admitted(a) ==
  /\ pc[a] = "queued"
  /\ \A b \in 1 .. a - 1 : pc[b] # "queued"
  /\ Cardinality(Running) < MaxParallel

End(a, outcome) ==
  /\ pc' = [pc EXCEPT ![a] = "done"]
  /\ result' = [result EXCEPT ![a] = outcome]
  /\ UNCHANGED <<tool, calls>>

OverBudget(a) ==
  /\ Admitted(a)
  /\ ~Affordable
  /\ End(a, "error")
  /\ UNCHANGED <<size, allowed, gate, spawnCount, human, started>>

\* The budget is used up even when no tool is left to run with.
Spawn(a) ==
  /\ Admitted(a)
  /\ Affordable
  /\ spawnCount' = spawnCount + 1
  /\ IF Catalog = {}
     THEN End(a, "error") /\ UNCHANGED started
     ELSE At(a, "queued", "model") /\ started' = started + 1
          /\ UNCHANGED <<tool, calls, result>>
  /\ UNCHANGED <<size, allowed, gate, human>>

\* The run completes, or stops on a bound, or the provider fails.
Finish(a) ==
  /\ pc[a] = "model"
  /\ \E outcome \in {"summary", "error"} : End(a, outcome)
  /\ UNCHANGED <<size, allowed, gate, spawnCount, human, started>>

-----------------------------------------------------------------------------
(***************************************************************************)
(* ToolRegistry.dispatch: permission, then the gate, then the body         *)
(***************************************************************************)

\* by_side_effect: the most restrictive ruling wins, and no effect means ask.
Policy(t) ==
  LET rulings == {Ruling[e] : e \in Effects[t]}
  IN  CASE "deny" \in rulings -> "deny"
        [] "deny" \notin rulings /\ ("ask" \in rulings \/ rulings = {}) -> "ask"
        [] OTHER -> "allow"

\* Mutant of Gated: a call is gated when it declares a write.
GatedByLabel(t) == Effects[t] \cap {"write", "mutate"} # {}

Gated(t) == ~ReadOnly(t)

\* The body runs at once, or when the gate comes round.
Enter(a, t) ==
  /\ pc' = [pc EXCEPT ![a] = IF Gated(t) THEN "gated" ELSE "body"]
  /\ gate' = IF Gated(t) THEN Append(gate, a) ELSE gate

Call(a, t) ==
  /\ pc[a] = "model"
  /\ t \in Catalog
  /\ calls[a] < MaxCalls
  /\ calls' = [calls EXCEPT ![a] = @ + 1]
  /\ tool' = [tool EXCEPT ![a] = t]

CallAllowed(a, t) ==
  /\ Call(a, t)
  /\ t \in approvals \/ Policy(t) = "allow"
  /\ Enter(a, t)
  /\ UNCHANGED <<size, allowed, result, spawnCount, human, started>>

\* The refusal is a tool result; with no human an "ask" is refused.
CallDenied(a, t) ==
  /\ Call(a, t)
  /\ t \notin approvals
  /\ Policy(t) = "deny" \/ (Policy(t) = "ask" /\ ~HumanPrompt)
  /\ UNCHANGED <<size, allowed, pc, gate, result, spawnCount, human, started>>

CallAsks(a, t) ==
  /\ Call(a, t)
  /\ t \notin approvals
  /\ Policy(t) = "ask" /\ HumanPrompt
  /\ pc' = [pc EXCEPT ![a] = "asking"]
  /\ pending' = [pending EXCEPT ![t] = @ + 1]
  /\ UNCHANGED <<size, allowed, gate, result, spawnCount, approvals, started>>

\* Mutant of Remember: the approval is not kept.
Forget(a) == UNCHANGED approvals

Remember(a) == approvals' = approvals \cup {tool[a]}

HumanAllows(a) ==
  /\ pc[a] = "asking"
  /\ Remember(a)
  /\ Enter(a, tool[a])
  /\ UNCHANGED <<size, allowed, tool, calls, result, spawnCount, pending, started>>

HumanDenies(a) ==
  /\ At(a, "asking", "model")
  /\ pending' = [pending EXCEPT ![tool[a]] = @ - 1]
  /\ UNCHANGED <<size, allowed, tool, calls, gate, result, spawnCount, approvals, started>>

\* An error of the prompt ends the whole run of the sub-agent.
PromptFails(a) ==
  /\ pc[a] = "asking"
  /\ End(a, "error")
  /\ pending' = [pending EXCEPT ![tool[a]] = @ - 1]
  /\ UNCHANGED <<size, allowed, gate, spawnCount, approvals, started>>

Inside(a) == \/ pc[a] = "body"
             \/ pc[a] = "gated" /\ gate[1] = a

\* Mutant of Release: a body that raises keeps the gate.
ReleaseOnReturn(a) == gate' \in IF pc[a] = "gated" THEN {gate, Tail(gate)} ELSE {gate}

Release(a) == gate' = IF pc[a] = "gated" THEN Tail(gate) ELSE gate

\* The body returns or raises.
Answer(a) ==
  /\ Inside(a)
  /\ pc' = [pc EXCEPT ![a] = "model"]
  /\ Release(a)
  /\ UNCHANGED <<size, allowed, tool, calls, result, spawnCount, human, started>>

Step(a) ==
  \/ OverBudget(a) \/ Spawn(a) \/ Finish(a)
  \/ \E t \in Tools : CallAllowed(a, t) \/ CallDenied(a, t) \/ CallAsks(a, t)
  \/ HumanAllows(a) \/ HumanDenies(a) \/ PromptFails(a) \/ Answer(a)

Next == Delegate \/ Join \/ Cancel \/ \E a \in Siblings : Step(a)

Spec == Init /\ [][Next]_vars

\* Providers, tools and the human answer or fail, and a sub-agent's turns are
\* bounded (AgentLoop!RunEnds).  Nobody has to delegate or cancel.
FairSpec ==
  /\ Spec
  /\ WF_vars(Join)
  /\ \A a \in Agents : WF_vars(a \in Siblings /\ Step(a))

-----------------------------------------------------------------------------
(***************************************************************************)
(* Properties                                                              *)
(***************************************************************************)

Alone ==
  \A a, b \in Running :
    (a # b /\ Inside(a) /\ Inside(b)) => ~({tool[a], tool[b]} \subseteq Mutating)

Joined == size = 0 => gate = <<>> /\ \A a \in Agents : pc[a] \notin Live

\* Two tools that change shared state are never inside their bodies at once,
\* even when one of them declares no such effect (test_subagents.py,
\* test_write_gate_gates_a_tool_that_under_declares_its_mutation); and when the
\* call of the parent has its answer no sub-agent of it is running or left
\* holding the gate.
Exclusive == Alone /\ Joined

\* However many batches there are and however their siblings interleave, no more
\* sub-agents run in a session than its budget, and none of them delegates.
Budgeted ==
  /\ started <= MaxSpawns
  /\ \A a \in Running : pc[a] \in {"asking", "body", "gated"} => tool[a] \notin Delegation

\* Siblings may ask for the same call before the first answer comes, and an
\* answer may come after another has approved it; but apart from refusals the
\* human is asked for one call no more often than siblings run at once.
AskedInParallelOnly == \A t \in Tools : pending[t] <= MaxParallel

\* Every batch is answered: neither the gate nor the semaphore can wedge it.
BatchEnds == size > 0 ~> size = 0
=============================================================================
