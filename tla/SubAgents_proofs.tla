-------------------------- MODULE SubAgents_proofs --------------------------
(***************************************************************************)
(* Proofs about SubAgents, for every catalog, every ruling and every bound *)
(* on batches, spawns and parallel siblings.                               *)
(***************************************************************************)
EXTENDS SubAgents, TLAPS, FiniteSetTheorems, SequenceTheorems

PC == {"queued", "done"} \cup Live

\* What Init puts where no call has been made.
NoCall == CHOOSE t \in Tools : TRUE

Typed ==
  /\ size \in 0 .. MaxBatch
  /\ allowed \subseteq Tools
  /\ pc \in [Agents -> PC]
  /\ tool \in [Agents -> Tools \cup {NoCall}]
  /\ calls \in [Agents -> Nat]
  /\ gate \in Seq(Agents)
  /\ result \in [Agents -> {"none", "summary", "error"}]
  /\ spawnCount \in Nat
  /\ approvals \subseteq Tools
  /\ started \in Nat
  /\ pending \in [Tools -> Int]

\* A call that is being dispatched is of a tool the sub-agent was given, and its
\* body is outside the gate only if the tool does nothing but read.
CallsAreLabelled ==
  \A a \in Agents :
    /\ pc[a] \in {"asking", "body", "gated"} => tool[a] \in Tools \ Delegation
    /\ pc[a] = "body" => ~Gated(tool[a])

\* The gate is queued for by the agents at it, each once; and nobody outside the
\* batch is live.
GateIsFaithful ==
  /\ \A k \in 1 .. Len(gate) : pc[gate[k]] = "gated"
  /\ \A k, l \in 1 .. Len(gate) : gate[k] = gate[l] => k = l
  /\ \A a \in Agents : pc[a] = "gated" => \E k \in 1 .. Len(gate) : gate[k] = a
  /\ \A a \in Agents \ Siblings : pc[a] \notin Live
  /\ size = 0 => gate = <<>>

\* Every sub-agent that started was paid for, within the budget.
BudgetIsKept == started <= spawnCount /\ spawnCount <= MaxSpawns

Asking(t) == {a \in Siblings : pc[a] = "asking" /\ tool[a] = t}

\* Until a call is approved it is asked for by those who wait for the answer;
\* afterwards nobody asks again, so that the count only goes down.
AsksAreCounted ==
  /\ Cardinality(Running) <= MaxParallel
  /\ \A t \in Tools :
       IF t \in approvals THEN /\ Cardinality(Asking(t)) <= pending[t]
                               /\ pending[t] <= MaxParallel
                          ELSE pending[t] = Cardinality(Asking(t))

SubInv == Typed /\ CallsAreLabelled /\ GateIsFaithful /\ BudgetIsKept /\ AsksAreCounted

\* A sibling is one of the agents, in a batch that is not empty.
LEMMA SiblingIsAgent ==
  ASSUME Typed, NEW a \in Siblings
  PROVE  a \in Agents /\ size > 0
BY BoundsAssumption DEF Typed, Siblings, Agents
-----------------------------------------------------------------------------
(***************************************************************************)
(* Types                                                                   *)
(***************************************************************************)

\* An agent that enters a body may join the gate.
LEMMA EnterType ==
  ASSUME Typed, NEW a \in Agents, NEW t \in Tools, Enter(a, t)
  PROVE  /\ gate' \in Seq(Agents)
         /\ pc' \in [Agents -> PC]
<1>1. gate \in Seq(Agents) /\ Append(gate, a) \in Seq(Agents)
  BY AppendProperties DEF Typed
<1>2. pc' \in [Agents -> PC]
  BY DEF Enter, Typed, PC, Live
<1> QED
  BY <1>1, <1>2 DEF Enter

\* Every step of a sibling keeps every variable in its type.
LEMMA TypedStep ==
  ASSUME Typed, CallsAreLabelled, GateIsFaithful, NEW a \in Agents, Step(a)
  PROVE  Typed'
<1> USE DEF Typed, human, agents
<1>1. CASE OverBudget(a) \/ Spawn(a) \/ Finish(a) \/ PromptFails(a)
  <2>1. pc' \in [Agents -> PC] /\ result' \in [Agents -> {"none", "summary", "error"}]
    BY <1>1 DEF OverBudget, Spawn, Finish, PromptFails, End, At, PC, Live
  <2>2. /\ UNCHANGED <<size, allowed, tool, calls, gate, approvals>>
        /\ spawnCount' \in Nat /\ started' \in Nat
    BY <1>1 DEF OverBudget, Spawn, Finish, PromptFails, End
  <2>3. pending' \in [Tools -> Int]
    BY <1>1 DEF OverBudget, Spawn, Finish, PromptFails
  <2> QED
    BY <2>1, <2>2, <2>3
<1>2. ASSUME NEW t \in Tools, CallAllowed(a, t) \/ CallDenied(a, t) \/ CallAsks(a, t)
      PROVE  Typed'
  <2>0. Call(a, t)
    BY <1>2 DEF CallAllowed, CallDenied, CallAsks
  <2>1. calls' \in [Agents -> Nat] /\ tool' \in [Agents -> Tools \cup {NoCall}]
    BY <2>0 DEF Call
  <2>2. UNCHANGED <<size, allowed, result, spawnCount, approvals, started>>
    BY <1>2 DEF CallAllowed, CallDenied, CallAsks
  <2>3. gate' \in Seq(Agents) /\ pc' \in [Agents -> PC] /\ pending' \in [Tools -> Int]
    <3>1. CASE CallAllowed(a, t)
      BY <3>1, EnterType DEF CallAllowed
    <3>2. CASE CallDenied(a, t)
      BY <3>2 DEF CallDenied
    <3>3. CASE CallAsks(a, t)
      BY <3>3 DEF CallAsks, PC, Live
    <3> QED
      BY <1>2, <3>1, <3>2, <3>3
  <2> QED
    BY <2>1, <2>2, <2>3
<1>3. CASE HumanAllows(a) \/ HumanDenies(a)
  <2>1. tool[a] \in Tools
    BY <1>3 DEF HumanAllows, HumanDenies, At, CallsAreLabelled
  <2>2. pending[tool[a]] \in Int
    BY <2>1
  <2>3. CASE HumanAllows(a)
    BY <2>1, <2>3, EnterType DEF HumanAllows, Remember
  <2>4. CASE HumanDenies(a)
    <3>1. pc' \in [Agents -> PC] /\ UNCHANGED <<size, allowed, tool, calls, gate, result>>
      BY <2>4 DEF HumanDenies, At, PC, Live
    <3>2. pending' \in [Tools -> Int] /\ UNCHANGED <<spawnCount, approvals, started>>
      BY <2>1, <2>2, <2>4 DEF HumanDenies
    <3> QED
      BY <3>1, <3>2
  <2> QED
    BY <1>3, <2>3, <2>4
<1>4. CASE Answer(a)
  <2>1. pc[a] = "gated" => gate # <<>>
    BY <1>4 DEF GateIsFaithful
  <2> QED
    BY <1>4, <2>1 DEF Answer, Release, PC, Live
<1> QED
  BY <1>1, <1>2, <1>3, <1>4 DEF Step

-----------------------------------------------------------------------------
(***************************************************************************)
(* The gate                                                                *)
(***************************************************************************)

\* Every step keeps the calls that are dispatched where their labels put them.
LEMMA CallsStep ==
  ASSUME Typed, CallsAreLabelled, NEW a \in Siblings, Step(a)
  PROVE  CallsAreLabelled'
<1>0. a \in Agents
  BY SiblingIsAgent
<1> USE <1>0 DEF Typed, CallsAreLabelled
<1>1. CASE OverBudget(a) \/ Spawn(a) \/ Finish(a) \/ PromptFails(a) \/ HumanDenies(a) \/ Answer(a)
  BY <1>1 DEF OverBudget, Spawn, Finish, PromptFails, HumanDenies, Answer, End, At, agents
<1>2. ASSUME NEW t \in Tools, CallAllowed(a, t) \/ CallDenied(a, t) \/ CallAsks(a, t)
      PROVE  CallsAreLabelled'
  BY <1>2 DEF CallAllowed, CallDenied, CallAsks, Call, Catalog, Enter
<1>3. CASE HumanAllows(a)
  BY <1>3 DEF HumanAllows, Enter
<1> QED
  BY <1>1, <1>2, <1>3 DEF Step

\* A step of a sibling outside the gate that does not take it there.
LEMMA OutsideGate ==
  ASSUME Typed, GateIsFaithful, NEW a \in Siblings, pc[a] # "gated",
         pc' = [pc EXCEPT ![a] = pc'[a]], pc'[a] # "gated", UNCHANGED <<size, gate>>
  PROVE  GateIsFaithful'
<1>1. a \in Agents /\ size > 0 /\ Siblings' = Siblings
  BY SiblingIsAgent DEF Siblings
<1>2. \A b \in Agents : b # a => pc'[b] = pc[b]
  BY <1>1 DEF Typed
<1>3. \A k \in 1 .. Len(gate) : gate[k] \in Agents /\ gate[k] # a
  BY DEF Typed, GateIsFaithful
<1>4. \A b \in Agents \ Siblings : b # a
  OBVIOUS
<1> QED
  BY <1>1, <1>2, <1>3, <1>4 DEF GateIsFaithful

\* An agent that joins the gate waits behind those who were there.
LEMMA JoinsGate ==
  ASSUME Typed, GateIsFaithful, NEW a \in Siblings, pc[a] # "gated", UNCHANGED size,
         NEW t \in Tools, Enter(a, t)
  PROVE  GateIsFaithful'
<1>0. a \in Agents /\ pc' = [pc EXCEPT ![a] = pc'[a]]
  BY SiblingIsAgent DEF Typed, Enter
<1>1. CASE Gated(t)
  <2>1. /\ Len(gate') = Len(gate) + 1 /\ gate'[Len(gate) + 1] = a
        /\ \A k \in 1 .. Len(gate) : gate'[k] = gate[k]
        /\ Len(gate) \in Nat
    BY <1>0, <1>1, AppendProperties DEF Enter, Typed
  <2>2. \A k \in 1 .. Len(gate) : gate[k] # a /\ gate[k] \in Agents
    BY DEF GateIsFaithful, Typed
  <2>3. pc' = [pc EXCEPT ![a] = "gated"]
    BY <1>1 DEF Enter
  <2>4. \A k \in 1 .. Len(gate') : pc'[gate'[k]] = "gated"
    <3>1. pc'[a] = "gated" /\ \A b \in Agents : b # a => pc'[b] = pc[b]
      BY <1>0, <2>3 DEF Typed
    <3>2. \A k \in 1 .. Len(gate) : pc'[gate[k]] = "gated"
      BY <2>2, <3>1 DEF GateIsFaithful
    <3> SUFFICES ASSUME NEW k \in 1 .. Len(gate') PROVE pc'[gate'[k]] = "gated"
      OBVIOUS
    <3>3. k \in 1 .. Len(gate) \/ k = Len(gate) + 1
      BY <2>1
    <3> QED
      BY <2>1, <3>1, <3>2, <3>3
  <2>5. \A k, l \in 1 .. Len(gate') : gate'[k] = gate'[l] => k = l
    BY <2>1, <2>2 DEF GateIsFaithful
  <2>6. \A b \in Agents : pc'[b] = "gated" => \E k \in 1 .. Len(gate') : gate'[k] = b
    <3> SUFFICES ASSUME NEW b \in Agents, pc'[b] = "gated"
                 PROVE  \E k \in 1 .. Len(gate') : gate'[k] = b
      OBVIOUS
    <3>1. CASE b = a
      BY <2>1, <3>1
    <3>2. CASE b # a
      BY <2>1, <2>3, <3>2 DEF Typed, GateIsFaithful
    <3> QED
      BY <3>1, <3>2
  <2>7. size > 0 /\ \A b \in Agents \ Siblings : pc'[b] = pc[b]
    BY <1>0 DEF Siblings, Typed
  <2> QED
    BY <2>4, <2>5, <2>6, <2>7 DEF GateIsFaithful, Siblings
<1>2. CASE ~Gated(t)
  BY <1>0, <1>2, OutsideGate DEF Enter, Typed
<1> QED
  BY <1>1, <1>2

\* Only the first at the gate leaves it, and the others keep their places.
LEMMA LeavesGate ==
  ASSUME Typed, GateIsFaithful, NEW a \in Siblings, pc[a] = "gated", gate[1] = a,
         pc' = [pc EXCEPT ![a] = "model"], gate' = Tail(gate), UNCHANGED size
  PROVE  GateIsFaithful'
<1>0. a \in Agents /\ size > 0
  BY SiblingIsAgent
<1>1. gate \in Seq(Agents) /\ gate # <<>> /\ Len(gate) \in Nat \ {0}
  BY <1>0 DEF Typed, GateIsFaithful
<1>2. /\ Len(gate') = Len(gate) - 1
      /\ \A k \in 1 .. Len(gate') : gate'[k] = gate[k + 1]
  BY <1>1, HeadTailProperties
<1>3. \A k \in 1 .. Len(gate') : gate'[k] # a /\ gate'[k] \in Agents
  BY <1>1, <1>2 DEF GateIsFaithful
<1>4. \A k \in 1 .. Len(gate') : pc'[gate'[k]] = "gated"
  BY <1>0, <1>1, <1>2, <1>3 DEF Typed, GateIsFaithful
<1>5. \A k, l \in 1 .. Len(gate') : gate'[k] = gate'[l] => k = l
  BY <1>1, <1>2 DEF GateIsFaithful
<1>6. \A b \in Agents : pc'[b] = "gated" => \E k \in 1 .. Len(gate') : gate'[k] = b
  <2> SUFFICES ASSUME NEW b \in Agents, pc'[b] = "gated"
               PROVE  \E k \in 1 .. Len(gate') : gate'[k] = b
    OBVIOUS
  <2>1. b # a /\ pc[b] = "gated"
    BY <1>0 DEF Typed
  <2>2. PICK k \in 1 .. Len(gate) : gate[k] = b
    BY <2>1 DEF GateIsFaithful
  <2>3. k # 1 /\ k - 1 \in 1 .. Len(gate')
    BY <1>1, <1>2, <2>1, <2>2
  <2>4. gate'[k - 1] = gate[(k - 1) + 1]
    BY <1>2, <2>3
  <2>5. (k - 1) + 1 = k
    OBVIOUS
  <2> QED
    BY <2>2, <2>3, <2>4, <2>5
<1>7. \A b \in Agents \ Siblings : pc'[b] = pc[b]
  BY <1>0 DEF Typed
<1> QED
  BY <1>0, <1>4, <1>5, <1>6, <1>7 DEF GateIsFaithful, Siblings

\* Every step of a sibling keeps the gate faithful.
LEMMA GateStep ==
  ASSUME Typed, CallsAreLabelled, GateIsFaithful, NEW a \in Siblings, Step(a)
  PROVE  GateIsFaithful'
<1>0. a \in Agents
  BY SiblingIsAgent
<1>1. CASE OverBudget(a) \/ Spawn(a) \/ Finish(a) \/ PromptFails(a) \/ HumanDenies(a)
  BY <1>0, <1>1, OutsideGate DEF OverBudget, Admitted, Spawn, Finish, PromptFails, HumanDenies,
     End, At, Typed
<1>2. ASSUME NEW t \in Tools, CallAllowed(a, t) PROVE GateIsFaithful'
  BY <1>2, JoinsGate DEF CallAllowed, Call
<1>3. ASSUME NEW t \in Tools, CallDenied(a, t) \/ CallAsks(a, t) PROVE GateIsFaithful'
  BY <1>0, <1>3, OutsideGate DEF CallDenied, CallAsks, Call, Typed
<1>4. CASE HumanAllows(a)
  BY <1>0, <1>4, JoinsGate DEF HumanAllows, CallsAreLabelled
<1>5. CASE Answer(a)
  <2>1. CASE pc[a] = "gated"
    BY <1>0, <1>5, <2>1, LeavesGate DEF Answer, Inside, Release
  <2>2. CASE pc[a] # "gated"
    BY <1>0, <1>5, <2>2, OutsideGate DEF Answer, Release, Typed
  <2> QED
    BY <2>1, <2>2
<1> QED
  BY <1>1, <1>2, <1>3, <1>4, <1>5 DEF Step

-----------------------------------------------------------------------------
(***************************************************************************)
(* The budget and the human                                                *)
(***************************************************************************)

\* Only a sub-agent that can be paid for starts.
LEMMA BudgetStep ==
  ASSUME Typed, BudgetIsKept, NEW a \in Siblings, Step(a)
  PROVE  BudgetIsKept'
<1>1. CASE Spawn(a)
  BY <1>1, BoundsAssumption DEF Spawn, Affordable, Typed, BudgetIsKept
<1>2. CASE OverBudget(a) \/ Finish(a) \/ PromptFails(a) \/ HumanAllows(a) \/ HumanDenies(a) \/ Answer(a)
  BY <1>2 DEF OverBudget, Finish, PromptFails, HumanAllows, HumanDenies, Answer, BudgetIsKept
<1>3. ASSUME NEW t \in Tools, CallAllowed(a, t) \/ CallDenied(a, t) \/ CallAsks(a, t)
      PROVE  BudgetIsKept'
  BY <1>3 DEF CallAllowed, CallDenied, CallAsks, BudgetIsKept
<1> QED
  BY <1>1, <1>2, <1>3 DEF Step

\* A sub-agent asks for one call at a time, and only while it runs.
LEMMA AskersRun ==
  ASSUME Typed
  PROVE  /\ IsFiniteSet(Running) /\ Cardinality(Running) \in Nat
         /\ \A t \in Tools : /\ IsFiniteSet(Asking(t))
                             /\ Cardinality(Asking(t)) \in Nat
                             /\ Cardinality(Asking(t)) <= Cardinality(Running)
<1>1. IsFiniteSet(Siblings)
  BY FS_Interval DEF Typed, Siblings
<1>2. IsFiniteSet(Running)
  BY <1>1, FS_Subset DEF Running
<1>3. \A t \in Tools : Asking(t) \subseteq Running
  BY DEF Asking, Running, Live
<1> QED
  BY <1>2, <1>3, FS_Subset, FS_CardinalityType

\* A step that leaves the requests as they are and starts nobody.
LEMMA AsksUnchanged ==
  ASSUME Typed, AsksAreCounted, UNCHANGED human,
         Running' \subseteq Running, \A t \in Tools : Asking(t)' = Asking(t)
  PROVE  AsksAreCounted'
<1>1. Cardinality(Running') \in Nat /\ Cardinality(Running') <= Cardinality(Running)
  BY AskersRun, FS_Subset, FS_CardinalityType
<1>2. Cardinality(Running)' = Cardinality(Running')
  OBVIOUS
<1>3. Cardinality(Running') <= MaxParallel
  BY <1>1, AskersRun, BoundsAssumption DEF AsksAreCounted
<1> QED
  BY <1>2, <1>3 DEF AsksAreCounted, human

\* A sibling that is given the semaphore finds a slot free.
LEMMA AsksOfSpawn ==
  ASSUME Typed, AsksAreCounted, NEW a \in Siblings, Spawn(a)
  PROVE  AsksAreCounted'
<1>1. a \in Agents /\ UNCHANGED <<size, tool>> /\ UNCHANGED human
  BY SiblingIsAgent DEF Spawn, End
<1>2. /\ pc[a] = "queued"
      /\ pc' = [pc EXCEPT ![a] = IF Catalog = {} THEN "done" ELSE "model"]
  BY DEF Spawn, Admitted, End, At
<1>3. \A t \in Tools : Asking(t)' = Asking(t)
  BY <1>1, <1>2, SiblingIsAgent DEF Typed, Asking, Siblings
<1>4. CASE Catalog = {}
  <2>1. Running' \subseteq Running
    BY <1>1, <1>2, <1>4, SiblingIsAgent DEF Typed, Running, Siblings, Live
  <2> QED
    BY <1>1, <1>3, <2>1, AsksUnchanged
<1>5. CASE Catalog # {}
  <2>1. Running' = Running \cup {a} /\ a \notin Running
    BY <1>1, <1>2, <1>5, SiblingIsAgent DEF Typed, Running, Siblings, Live
  <2>2. Cardinality(Running') = Cardinality(Running) + 1
    BY <2>1, AskersRun, FS_AddElement
  <2>3. Cardinality(Running)' <= MaxParallel
    BY <2>2, AskersRun, BoundsAssumption DEF Spawn, Admitted
  <2> QED
    BY <1>1, <1>3, <2>3 DEF AsksAreCounted, human
<1> QED
  BY <1>4, <1>5

\* One more asks for a call that is not approved.
LEMMA AsksOfCall ==
  ASSUME Typed, AsksAreCounted, NEW a \in Siblings, NEW t \in Tools, CallAsks(a, t)
  PROVE  AsksAreCounted'
<1>0. a \in Agents /\ UNCHANGED <<size, approvals>>
  BY SiblingIsAgent DEF CallAsks
<1>1. Running' = Running
  BY <1>0 DEF Typed, CallAsks, Call, Running, Siblings, Live
<1>2. Asking(t)' = Asking(t) \cup {a} /\ a \notin Asking(t)
  BY <1>0 DEF Typed, CallAsks, Call, Asking, Siblings
<1>3. Cardinality(Asking(t)') = Cardinality(Asking(t)) + 1
  BY <1>2, AskersRun, FS_AddElement
<1>4. \A u \in Tools \ {t} : Asking(u)' = Asking(u) /\ pending'[u] = pending[u]
  BY <1>0 DEF Typed, CallAsks, Call, Asking, Siblings
<1>5. pending'[t] = pending[t] + 1 /\ t \notin approvals
  BY DEF Typed, CallAsks
<1>6. ASSUME NEW u \in Tools
      PROVE  IF u \in approvals' THEN /\ Cardinality(Asking(u)') <= pending'[u]
                                      /\ pending'[u] <= MaxParallel
                                 ELSE pending'[u] = Cardinality(Asking(u)')
  <2>1. CASE u = t
    BY <1>0, <1>3, <1>5, <2>1 DEF AsksAreCounted
  <2>2. CASE u # t
    BY <1>0, <1>4, <2>2 DEF AsksAreCounted
  <2> QED
    BY <2>1, <2>2
<1> QED
  BY <1>1, <1>6 DEF AsksAreCounted

\* The answer, or the failure of the prompt, is to one of those who ask.
LEMMA AsksOfAnswer ==
  ASSUME Typed, CallsAreLabelled, AsksAreCounted, NEW a \in Siblings,
         HumanAllows(a) \/ HumanDenies(a) \/ PromptFails(a)
  PROVE  AsksAreCounted'
<1>1. tool[a] \in Tools
  BY SiblingIsAgent DEF HumanAllows, HumanDenies, PromptFails, At, CallsAreLabelled
<1>2. PICK t \in Tools : t = tool[a]
  BY <1>1
<1>3. /\ a \in Agents /\ pc[a] = "asking" /\ UNCHANGED <<size, tool>>
      /\ pc'[a] # "asking" /\ \A b \in Agents : b # a => pc'[b] = pc[b]
  BY SiblingIsAgent DEF HumanAllows, HumanDenies, PromptFails, End, At, Enter, Typed,
     CallsAreLabelled
<1>4. Running' \subseteq Running
  BY <1>3, SiblingIsAgent DEF Typed, Running, Siblings, Live
<1>5. Cardinality(Running') <= MaxParallel
  <2>1. Cardinality(Running') \in Nat /\ Cardinality(Running') <= Cardinality(Running)
    BY <1>4, AskersRun, FS_Subset, FS_CardinalityType
  <2> QED
    BY <2>1, AskersRun, BoundsAssumption DEF AsksAreCounted
<1>6. Asking(t)' = Asking(t) \ {a} /\ a \in Asking(t)
  BY <1>2, <1>3, SiblingIsAgent DEF Typed, Asking, Siblings
<1>7. Cardinality(Asking(t)') = Cardinality(Asking(t)) - 1
  BY <1>3, <1>6, AskersRun, FS_RemoveElement
<1>8. \A u \in Tools \ {t} : Asking(u)' = Asking(u)
  BY <1>2, <1>3, SiblingIsAgent DEF Typed, Asking, Siblings
<1>9. /\ Cardinality(Asking(t)) \in Nat /\ Cardinality(Asking(t)) <= Cardinality(Running)
      /\ Cardinality(Running) \in Nat /\ Cardinality(Running) <= MaxParallel
      /\ pending[t] \in Int
  BY <1>3, AskersRun DEF AsksAreCounted, Typed
<1>10. CASE HumanAllows(a)
  <2>1. approvals' = approvals \cup {t} /\ pending' = pending
    BY <1>2, <1>10 DEF HumanAllows, Remember
  <2>2. Cardinality(Asking(t)') <= pending'[t] /\ pending'[t] <= MaxParallel
    BY <1>3, <1>7, <1>9, <2>1, BoundsAssumption DEF AsksAreCounted
  <2>3. ASSUME NEW u \in Tools
        PROVE  IF u \in approvals' THEN /\ Cardinality(Asking(u)') <= pending'[u]
                                        /\ pending'[u] <= MaxParallel
                                   ELSE pending'[u] = Cardinality(Asking(u)')
    <3>1. CASE u = t
      BY <2>1, <2>2, <3>1
    <3>2. CASE u # t
      BY <1>8, <2>1, <3>2 DEF AsksAreCounted
    <3> QED
      BY <3>1, <3>2
  <2> QED
    BY <1>5, <2>3 DEF AsksAreCounted
<1>11. CASE HumanDenies(a) \/ PromptFails(a)
  <2>1. approvals' = approvals /\ pending' = [pending EXCEPT ![t] = pending[t] - 1]
    BY <1>2, <1>11 DEF HumanDenies, PromptFails
  <2>2. pending'[t] = pending[t] - 1 /\ \A u \in Tools \ {t} : pending'[u] = pending[u]
    BY <1>3, <2>1 DEF Typed
  <2>3. ASSUME NEW u \in Tools
        PROVE  IF u \in approvals' THEN /\ Cardinality(Asking(u)') <= pending'[u]
                                        /\ pending'[u] <= MaxParallel
                                   ELSE pending'[u] = Cardinality(Asking(u)')
    <3>1. CASE u = t
      BY <1>7, <1>9, <2>1, <2>2, <3>1, BoundsAssumption DEF AsksAreCounted
    <3>2. CASE u # t
      BY <1>8, <2>1, <2>2, <3>2 DEF AsksAreCounted
    <3> QED
      BY <3>1, <3>2
  <2> QED
    BY <1>5, <2>3 DEF AsksAreCounted
<1> QED
  BY <1>10, <1>11

\* Every step of a sibling keeps the requests counted.
LEMMA AsksStep ==
  ASSUME Typed, CallsAreLabelled, AsksAreCounted, NEW a \in Siblings, Step(a)
  PROVE  AsksAreCounted'
<1>0. a \in Agents
  BY SiblingIsAgent
<1>1. CASE OverBudget(a) \/ Finish(a) \/ Answer(a)
  <2>1. UNCHANGED <<size, tool>> /\ UNCHANGED human
    BY <1>1 DEF OverBudget, Finish, Answer, End
  <2>2. pc[a] # "asking" /\ pc'[a] # "asking" /\ \A b \in Agents : b # a => pc'[b] = pc[b]
    BY <1>0, <1>1 DEF OverBudget, Admitted, Finish, Answer, Inside, End, Typed
  <2>3. pc'[a] \in Live => pc[a] \in Live
    BY <1>0, <1>1 DEF OverBudget, Finish, Answer, Inside, End, Typed, Live
  <2>4. Running' \subseteq Running
    BY <2>1, <2>2, <2>3, SiblingIsAgent DEF Running, Siblings
  <2>5. \A t \in Tools : Asking(t)' = Asking(t)
    BY <2>1, <2>2, SiblingIsAgent DEF Asking, Siblings
  <2> QED
    BY <2>1, <2>4, <2>5, AsksUnchanged
<1>2. ASSUME NEW t \in Tools, CallAllowed(a, t) \/ CallDenied(a, t)
      PROVE  AsksAreCounted'
  <2>1. UNCHANGED size /\ UNCHANGED human
    BY <1>2 DEF CallAllowed, CallDenied
  <2>2. /\ pc[a] = "model" /\ pc'[a] # "asking"
        /\ \A b \in Agents : b # a => pc'[b] = pc[b] /\ tool'[b] = tool[b]
    BY <1>0, <1>2 DEF CallAllowed, CallDenied, Call, Enter, Typed
  <2>3. Running' \subseteq Running
    BY <2>1, <2>2, SiblingIsAgent DEF Running, Siblings, Live
  <2>4. \A u \in Tools : Asking(u)' = Asking(u)
    BY <2>1, <2>2, SiblingIsAgent DEF Asking, Siblings
  <2> QED
    BY <2>1, <2>3, <2>4, AsksUnchanged
<1> QED
  BY <1>1, <1>2, AsksOfSpawn, AsksOfCall, AsksOfAnswer DEF Step

\* A batch that begins, and one that is over, has nobody running or asking.
LEMMA AsksOfNobody ==
  ASSUME Typed, AsksAreCounted, UNCHANGED approvals, Running' = {},
         \A t \in Tools : /\ Asking(t)' = {}
                          /\ pending'[t] = pending[t] - Cardinality(Asking(t))
  PROVE  AsksAreCounted'
<1>1. Cardinality({}) = 0
  BY FS_EmptySet
<1>2. \A t \in Tools : pending[t] \in Int /\ Cardinality(Asking(t)) \in Nat
  BY AskersRun DEF Typed
<1> QED
  BY <1>1, <1>2, BoundsAssumption DEF AsksAreCounted

-----------------------------------------------------------------------------
(***************************************************************************)
(* The invariant, step by step                                             *)
(***************************************************************************)

\* A new batch finds the gate free: its siblings queue for the semaphore.
LEMMA DelegateStep ==
  ASSUME SubInv, Delegate
  PROVE  SubInv'
<1>1. /\ size = 0 /\ size' \in 1 .. MaxBatch /\ gate = <<>>
      /\ pc' = [a \in Agents |-> "queued"]
      /\ UNCHANGED <<tool, gate, spawnCount, started>> /\ UNCHANGED human
  BY DEF SubInv, GateIsFaithful, Delegate
<1>2. Typed'
  <2>1. size' \in 0 .. MaxBatch
    BY <1>1, BoundsAssumption
  <2> QED
    BY <1>1, <2>1 DEF Delegate, SubInv, Typed, PC, human
<1>3. CallsAreLabelled' /\ GateIsFaithful'
  BY <1>1, SiblingIsAgent DEF CallsAreLabelled, GateIsFaithful, Live, SubInv, Typed
<1>4. BudgetIsKept'
  BY <1>1 DEF SubInv, BudgetIsKept
<1>5. Running' = {} /\ \A t \in Tools : Asking(t)' = {} /\ Asking(t) = {}
  <2>1. Siblings = {} /\ Siblings' \subseteq Agents
    BY <1>1, BoundsAssumption DEF Siblings, Agents
  <2> QED
    BY <1>1, <2>1 DEF Running, Asking, Live
<1>6. AsksAreCounted'
  <2>1. \A t \in Tools : pending'[t] = pending[t] - Cardinality(Asking(t))
    BY <1>1, <1>5, AskersRun, FS_EmptySet DEF human, SubInv, Typed
  <2> QED
    BY <1>1, <1>5, <2>1, AsksOfNobody DEF SubInv, human
<1> QED
  BY <1>2, <1>3, <1>4, <1>6 DEF SubInv

\* The batch is joined when nobody of it is left to run.
LEMMA JoinStep ==
  ASSUME SubInv, Join
  PROVE  SubInv'
<1>1. /\ size' = 0 /\ size > 0 /\ UNCHANGED <<allowed, pc, tool, calls, result, gate, spawnCount, started>>
      /\ UNCHANGED human /\ \A a \in Siblings : pc[a] = "done"
  BY DEF Join, Settled, agents
<1>2. Typed'
  BY <1>1, BoundsAssumption DEF SubInv, Typed, human
<1>3. CallsAreLabelled'
  BY <1>1 DEF SubInv, CallsAreLabelled
<1>4. GateIsFaithful'
  <2>1. \A a \in Agents : pc[a] \notin Live
    BY <1>1 DEF SubInv, GateIsFaithful, Live
  <2>2. gate = <<>>
    <3>1. SUFFICES ASSUME gate # <<>> PROVE FALSE
      OBVIOUS
    <3>2. 1 \in 1 .. Len(gate) /\ gate[1] \in Agents
      BY <3>1 DEF SubInv, Typed
    <3> QED
      BY <2>1, <3>2 DEF SubInv, GateIsFaithful, Live
  <2> QED
    BY <1>1, <2>1, <2>2 DEF SubInv, GateIsFaithful
<1>5. BudgetIsKept'
  BY <1>1 DEF SubInv, BudgetIsKept
<1>6. AsksAreCounted'
  <2>1. Siblings' = {}
    BY <1>1 DEF Siblings
  <2>2. Running' = {} /\ \A t \in Tools : Asking(t)' = {} /\ Asking(t) = {}
    BY <1>1, <2>1 DEF Running, Asking
  <2>3. \A t \in Tools : Cardinality(Asking(t)) = 0 /\ pending[t] \in Int
    BY <2>2, AskersRun, FS_EmptySet DEF SubInv, Typed
  <2>4. \A t \in Tools : pending'[t] = pending[t] - Cardinality(Asking(t))
    BY <1>1, <2>3 DEF human
  <2> QED
    BY <1>1, <2>2, <2>4, AsksOfNobody DEF SubInv, human
<1> QED
  BY <1>2, <1>3, <1>4, <1>5, <1>6 DEF SubInv

\* A cancelled batch withdraws its questions and empties the gate.
LEMMA CancelStep ==
  ASSUME SubInv, Cancel
  PROVE  SubInv'
<1>1. /\ size' = 0 /\ gate' = <<>> /\ pc' = [a \in Agents |-> "done"]
      /\ \A t \in Tools : pending'[t] = pending[t] - Cardinality(Asking(t))
      /\ UNCHANGED <<allowed, tool, calls, result, spawnCount, approvals, started>>
  BY DEF Cancel, Asking
<1>2. Typed'
  <2>1. pending' \in [Tools -> Int]
    <3>1. DOMAIN pending' = Tools /\ pending' = [t \in Tools |-> pending'[t]]
      BY DEF Cancel
    <3>2. \A t \in Tools : pending'[t] \in Int
      BY <1>1, AskersRun DEF SubInv, Typed
    <3> QED
      BY <3>1, <3>2
  <2> QED
    BY <1>1, <2>1, BoundsAssumption DEF SubInv, Typed, PC
<1>3. CallsAreLabelled' /\ GateIsFaithful'
  BY <1>1 DEF CallsAreLabelled, GateIsFaithful, Live
<1>4. BudgetIsKept'
  BY <1>1 DEF SubInv, BudgetIsKept
<1>5. Running' = {} /\ \A t \in Tools : Asking(t)' = {}
  BY <1>1 DEF Running, Asking, Siblings
<1>6. AsksAreCounted'
  BY <1>1, <1>5, AsksOfNobody DEF SubInv
<1> QED
  BY <1>2, <1>3, <1>4, <1>6 DEF SubInv

\* The invariant holds at the start: there is no batch.
LEMMA SubInit == Init => SubInv
<1> SUFFICES ASSUME Init PROVE SubInv
  OBVIOUS
<1>1. Siblings = {}
  BY DEF Init, Siblings
<1>2. Typed
  BY BoundsAssumption DEF Init, Typed, PC, NoCall
<1>3. CallsAreLabelled /\ GateIsFaithful /\ BudgetIsKept
  BY <1>1, BoundsAssumption DEF Init, CallsAreLabelled, GateIsFaithful, BudgetIsKept, Live
<1>4. AsksAreCounted
  <2>1. Running = {} /\ \A t \in Tools : Asking(t) = {} /\ pending[t] = 0
    BY <1>1 DEF Running, Asking, Init
  <2> QED
    BY <1>2, <2>1, AskersRun, FS_EmptySet, BoundsAssumption DEF AsksAreCounted, Init
<1> QED
  BY <1>2, <1>3, <1>4 DEF SubInv

\* Whatever siblings do, and in whatever order, SubInv holds.
THEOREM SubInvariant == Spec => []SubInv
<1>1. SubInv /\ [Next]_vars => SubInv'
  <2> SUFFICES ASSUME SubInv, [Next]_vars PROVE SubInv'
    OBVIOUS
  <2>1. ASSUME NEW a \in Siblings, Step(a) PROVE SubInv'
    <3>1. a \in Agents
      BY SiblingIsAgent DEF SubInv
    <3> QED
      BY <2>1, <3>1, TypedStep, CallsStep, GateStep, BudgetStep, AsksStep DEF SubInv
  <2>2. CASE UNCHANGED vars
    BY <2>2 DEF vars, agents, human, SubInv, Typed, CallsAreLabelled, GateIsFaithful,
       BudgetIsKept, AsksAreCounted, Running, Asking, Siblings
  <2> QED
    BY <2>1, <2>2, DelegateStep, JoinStep, CancelStep DEF Next
<1> QED
  BY <1>1, SubInit, PTL DEF Spec

-----------------------------------------------------------------------------
(***************************************************************************)
(* What the project claims of delegation                                   *)
(***************************************************************************)

\* No two tools that change shared state are inside their bodies together, for
\* every catalog in which a tool that declares nothing but reads does not write:
\* whoever is at the head of the gate is the only one, and everyone else whose
\* tool is not read-only waits there.
THEOREM WritersAreExclusive == Spec => []Exclusive
<1>1. SubInv => Alone
  <2> SUFFICES ASSUME SubInv, NEW a \in Running, NEW b \in Running,
                      a # b, Inside(a), Inside(b), {tool[a], tool[b]} \subseteq Mutating
               PROVE  FALSE
    BY DEF Alone
  <2>1. a \in Agents /\ b \in Agents
    BY SiblingIsAgent DEF SubInv, Running
  <2>2. Gated(tool[a]) /\ Gated(tool[b])
    BY LabelAssumption DEF Gated
  <2>3. gate[1] = a /\ gate[1] = b
    BY <2>1, <2>2 DEF SubInv, CallsAreLabelled, Inside
  <2> QED
    BY <2>3
<1>2. SubInv => Joined
  BY DEF SubInv, Joined, GateIsFaithful, Siblings
<1> QED
  BY <1>1, <1>2, SubInvariant, PTL DEF Exclusive

\* No more sub-agents ever run than the session's budget, over any number of
\* batches, and no sub-agent delegates.
THEOREM DelegationIsBudgeted == Spec => []Budgeted
<1>1. SubInv => Budgeted
  <2> SUFFICES ASSUME SubInv PROVE Budgeted
    OBVIOUS
  <2>1. started <= MaxSpawns
    BY BoundsAssumption DEF SubInv, Typed, BudgetIsKept
  <2> QED
    BY <2>1, SiblingIsAgent DEF SubInv, Budgeted, CallsAreLabelled, Running
<1> QED
  BY <1>1, SubInvariant, PTL

\* The human is asked for one call at most once for each sibling that can run at
\* a time, however often the session delegates.
THEOREM AsksAreParallel == Spec => []AskedInParallelOnly
<1>1. SubInv => AskedInParallelOnly
  <2> SUFFICES ASSUME SubInv, NEW t \in Tools PROVE pending[t] <= MaxParallel
    BY DEF AskedInParallelOnly
  <2> QED
    BY AskersRun, BoundsAssumption DEF SubInv, Typed, AsksAreCounted
<1> QED
  BY <1>1, SubInvariant, PTL
=============================================================================
