----------------------------- MODULE AgentLoop -----------------------------
(***************************************************************************)
(* The turn loop of harness/agent.py with what it drives: the registry's   *)
(* dispatch and loop guard, the completion gate over the active plan, the  *)
(* compaction of the transcript and the repair before every send.          *)
(*                                                                         *)
(* What the model says, which tools answer and when the context is full is *)
(* open; a step ends where the code awaits or returns.  A run may be cut   *)
(* short at every await, and the caller may go on with its transcript.     *)
(***************************************************************************)
EXTENDS Integers, FiniteSets, SequencesExt

CONSTANTS
  MaxIterations,  \* max_iterations
  MaxNudges,      \* MAX_COMPLETION_NUDGES
  MaxRepeat,      \* MAX_REPEAT_CALLS
  KeepResults,    \* Compactor.keep_recent_results
  KeepTurns,      \* Compactor.keep_recent_turns_on_summary
  Keys,           \* tool names with arguments
  Items,          \* steps and postconditions a plan may have
  IdsGiven,       \* whether the vendor gives calls an id: the answers a response may have
  MaxCalls,       \* bound: tool calls in one response
  MaxRuns         \* bound: runs over one transcript

ASSUME BoundsAssumption ==
  /\ MaxIterations \in Nat
  /\ MaxNudges \in Nat
  /\ MaxRepeat \in Nat \ {0}
  /\ KeepResults \in Nat \ {0}
  /\ KeepTurns \in Nat \ {0}
  /\ MaxCalls \in Nat \ {0}
  /\ MaxRuns \in Nat \ {0}
  /\ IdsGiven \subseteq BOOLEAN

VARIABLES
  transcript,   \* Transcript.messages: what each is, and the call ids in it
  masked,       \* ids of calls whose result was elided
  plan,         \* PlanHolder.plan: whether there is one, and its open items
  callHistory,  \* the keys _check_loop looks at: the last MaxRepeat of them
  todo,         \* the tool calls of the response that await dispatch
  iteration,    \* the loop variable
  nudges,       \* completion_nudges
  pc,           \* where arun is; "idle" when the caller has the transcript
  stop,         \* stop_reason, or "raised"
  runs,         \* how many runs the transcript has seen
  sends,        \* history: provider turns of this run
  bodies,       \* history: the last key whose tool ran, and how often in a row
  broken        \* history: a run was cut short between calls and their results

loop    == <<iteration, nudges, sends>>
calls   == <<callHistory, todo, bodies>>
context == <<transcript, masked>>
vars    == <<context, plan, calls, loop, pc, stop, runs, broken>>

PC   == {"idle", "turn", "send", "respond", "gate", "dispatch", "grace", "wrapup"}
Stop == {"none", "completed", "empty_response", "incomplete_plan", "deadline",
         "max_iterations", "raised"}

\* A message with the ids of its ToolCall blocks, or of the call it answers.
UserText      == [kind |-> "user", ids |-> <<>>]
Text(blank)   == [kind |-> IF blank THEN "blank" ELSE "text", ids |-> <<>>]
ToolCalls(s)  == [kind |-> "calls", ids |-> s]
ToolResult(c) == [kind |-> "result", ids |-> <<c>>]

NoPlan  == [active |-> FALSE, open |-> {}]
NoBody  == [key |-> "none", count |-> 0]

\* plan is None, or is_ready_to_finalize.
Ready == plan.active => plan.open = {}

Init ==
  /\ transcript = <<>>
  /\ masked = {}
  /\ plan \in {NoPlan} \cup [active : {TRUE}, open : SUBSET Items]
  /\ callHistory = <<>>
  /\ todo = <<>>
  /\ iteration = 0
  /\ nudges = 0
  /\ pc = "idle"
  /\ stop = "none"
  /\ runs = 0
  /\ sends = 0
  /\ bodies = NoBody
  /\ broken = FALSE

Goto(from, to) == pc = from /\ pc' = to

Append1(m) == transcript' = Append(transcript, m)

Return(from, reason) ==
  /\ Goto(from, "idle")
  /\ stop' = reason

-----------------------------------------------------------------------------
(***************************************************************************)
(* Compaction and repair                                                   *)
(***************************************************************************)

Results(t) == {m \in DOMAIN t : t[m].kind = "result"}

\* mask_older_results: all but the most recent KeepResults of them.
Masked(t) ==
  {t[m].ids[1] : m \in {k \in Results(t) :
                          Cardinality({l \in Results(t) : l > k}) >= KeepResults}}

\* Mutant of Cut: the cut stays where the count of turns puts it.
CutUnsnapped(t) == Len(t) - KeepTurns + 1

\* The first message summarize_prefix keeps: it retreats past leading results.
Cut(t) ==
  Max({c \in 2 .. Len(t) - KeepTurns + 1 : c = 2 \/ t[c].kind # "result"})

\* summarize_prefix: what lies between the first message and the cut becomes
\* one message, unless there is nothing there.
Summarized(t) ==
  IF Len(t) <= KeepTurns + 1 \/ Cut(t) = 2 THEN t
  ELSE <<t[1], UserText>> \o SubSeq(t, Cut(t), Len(t))

Orphans(t) ==
  {m \in Results(t) :
     ~\E c \in DOMAIN t : t[c].kind = "calls" /\ t[m].ids[1] \in ToSet(t[c].ids)}

\* drop_orphan_tool_results: the n-th message that stays is the one up to which
\* n stay.
DropOrphans(t) ==
  LET kept == DOMAIN t \ Orphans(t)
  IN  [n \in 1 .. Cardinality(kept) |->
         t[CHOOSE m \in kept : Cardinality({k \in kept : k <= m}) = n]]

-----------------------------------------------------------------------------
(***************************************************************************)
(* arun                                                                    *)
(***************************************************************************)

\* The caller passes a new user message, and a transcript it may have used before.
Start ==
  /\ runs < MaxRuns
  /\ Goto("idle", "turn")
  /\ Append1(UserText)
  /\ runs' = runs + 1
  /\ iteration' = 0 /\ nudges' = 0 /\ sends' = 0
  /\ callHistory' = <<>> /\ todo' = <<>> /\ bodies' = NoBody
  /\ stop' = "none"
  /\ UNCHANGED <<masked, plan, broken>>

\* deadline_s has passed; it is looked at between turns only.
Deadline ==
  /\ iteration < MaxIterations
  /\ Return("turn", "deadline")
  /\ UNCHANGED <<context, plan, calls, loop, runs, broken>>

\* The snapshot is not red, or compact_if_needed measures and finds it is not.
BeginTurn ==
  /\ iteration < MaxIterations
  /\ Goto("turn", "send")
  /\ UNCHANGED <<context, plan, calls, loop, stop, runs, broken>>

\* compact_if_needed masks, and summarizes when that was not enough.
BeginTurnCompacting ==
  /\ iteration < MaxIterations
  /\ Goto("turn", "send")
  /\ masked' = masked \cup Masked(transcript)
  /\ transcript' \in {transcript, Summarized(transcript)}
  /\ UNCHANGED <<plan, calls, loop, stop, runs, broken>>

\* _one_turn up to the provider's stream.
Send ==
  /\ Goto("send", "respond")
  /\ transcript' = DropOrphans(transcript)
  /\ sends' = sends + 1
  /\ UNCHANGED <<masked, plan, calls, iteration, nudges, stop, runs, broken>>

\* The response has no tool call; its text may be blank.
RespondText ==
  /\ Goto("respond", "gate")
  /\ \E blank \in BOOLEAN : Append1(Text(blank))
  /\ UNCHANGED <<masked, plan, calls, loop, stop, runs, broken>>

\* Mutant of Nudge: one nudge more than MAX_COMPLETION_NUDGES.
NudgeOnceMore ==
  /\ ~Ready
  /\ nudges <= MaxNudges
  /\ Goto("gate", "turn")
  /\ nudges' = nudges + 1
  /\ iteration' = iteration + 1
  /\ Append1(UserText)
  /\ UNCHANGED <<masked, plan, calls, sends, stop, runs, broken>>

\* The completion gate asks for more work; the turn is used up.
Nudge ==
  /\ ~Ready
  /\ nudges < MaxNudges
  /\ Goto("gate", "turn")
  /\ nudges' = nudges + 1
  /\ iteration' = iteration + 1
  /\ Append1(UserText)
  /\ UNCHANGED <<masked, plan, calls, sends, stop, runs, broken>>

\* Mutant of FailClosed: an exhausted gate lets the answer through.
FailOpen ==
  /\ ~Ready
  /\ nudges >= MaxNudges
  /\ Return("gate", "completed")
  /\ UNCHANGED <<context, plan, calls, loop, runs, broken>>

FailClosed ==
  /\ ~Ready
  /\ nudges >= MaxNudges
  /\ Return("gate", "incomplete_plan")
  /\ UNCHANGED <<context, plan, calls, loop, runs, broken>>

Accept ==
  /\ Ready
  /\ Return("gate", IF Last(transcript).kind = "blank" THEN "empty_response" ELSE "completed")
  /\ UNCHANGED <<context, plan, calls, loop, runs, broken>>

\* accumulate: the vendor's id, or the number of the call in its response.
Id(given, k) == IF given THEN <<runs, iteration, k>> ELSE <<0, 0, k>>

\* Mutant of RespondCalls: the registry of a turn starts a history of its own.
RespondCallsForgetful ==
  /\ Goto("respond", "dispatch")
  /\ \E n \in 1 .. MaxCalls, given \in IdsGiven : \E keys \in [1 .. n -> Keys] :
       /\ Append1(ToolCalls([k \in 1 .. n |-> Id(given, k)]))
       /\ todo' = [k \in 1 .. n |-> [id |-> Id(given, k), key |-> keys[k]]]
  /\ callHistory' = <<>>
  /\ UNCHANGED <<masked, plan, bodies, loop, stop, runs, broken>>

\* The response has tool calls, which become one message; a vendor may leave
\* their ids out.
RespondCalls ==
  /\ Goto("respond", "dispatch")
  /\ \E n \in 1 .. MaxCalls, given \in IdsGiven : \E keys \in [1 .. n -> Keys] :
       /\ Append1(ToolCalls([k \in 1 .. n |-> Id(given, k)]))
       /\ todo' = [k \in 1 .. n |-> [id |-> Id(given, k), key |-> keys[k]]]
  /\ UNCHANGED <<masked, plan, callHistory, bodies, loop, stop, runs, broken>>

-----------------------------------------------------------------------------
(***************************************************************************)
(* ToolRegistry.dispatch, in the order of the calls                        *)
(***************************************************************************)

\* The result of the next call is appended; after the last one a turn begins.
Answer ==
  /\ pc = "dispatch"
  /\ Append1(ToolResult(todo[1].id))
  /\ todo' = Tail(todo)
  /\ IF Len(todo) = 1 THEN pc' = "turn" /\ iteration' = iteration + 1
                      ELSE UNCHANGED <<pc, iteration>>
  /\ UNCHANGED <<masked, nudges, sends, stop, runs, broken>>

LastOnes(s) == SubSeq(s, Max({1, Len(s) - MaxRepeat + 1}), Len(s))

Record == callHistory' = LastOnes(Append(callHistory, todo[1].key))

\* _check_loop, after _record.
Looping ==
  LET h == LastOnes(Append(callHistory, todo[1].key))
  IN  Len(h) = MaxRepeat /\ \A k \in DOMAIN h : h[k] = todo[1].key

\* Unknown tool, malformed or invalid arguments, or permission denied.
Refuse ==
  /\ Answer
  /\ UNCHANGED <<plan, callHistory, bodies>>

BreakLoop ==
  /\ Answer
  /\ Record
  /\ Looping
  /\ UNCHANGED <<plan, bodies>>

\* The tool returns or raises.  A plan tool may leave any items open: they are
\* closed, reopened, or replaced by plan_create.
Invoke ==
  /\ Answer
  /\ Record
  /\ ~Looping
  /\ bodies' = IF bodies.key = todo[1].key
               THEN [bodies EXCEPT !.count = @ + 1]
               ELSE [key |-> todo[1].key, count |-> 1]
  /\ plan' \in {plan} \cup [active : {TRUE}, open : SUBSET Items]

-----------------------------------------------------------------------------
(***************************************************************************)
(* The end of the budget, and of a run that is cut short                   *)
(***************************************************************************)

\* Mutant of Exhausted: the loop is left one iteration too late.
ExhaustedLate ==
  /\ iteration > MaxIterations
  /\ Goto("turn", "grace")
  /\ Append1(UserText)
  /\ UNCHANGED <<masked, plan, calls, loop, stop, runs, broken>>

Exhausted ==
  /\ iteration = MaxIterations
  /\ Goto("turn", "grace")
  /\ Append1(UserText)
  /\ UNCHANGED <<masked, plan, calls, loop, stop, runs, broken>>

\* The grace turn is sent without tools, so that its response has no calls.
SendGrace ==
  /\ Goto("grace", "wrapup")
  /\ transcript' = DropOrphans(transcript)
  /\ sends' = sends + 1
  /\ UNCHANGED <<masked, plan, calls, iteration, nudges, stop, runs, broken>>

\* Its text is the summary; when it fails, the last text in the transcript is.
WrapUp ==
  /\ Return("wrapup", "max_iterations")
  /\ \/ \E blank \in BOOLEAN : Append1(Text(blank))
     \/ UNCHANGED transcript
  /\ UNCHANGED <<masked, plan, calls, loop, runs, broken>>

\* CancelledError while the provider streams: the partial text is kept, if any.
\* An error of the provider is raised too, except in the grace turn.
Interrupted ==
  /\ \E from \in {"send", "respond", "wrapup"} : Return(from, "raised")
  /\ \/ pc # "send" /\ Append1(Text(FALSE))
     \/ UNCHANGED transcript
  /\ UNCHANGED <<masked, plan, calls, loop, runs, broken>>

\* CancelledError, or an error in asking for permission, while a call is
\* dispatched: the calls in todo have no results.
DispatchInterrupted ==
  /\ Return("dispatch", "raised")
  /\ broken' = TRUE
  /\ UNCHANGED <<context, plan, calls, loop, runs>>

Turn == \/ Deadline \/ BeginTurn \/ BeginTurnCompacting \/ Send
        \/ RespondText \/ Nudge \/ FailClosed \/ Accept \/ RespondCalls
        \/ Refuse \/ BreakLoop \/ Invoke
        \/ Exhausted \/ SendGrace \/ WrapUp

Next == Start \/ Turn \/ Interrupted \/ DispatchInterrupted

Spec == Init /\ [][Next]_vars

\* A run goes on: the provider and the tools answer or fail.
FairSpec == Spec /\ WF_vars(Turn)

-----------------------------------------------------------------------------
(***************************************************************************)
(* Properties                                                              *)
(***************************************************************************)

CallId  == (0 .. MaxRuns) \X (0 .. MaxIterations) \X (1 .. MaxCalls)
Message == [kind : {"user", "text", "blank", "calls", "result"}, ids : Seq(CallId)]

\* Every variable keeps its type; calls wait for dispatch only while a response
\* is being dispatched, or after that was cut short.
TypeOK ==
  /\ transcript \in Seq(Message)
  /\ masked \subseteq CallId
  /\ plan \in [active : BOOLEAN, open : SUBSET Items]
  /\ callHistory \in Seq(Keys) /\ Len(callHistory) <= MaxRepeat
  /\ todo \in Seq([id : CallId, key : Keys])
  /\ pc = "dispatch" => todo # <<>>
  /\ todo # <<>> => pc = "dispatch" \/ stop = "raised"
  /\ iteration \in 0 .. MaxIterations
  /\ nudges \in 0 .. MaxNudges
  /\ pc \in PC
  /\ stop \in Stop
  /\ runs \in 0 .. MaxRuns
  /\ sends \in Nat
  /\ bodies \in [key : Keys \cup {"none"}, count : Nat]
  /\ broken \in BOOLEAN

Answered(m) ==
  \A k \in DOMAIN transcript[m].ids :
    /\ m + k <= Len(transcript)
    /\ transcript[m + k] = ToolResult(transcript[m].ids[k])

\* Whatever was masked, summarized or cut short before, the transcript that is
\* sent is a valid stream of tool pairs: every result follows its call, so that
\* the repair finds nothing to drop, and every call is followed by its results
\* unless a dispatch was cut short (test_context_boundary.py).
ToolPairs ==
  pc \in {"send", "grace"} =>
    /\ \A m \in DOMAIN transcript : transcript[m].kind = "result" =>
         \E c \in 1 .. m - 1 : /\ transcript[c].kind = "calls"
                               /\ transcript[m].ids[1] \in ToSet(transcript[c].ids)
    /\ ~broken => \A m \in DOMAIN transcript : transcript[m].kind = "calls" => Answered(m)

\* The reason a run reports is the one it earned: nothing is "completed" with
\* open items or a blank answer, a plan is given up only after every nudge had a
\* turn of its own, and the budget is exhausted only when every turn was had.
\* Nudges and refused calls come out of the same budget.
HonestStop ==
  /\ sends <= iteration + 1 /\ sends <= MaxIterations + 1
  /\ stop = "completed" => Ready /\ Last(transcript).kind = "text"
  /\ stop = "empty_response" => Ready /\ Last(transcript).kind = "blank"
  /\ stop = "incomplete_plan" => ~Ready /\ nudges = MaxNudges /\ sends > MaxNudges
  /\ stop = "max_iterations" => sends = MaxIterations + 1

\* No tool runs MaxRepeat times in a row with the same arguments, over however
\* many responses the calls are spread (test_agent_loop.py, the cross-turn guard).
LoopGuard == bodies.count < MaxRepeat

\* Every run ends, whatever the model asks for (agent.py, "bounded").
RunEnds == pc # "idle" ~> pc = "idle"
=============================================================================
