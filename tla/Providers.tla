----------------------------- MODULE Providers -----------------------------
(***************************************************************************)
(* One provider turn: the retried request, the vendor's stream translated  *)
(* to events, accumulate, and what the next request replays of it.         *)
(*                                                                         *)
(* The vendors are external.  "anthropic" sends one content block after    *)
(* another; "openai" names the item of every delta, and items overlap;     *)
(* "local" is a server behind the same adapter that gives no ids.  A JSON  *)
(* object is its fragments: it parses when it has all of them.             *)
(***************************************************************************)
EXTENDS Integers, FiniteSets, SequencesExt

CONSTANTS
  Vendors,     \* the vendors of the run
  Whole,       \* bound: fragments of every call's arguments
  MaxCalls,    \* bound: calls of a response
  MaxAttempts, \* max_attempts
  MaxDelay,    \* max_delay, the base delay being 1
  MaxTotal,    \* max_total_seconds
  MaxRequest,  \* bound: how long a request takes
  RetryAfters  \* bound: values of retry_after

ASSUME BoundsAssumption ==
  /\ {Whole, MaxAttempts} \subseteq Nat \ {0}
  /\ {MaxCalls, MaxDelay, MaxTotal, MaxRequest} \cup RetryAfters \subseteq Nat
  /\ IsFiniteSet(RetryAfters)

VARIABLES
  vendor,
  pc,        \* "open", "sleep", "stream", "done" or "raised"
  attempt,   \* RetryPolicy.run: the loop variable
  elapsed,   \* seconds since its start
  raised,    \* what the run ended with, when it did
  emitted,   \* external: the calls the vendor makes, with what it has sent of each
  said,      \* external: text deltas
  thought,   \* external: for each reasoning item, whether it is done
  current,   \* current_tool_id of the Anthropic adapter
  itemIds,   \* call_ids_by_item of the OpenAI adapter
  items,     \* its reasoning_item_meta
  acc,       \* accumulate: its calls in order, last_opened_id, orphan_counter, parts
  message    \* the assistant message of the response

retry  == <<attempt, elapsed, raised>>
stream == <<emitted, said, thought, current, itemIds, items, acc>>
vars   == <<vendor, pc, retry, stream, message>>

NoId     == <<>>
Empty    == [calls |-> <<>>, last |-> NoId, orphans |-> 0, text |-> 0, reasoning |-> 0]
NoAnswer == [kind |-> "none"]

Init ==
  /\ vendor \in Vendors
  /\ pc = "open"
  /\ attempt = 0 /\ elapsed = 0 /\ raised = "nothing"
  /\ emitted = <<>> /\ said = 0 /\ thought = <<>>
  /\ current = NoId /\ itemIds = <<>> /\ items = <<>>
  /\ acc = Empty
  /\ message = NoAnswer

-----------------------------------------------------------------------------
(***************************************************************************)
(* RetryPolicy.run around the opening of the stream                        *)
(***************************************************************************)

Retried == vendor = "anthropic"

Opened ==
  /\ pc = "open"
  /\ pc' = "stream"
  /\ UNCHANGED <<vendor, retry, stream, message>>

Raise(what) ==
  /\ pc' = "raised"
  /\ raised' = what

\* An error that is not retryable; the OpenAI adapter retries none.
Fails ==
  /\ pc = "open"
  /\ Raise("error")
  /\ UNCHANGED <<vendor, attempt, elapsed, stream, message>>

\* Mutant of OverBudget: the time is not looked at.
OverBudgetNever(t) == FALSE

OverBudget(t) == t >= MaxTotal

\* _delay: what the server asks for, or 2^attempt with jitter up to a cap.
Delay == {Min({2 ^ attempt + jitter, MaxDelay}) : jitter \in 0 .. 1} \cup RetryAfters

\* A retryable error: the budget is looked at before the sleep, which comes
\* after the last attempt too.
FailsRetryably ==
  /\ pc = "open"
  /\ Retried
  /\ \E took \in 0 .. MaxRequest :
       IF OverBudget(elapsed + took)
       THEN /\ Raise("over budget")
            /\ elapsed' = elapsed + took
       ELSE /\ pc' = "sleep"
            /\ \E d \in Delay : elapsed' = elapsed + took + d
            /\ UNCHANGED raised
  /\ UNCHANGED <<vendor, attempt, stream, message>>

LastTry == attempt >= MaxAttempts - 1

Wakes ==
  /\ pc = "sleep"
  /\ IF LastTry THEN Raise("exhausted") /\ UNCHANGED attempt
             ELSE pc' = "open" /\ attempt' = attempt + 1 /\ UNCHANGED raised
  /\ UNCHANGED <<vendor, elapsed, stream, message>>

-----------------------------------------------------------------------------
(***************************************************************************)
(* accumulate                                                              *)
(***************************************************************************)

Position(id) == {k \in DOMAIN acc.calls : acc.calls[k].id = id}

Opening(id, name) == [id |-> id, name |-> name, buffer |-> <<>>]
Orphan            == <<"orphan", acc.orphans>>

\* ToolCallStart; a call that fragments have opened before only gets its name.
OnStart(id, name) ==
  LET key  == IF id = NoId THEN Orphan ELSE id
      seen == Position(key)
  IN  [acc EXCEPT
        !.orphans = IF id = NoId THEN @ + 1 ELSE @,
        !.last    = key,
        !.calls   = IF seen = {} THEN Append(@, Opening(key, name))
                    ELSE [k \in DOMAIN @ |-> IF k \in seen THEN [@[k] EXCEPT !.name = name]
                                             ELSE @[k]]]

\* Mutant of Target: a fragment always belongs to the call opened last.
TargetLast(id) == acc.last

Target(id) == IF id # NoId THEN id ELSE acc.last

\* ToolCallDelta; a fragment before any call opens one of its own.
OnDelta(id, fragment) ==
  LET key   == IF Target(id) = NoId THEN Orphan ELSE Target(id)
      known == Position(key) # {}
      calls == IF known THEN acc.calls ELSE Append(acc.calls, Opening(key, ""))
  IN  [acc EXCEPT
        !.orphans = IF Target(id) = NoId THEN @ + 1 ELSE @,
        !.last    = IF known THEN @ ELSE key,
        !.calls   = [k \in DOMAIN calls |->
                       IF calls[k].id = key THEN [calls[k] EXCEPT !.buffer = Append(@, fragment)]
                                            ELSE calls[k]]]

\* json.loads of the buffer, or {} when nothing came.
Parsed(buffer) ==
  CASE buffer = <<>>                       -> "empty"
    [] Len(buffer) > 0 /\ buffer = [k \in 1 .. Whole |-> <<buffer[1][1], k>>] -> "parsed"
    [] OTHER                               -> "malformed"

-----------------------------------------------------------------------------
(***************************************************************************)
(* The stream: what the vendor sends, translated and accumulated at once   *)
(***************************************************************************)

ItemOf(k) == IF vendor = "openai" THEN <<"item", k>> ELSE NoId
IdOf(k)   == IF vendor = "local" THEN NoId ELSE <<"call", k>>

\* The Anthropic adapter tracks the tool that was started last.
Track(id) == IF vendor = "anthropic" THEN id ELSE current

StartCall ==
  /\ pc = "stream"
  /\ Len(emitted) < MaxCalls
  /\ LET k == Len(emitted) + 1
     IN  /\ emitted' = Append(emitted, [name |-> k, sent |-> 0])
         /\ acc' = OnStart(IdOf(k), k)
         /\ current' = Track(IdOf(k))
         /\ itemIds' = Append(itemIds, <<ItemOf(k), IdOf(k)>>)
  /\ UNCHANGED <<vendor, pc, retry, said, thought, items, message>>

\* The id the adapter gives a fragment of call k.
Translated(k) ==
  IF vendor = "anthropic" THEN current
  ELSE LET found == {n \in DOMAIN itemIds : itemIds[n][1] = ItemOf(k)}
       IN  IF ItemOf(k) = NoId THEN NoId ELSE itemIds[CHOOSE n \in found : TRUE][2]

\* Only "openai" sends fragments of a call after it has started another.
Fragment(k) ==
  /\ pc = "stream"
  /\ k = Len(emitted) \/ vendor = "openai"
  /\ emitted[k].sent < Whole
  /\ emitted' = [emitted EXCEPT ![k].sent = @ + 1]
  /\ acc' = OnDelta(Translated(k), <<k, emitted[k].sent + 1>>)
  /\ UNCHANGED <<vendor, pc, retry, said, thought, current, itemIds, items, message>>

Text ==
  /\ pc = "stream"
  /\ said = 0
  /\ said' = said + 1
  /\ acc' = [acc EXCEPT !.text = @ + 1]
  /\ UNCHANGED <<vendor, pc, retry, emitted, thought, current, itemIds, items, message>>

\* Thinking starts.  What is shown of it are reasoning deltas; the OpenAI adapter
\* also keeps the item.
Think ==
  /\ pc = "stream"
  /\ Len(thought) < 2 /\ vendor # "local" /\ emitted = <<>>
  /\ thought' = Append(thought, FALSE)
  /\ acc' \in {acc, [acc EXCEPT !.reasoning = @ + 1]}
  /\ items' = IF vendor = "openai" THEN Append(items, [encrypted |-> FALSE]) ELSE items
  /\ UNCHANGED <<vendor, pc, retry, emitted, said, current, itemIds, message>>

\* output_item.done brings the encrypted content of a reasoning item.  An
\* Anthropic signature is not kept: only the usage of the final message is.
Kept(k) == IF vendor = "openai" THEN [items EXCEPT ![k].encrypted = TRUE] ELSE items

Seal(k) ==
  /\ pc = "stream"
  /\ ~thought[k]
  /\ thought' = [thought EXCEPT ![k] = TRUE]
  /\ items' = Kept(k)
  /\ UNCHANGED <<vendor, pc, retry, emitted, said, current, itemIds, acc, message>>

\* The response, as Message.from_assistant_response makes a message of it.  Text
\* next to calls is dropped.  The vendor may stop anywhere (max_tokens).
Complete ==
  /\ pc = "stream"
  /\ pc' = "done"
  /\ message' =
       [kind      |-> IF acc.calls = <<>> THEN "text" ELSE "calls",
        calls     |-> [k \in DOMAIN acc.calls |->
                         [id   |-> acc.calls[k].id,
                          name |-> acc.calls[k].name,
                          args |-> Parsed(acc.calls[k].buffer)]],
        text      |-> IF acc.calls = <<>> THEN acc.text ELSE 0,
        reasoning |-> acc.reasoning > 0 \/ items # <<>>,
        sealed    |-> items]
  /\ UNCHANGED <<vendor, retry, stream>>

\* The connection breaks; the opened stream is not retried.
BreakOff ==
  /\ pc = "stream"
  /\ Raise("error")
  /\ UNCHANGED <<vendor, attempt, elapsed, stream, message>>

Over == pc \in {"done", "raised"} /\ UNCHANGED vars

Next == \/ Opened \/ Fails \/ FailsRetryably \/ Wakes
        \/ StartCall \/ Text \/ Think \/ Complete \/ BreakOff \/ Over
        \/ \E k \in DOMAIN emitted : Fragment(k)
        \/ \E k \in DOMAIN thought : Seal(k)

Spec == Init /\ [][Next]_vars

-----------------------------------------------------------------------------
(***************************************************************************)
(* The next request                                                        *)
(***************************************************************************)

\* What the message keeps of each reasoning item, in its reasoning block if it has one.
ReasoningItems(m) ==
  IF m.reasoning
  THEN [k \in DOMAIN m.sealed |-> [type |-> "reasoning", encrypted |-> m.sealed[k].encrypted]]
  ELSE <<>>
FunctionCalls(m) == [k \in DOMAIN m.calls |-> [type |-> "function_call", call_id |-> m.calls[k].id]]
PlainText(m)     == <<[type |-> "message", text |-> m.text]>>

\* Mutant of Replayed: the blocks are sent in the order they are looked for.
ReplayedLast(m) ==
  IF m.calls # <<>> THEN FunctionCalls(m) \o ReasoningItems(m) ELSE PlainText(m)

\* _to_responses_input: the reasoning items and then the calls.  A message without
\* calls is its text alone: the items collected for it are not returned.
Replayed(m) ==
  IF m.calls # <<>> THEN ReasoningItems(m) \o FunctionCalls(m) ELSE PlainText(m)

-----------------------------------------------------------------------------
(***************************************************************************)
(* Properties                                                              *)
(***************************************************************************)

\* The response has the calls of the vendor, in the order they were started and
\* each with its own arguments, however the fragments interleave and whichever
\* ids are missing; a call cut short is never run with part of its arguments
\* (base.py, "never drop data").
CallsAreAsEmitted ==
  pc = "done" =>
    /\ Len(message.calls) = Len(emitted)
    /\ \A k \in DOMAIN emitted :
         /\ message.calls[k].name = emitted[k].name
         /\ message.calls[k].args = CASE emitted[k].sent = 0     -> "empty"
                                      [] emitted[k].sent = Whole -> "parsed"
                                      [] OTHER                   -> "malformed"
    /\ \A j, k \in DOMAIN message.calls :
         message.calls[j].id = message.calls[k].id => j = k

\* However slow requests and servers are, no attempt begins later than the time
\* budget and one delay after the first.
AttemptsInTime ==
  (pc = "open" /\ attempt > 0) =>
    elapsed < MaxTotal + Max({MaxDelay} \cup RetryAfters)

\* A turn with calls goes back to OpenAI as the model made it: each of its
\* reasoning items, in order and sealed exactly if its seal came, and then each of
\* its calls under the id that its result will name, even when nothing of the
\* reasoning was shown.  Of a turn without calls nothing is claimed: its items are
\* dropped, although they should carry "across turns".
ReasoningIsReplayed ==
  (pc = "done" /\ vendor = "openai" /\ emitted # <<>>) =>
    Replayed(message) =
      [k \in DOMAIN thought |-> [type |-> "reasoning", encrypted |-> thought[k]]] \o
      [k \in DOMAIN emitted |-> [type |-> "function_call", call_id |-> IdOf(k)]]
=============================================================================
