-------------------------- MODULE Providers_proofs --------------------------
(***************************************************************************)
(* Proofs about Providers, for all vendors, fragmentations and bounds.     *)
(***************************************************************************)
EXTENDS Providers, FiniteSetTheorems, WellFoundedInduction, SequenceTheorems, TLAPS

\* Every nonempty set of natural numbers has a least element.
LEMMA LeastNat ==
  ASSUME NEW T, T \subseteq Nat, T # {}
  PROVE  \E x \in T : \A y \in T : x <= y
<1>1. PICK x \in T : \A y \in T : ~(<<y, x>> \in OpToRel(<, Nat))
  BY WFMin, NatLessThanWellFounded
<1>2. \A y \in T : ~(y < x)
  BY <1>1 DEF OpToRel
<1> QED
  BY <1>2

\* Max of a finite set of natural numbers is an element no other exceeds: one
\* with the fewest above it.
LEMMA MaxOfFinite ==
  ASSUME NEW S, IsFiniteSet(S), S \subseteq Nat, S # {}
  PROVE  Max(S) \in S /\ \A x \in S : x <= Max(S)
<1> DEFINE Above(x) == {y \in S : y > x}
           Sizes == {Cardinality(Above(x)) : x \in S}
<1>1. \A x \in S : IsFiniteSet(Above(x)) /\ Cardinality(Above(x)) \in Nat
  BY FS_Subset, FS_CardinalityType
<1>2. Sizes # {} /\ Sizes \subseteq Nat
  BY <1>1
<1>3. PICK n \in Sizes : \A m \in Sizes : n <= m
  <2> HIDE DEF Sizes
  <2> QED
    BY <1>2, LeastNat
<1>4. PICK x \in S : Cardinality(Above(x)) = n
  OBVIOUS
<1>5. ASSUME NEW y \in S PROVE x >= y
  <2>1. SUFFICES ASSUME y > x PROVE FALSE
    OBVIOUS
  <2>2. Above(y) \in SUBSET Above(x) /\ y \in Above(x) /\ y \notin Above(y)
    <3>1. \A z \in S : z > y => z > x
      BY <2>1
    <3>2. ~(y > y)
      OBVIOUS
    <3> QED
      BY <2>1, <3>1, <3>2
  <2>3. Cardinality(Above(y)) <= Cardinality(Above(x))
        /\ Cardinality(Above(y)) # Cardinality(Above(x))
    <3> HIDE DEF Above
    <3> QED
      BY <1>1, <2>2, FS_Subset
  <2>4. n <= Cardinality(Above(y))
    BY <1>3
  <2> HIDE DEF Above, Sizes
  <2> QED
    BY <1>1, <1>4, <2>3, <2>4
<1>6. Max(S) \in S /\ \A y \in S : Max(S) >= y
  BY <1>5 DEF Max
<1> QED
  BY <1>6

-----------------------------------------------------------------------------
(***************************************************************************)
(* The inductive invariant                                                 *)
(***************************************************************************)

Slack == MaxTotal + Max({MaxDelay} \cup RetryAfters)

\* Whoever sleeps, and whoever tries again, has passed the look at the budget
\* and at most one delay since.
TimeIsKept ==
  /\ attempt \in Nat /\ elapsed \in Int
  /\ pc = "sleep" => elapsed < Slack
  /\ (pc = "open" /\ attempt > 0) => elapsed < Slack

Ids     == {NoId} \cup ({"call", "orphan"} \X Nat)
Call    == [name : Nat, sent : 0 .. Whole]
Partial == [id : Ids, name : Nat \cup {""}, buffer : Seq(Nat \X Nat)]
Acc     == [calls : Seq(Partial), last : Ids, orphans : Nat, text : Nat, reasoning : Nat]

\* The id under which accumulate keeps the k-th call.
Key(k) == IF vendor = "local" THEN <<"orphan", k - 1>> ELSE <<"call", k>>

Started == Len(emitted)

Typed ==
  /\ emitted \in Seq(Call)
  /\ acc \in Acc
  /\ thought \in Seq(BOOLEAN)
  /\ items \in Seq([encrypted : BOOLEAN])
  /\ itemIds \in Seq(({NoId} \cup ({"item"} \X Nat)) \X Ids)

\* accumulate holds a call for each that the vendor started, under a key of its
\* own and with exactly the fragments sent of it, in order.
CallsAreHeld ==
  /\ Len(acc.calls) = Started
  /\ \A k \in 1 .. Started :
       /\ emitted[k].name = k
       /\ acc.calls[k].id = Key(k)
       /\ acc.calls[k].name = k
       /\ acc.calls[k].buffer = [i \in 1 .. emitted[k].sent |-> <<k, i>>]

\* What the adapters remember leads a fragment to the call it is of.
TargetsAreKnown ==
  /\ acc.orphans = IF vendor = "local" THEN Started ELSE 0
  /\ acc.last = IF Started = 0 THEN NoId ELSE Key(Started)
  /\ (vendor = "anthropic" /\ Started > 0) => current = Key(Started)
  /\ Len(itemIds) = Started
  /\ \A k \in 1 .. Started : itemIds[k] = <<ItemOf(k), IdOf(k)>>

\* The OpenAI adapter keeps an item for each thought, sealed just if the thought is.
ItemsAreKept ==
  vendor = "openai" =>
    /\ Len(items) = Len(thought)
    /\ \A k \in 1 .. Len(thought) : items[k].encrypted = thought[k]

\* The message is made of what was accumulated when the stream ended.
MessageIsMade ==
  pc = "done" =>
    message =
      [kind      |-> IF acc.calls = <<>> THEN "text" ELSE "calls",
       calls     |-> [k \in DOMAIN acc.calls |->
                        [id   |-> acc.calls[k].id,
                         name |-> acc.calls[k].name,
                         args |-> Parsed(acc.calls[k].buffer)]],
       text      |-> IF acc.calls = <<>> THEN acc.text ELSE 0,
       reasoning |-> acc.reasoning > 0 \/ items # <<>>,
       sealed    |-> items]

TurnInv ==
  TimeIsKept /\ Typed /\ CallsAreHeld /\ TargetsAreKnown /\ ItemsAreKept /\ MessageIsMade

-----------------------------------------------------------------------------
(***************************************************************************)
(* accumulate                                                              *)
(***************************************************************************)

\* Every call has a key of its own, and no key is missing.
LEMMA KeysDiffer ==
  /\ \A k \in Nat : Key(k + 1) \in Ids /\ Key(k + 1) # NoId
  /\ \A j, k \in Nat : Key(j) = Key(k) => j = k
<1>1. \A k \in Nat : k + 1 \in Nat /\ (k + 1) - 1 = k
  OBVIOUS
<1>2. \A k \in Nat : <<"call", k>> # <<>> /\ <<"orphan", k>> # <<>>
  OBVIOUS
<1>3. \A j, k \in Nat : /\ <<"call", j>> = <<"call", k>> => j = k
                        /\ <<"orphan", j - 1>> = <<"orphan", k - 1>> => j = k
  OBVIOUS
<1> QED
  BY <1>1, <1>2, <1>3 DEF Key, Ids, NoId

\* A call that starts is held behind the others, under a key of its own.
LEMMA HoldsStart ==
  ASSUME Typed, CallsAreHeld, TargetsAreKnown
  PROVE  OnStart(IdOf(Started + 1), Started + 1) =
           [acc EXCEPT !.orphans = IF vendor = "local" THEN Started + 1 ELSE 0,
                       !.last = Key(Started + 1),
                       !.calls = Append(acc.calls, Opening(Key(Started + 1), Started + 1))]
<1>1. Started \in Nat
  BY DEF Typed, Started
<1>2. (IdOf(Started + 1) = NoId) <=> vendor = "local"
  BY <1>1 DEF IdOf, NoId
<1>3. (IF IdOf(Started + 1) = NoId THEN Orphan ELSE IdOf(Started + 1)) = Key(Started + 1)
  BY <1>1, <1>2 DEF TargetsAreKnown, Orphan, IdOf, Key
<1>4. Position(Key(Started + 1)) = {}
  <2>1. DOMAIN acc.calls = 1 .. Started
    BY <1>1 DEF Typed, Acc, CallsAreHeld
  <2>2. \A k \in 1 .. Started : k \in Nat /\ k # Started + 1
    BY <1>1
  <2>3. \A k \in 1 .. Started : Key(k) # Key(Started + 1)
    BY <1>1, <2>2, KeysDiffer
  <2>4. \A k \in 1 .. Started : acc.calls[k].id # Key(Started + 1)
    BY <2>3 DEF CallsAreHeld
  <2> QED
    BY <2>1, <2>4 DEF Position
<1> QED
  BY <1>2, <1>3, <1>4 DEF OnStart, TargetsAreKnown, Typed, Acc

\* A fragment whose target is the k-th call is added to that call and no other.
LEMMA HoldsDelta ==
  ASSUME Typed, CallsAreHeld, TargetsAreKnown, NEW k \in 1 .. Started,
         NEW fragment, NEW id, Target(id) = Key(k)
  PROVE  OnDelta(id, fragment) =
           [acc EXCEPT !.calls =
              [j \in 1 .. Started |->
                 IF j = k THEN [acc.calls[j] EXCEPT !.buffer = Append(@, fragment)]
                          ELSE acc.calls[j]]]
<1>1. Started \in Nat /\ DOMAIN acc.calls = 1 .. Started
  BY DEF Typed, Started, Acc, CallsAreHeld
<1>2. Key(k) # NoId
  <2>1. k - 1 \in Nat /\ (k - 1) + 1 = k
    BY <1>1
  <2> QED
    BY <2>1, KeysDiffer
<1>3. \A j \in 1 .. Started : (acc.calls[j].id = Key(k)) <=> (j = k)
  <2>1. \A j \in 1 .. Started : acc.calls[j].id = Key(j)
    BY DEF CallsAreHeld
  <2>2. \A j \in 1 .. Started : j \in Nat
    BY <1>1
  <2> QED
    BY <2>1, <2>2, KeysDiffer
<1>4. Position(Key(k)) # {}
  BY <1>1, <1>3 DEF Position
<1>5. OnDelta(id, fragment) =
        [acc EXCEPT !.orphans = @, !.last = @,
                    !.calls = [j \in DOMAIN acc.calls |->
                       IF acc.calls[j].id = Key(k)
                       THEN [acc.calls[j] EXCEPT !.buffer = Append(@, fragment)]
                       ELSE acc.calls[j]]]
  BY <1>2, <1>4 DEF OnDelta
<1>6. [j \in DOMAIN acc.calls |->
         IF acc.calls[j].id = Key(k)
         THEN [acc.calls[j] EXCEPT !.buffer = Append(@, fragment)] ELSE acc.calls[j]]
      = [j \in 1 .. Started |->
           IF j = k THEN [acc.calls[j] EXCEPT !.buffer = Append(@, fragment)]
                    ELSE acc.calls[j]]
  BY <1>1, <1>3
<1> QED
  BY <1>5, <1>6 DEF Typed, Acc

-----------------------------------------------------------------------------
(***************************************************************************)
(* The retried request                                                     *)
(***************************************************************************)

\* No delay is longer than the cap, or than what a server may ask for.
LEMMA DelaysAreBounded ==
  ASSUME attempt \in Nat
  PROVE  \A d \in Delay : d \in Int /\ d <= Max({MaxDelay} \cup RetryAfters)
<1> DEFINE All == {MaxDelay} \cup RetryAfters
<1>1. \A d \in All : d \in Nat /\ d <= Max(All)
  <2>1. All \subseteq Nat /\ All # {} /\ IsFiniteSet(All)
    BY BoundsAssumption, FS_AddElement
  <2> QED
    BY <2>1, MaxOfFinite
<1>2. \A jitter \in 0 .. 1 : /\ Min({2 ^ attempt + jitter, MaxDelay}) \in Int
                             /\ Min({2 ^ attempt + jitter, MaxDelay}) <= MaxDelay
  <2> SUFFICES ASSUME NEW jitter \in 0 .. 1
               PROVE  /\ Min({2 ^ attempt + jitter, MaxDelay}) \in Int
                      /\ Min({2 ^ attempt + jitter, MaxDelay}) <= MaxDelay
    OBVIOUS
  <2>1. PICK a \in Int : a = 2 ^ attempt + jitter
    BY 2 ^ attempt \in Int
  <2>2. MaxDelay \in Int
    BY BoundsAssumption
  <2>3. Min({a, MaxDelay}) \in Int /\ Min({a, MaxDelay}) <= MaxDelay
    BY <2>2 DEF Min
  <2> QED
    BY <2>1, <2>3
<1>3. MaxDelay <= Max(All) /\ MaxDelay \in Nat /\ Max(All) \in Int
  <2>1. Max(All) \in All
    BY BoundsAssumption, FS_AddElement, MaxOfFinite
  <2> QED
    BY <1>1, <2>1
<1> SUFFICES ASSUME NEW d \in Delay PROVE d \in Int /\ d <= Max(All)
  OBVIOUS
<1>4. CASE d \in RetryAfters
  BY <1>1, <1>4
<1>5. CASE \E jitter \in 0 .. 1 : d = Min({2 ^ attempt + jitter, MaxDelay})
  <2>1. d \in Int /\ d <= MaxDelay
    BY <1>2, <1>5
  <2> HIDE DEF All
  <2> QED
    BY <1>3, <2>1
<1> QED
  BY <1>4, <1>5 DEF Delay

\* Every step keeps the time.
LEMMA TimeStep ==
  ASSUME TimeIsKept, [Next]_vars
  PROVE  TimeIsKept'
<1> USE DEF TimeIsKept
<1>1. CASE Opened \/ Fails \/ Wakes
  <2>1. attempt' \in Nat
    BY <1>1 DEF Opened, Fails, Wakes, retry
  <2> QED
    BY <1>1, <2>1 DEF Opened, Fails, Wakes, Raise, retry
<1>2. CASE FailsRetryably
  <2>1. PICK took \in 0 .. MaxRequest :
          IF OverBudget(elapsed + took)
          THEN Raise("over budget") /\ elapsed' = elapsed + took
          ELSE /\ pc' = "sleep"
               /\ \E d \in Delay : elapsed' = elapsed + took + d
               /\ UNCHANGED raised
    BY <1>2 DEF FailsRetryably
  <2>2. attempt' = attempt /\ took \in Int /\ MaxTotal \in Int
    <3>1. MaxRequest \in Nat /\ MaxTotal \in Nat
      BY BoundsAssumption
    <3>2. attempt' = attempt
      BY <1>2 DEF FailsRetryably
    <3> QED
      BY <3>1, <3>2
  <2>3. CASE OverBudget(elapsed + took)
    <3>1. pc' = "raised" /\ elapsed' = elapsed + took
      BY <2>1, <2>3 DEF Raise
    <3> QED
      BY <2>2, <3>1
  <2>4. CASE ~OverBudget(elapsed + took)
    <3>1. PICK d \in Delay : elapsed' = elapsed + took + d
      BY <2>1, <2>4
    <3>2. d \in Int /\ d <= Max({MaxDelay} \cup RetryAfters)
      BY DelaysAreBounded
    <3>3. Max({MaxDelay} \cup RetryAfters) \in Int
      BY BoundsAssumption, FS_AddElement, MaxOfFinite
    <3>4. elapsed + took < MaxTotal
      BY <2>2, <2>4 DEF OverBudget
    <3> QED
      BY <2>1, <2>2, <2>4, <3>1, <3>2, <3>3, <3>4 DEF Slack
  <2> QED
    BY <2>3, <2>4
<1>3. CASE \/ StartCall \/ Text \/ Think \/ Complete \/ BreakOff \/ Over \/ UNCHANGED vars
           \/ \E k \in DOMAIN emitted : Fragment(k)
           \/ \E k \in DOMAIN thought : Seal(k)
  <2>1. UNCHANGED <<attempt, elapsed>> /\ (pc' = pc \/ pc' \in {"done", "raised"})
    BY <1>3 DEF StartCall, Text, Think, Complete, BreakOff, Over, Fragment, Seal, Raise, retry, vars
  <2> QED
    BY <2>1
<1> QED
  BY <1>1, <1>2, <1>3 DEF Next

-----------------------------------------------------------------------------
(***************************************************************************)
(* The stream                                                              *)
(***************************************************************************)

StreamInv == Typed /\ CallsAreHeld /\ TargetsAreKnown

\* A call that starts is held like the others.
LEMMA StartStep ==
  ASSUME StreamInv, StartCall
  PROVE  StreamInv'
<1> DEFINE k == Started + 1
<1>1. Started \in Nat /\ k \in Nat \ {0}
  BY DEF StreamInv, Typed, Started
<1>2. /\ vendor' = vendor /\ thought' = thought /\ items' = items
      /\ emitted' = Append(emitted, [name |-> k, sent |-> 0])
      /\ acc' = [acc EXCEPT !.orphans = IF vendor = "local" THEN k ELSE 0,
                            !.last = Key(k),
                            !.calls = Append(acc.calls, Opening(Key(k), k))]
      /\ current' = Track(IdOf(k))
      /\ itemIds' = Append(itemIds, <<ItemOf(k), IdOf(k)>>)
  BY HoldsStart DEF StartCall, StreamInv, Started
<1> HIDE DEF k
<1>3. Key(k) \in Ids
  BY <1>1, KeysDiffer DEF k
<1>4. /\ emitted' \in Seq(Call) /\ Len(emitted') = k
      /\ \A j \in 1 .. k : emitted'[j] = IF j = k THEN [name |-> k, sent |-> 0] ELSE emitted[j]
  <2>1. [name |-> k, sent |-> 0] \in Call
    BY <1>1, BoundsAssumption DEF Call
  <2> QED
    BY <1>1, <1>2, <2>1, AppendProperties DEF StreamInv, Typed, Started, k
<1>5. /\ acc'.calls \in Seq(Partial) /\ Len(acc'.calls) = k
      /\ \A j \in 1 .. k : acc'.calls[j] = IF j = k THEN Opening(Key(k), k) ELSE acc.calls[j]
  <2>1. Opening(Key(k), k) \in Partial
    BY <1>1, <1>3, EmptySeq DEF Opening, Partial
  <2>2. acc'.calls = Append(acc.calls, Opening(Key(k), k)) /\ acc.calls \in Seq(Partial)
    BY <1>2 DEF StreamInv, Typed, Acc
  <2>3. Len(acc.calls) = Started
    BY DEF StreamInv, CallsAreHeld
  <2> QED
    BY <1>1, <2>1, <2>2, <2>3, AppendProperties DEF k
<1>6. /\ itemIds' \in Seq(({NoId} \cup ({"item"} \X Nat)) \X Ids) /\ Len(itemIds') = k
      /\ \A j \in 1 .. k : itemIds'[j] = IF j = k THEN <<ItemOf(k), IdOf(k)>> ELSE itemIds[j]
  <2>1. <<ItemOf(k), IdOf(k)>> \in ({NoId} \cup ({"item"} \X Nat)) \X Ids
    BY <1>1 DEF ItemOf, IdOf, Ids
  <2> QED
    BY <1>1, <1>2, <2>1, AppendProperties DEF StreamInv, Typed, TargetsAreKnown, Started, k
<1>7. Started' = k /\ \A j \in Nat : Key(j)' = Key(j) /\ ItemOf(j)' = ItemOf(j) /\ IdOf(j)' = IdOf(j)
  BY <1>2, <1>4 DEF Started, Key, ItemOf, IdOf
<1>8. Typed'
  <2>1. /\ acc' = [calls |-> acc'.calls, last |-> Key(k), text |-> acc.text,
                   orphans |-> IF vendor = "local" THEN k ELSE 0, reasoning |-> acc.reasoning]
        /\ acc.text \in Nat /\ acc.reasoning \in Nat
    BY <1>2 DEF StreamInv, Typed, Acc
  <2>2. acc' \in Acc
    BY <1>1, <1>3, <1>5, <2>1 DEF Acc
  <2> QED
    BY <1>2, <1>4, <1>6, <2>2 DEF StreamInv, Typed
<1>9. CallsAreHeld'
  <2> SUFFICES ASSUME NEW j \in 1 .. k
               PROVE  /\ emitted'[j].name = j
                      /\ acc'.calls[j].id = Key(j)
                      /\ acc'.calls[j].name = j
                      /\ acc'.calls[j].buffer = [i \in 1 .. emitted'[j].sent |-> <<j, i>>]
    BY <1>1, <1>5, <1>7 DEF CallsAreHeld
  <2>1. CASE j = k
    BY <1>4, <1>5, <2>1 DEF Opening
  <2>2. CASE j # k
    <3>1. j \in 1 .. Started
      BY <1>1, <2>2 DEF k
    <3> QED
      BY <1>4, <1>5, <2>2, <3>1 DEF StreamInv, CallsAreHeld
  <2> QED
    BY <2>1, <2>2
<1>10. TargetsAreKnown'
  <2>1. acc'.orphans = (IF vendor = "local" THEN k ELSE 0) /\ acc'.last = Key(k)
    BY <1>2 DEF StreamInv, Typed, Acc
  <2>2. vendor = "anthropic" => current' = Key(k)
    BY <1>2 DEF Track, IdOf, Key
  <2>3. \A j \in 1 .. k : itemIds'[j] = <<ItemOf(j), IdOf(j)>>
    BY <1>1, <1>6 DEF StreamInv, TargetsAreKnown, k
  <2> QED
    BY <1>1, <1>2, <1>6, <1>7, <2>1, <2>2, <2>3 DEF TargetsAreKnown
<1> QED
  BY <1>8, <1>9, <1>10 DEF StreamInv

\* Whatever the vendor names or leaves out, a fragment is led to its own call.
LEMMA TargetOfFragment ==
  ASSUME StreamInv, NEW k \in 1 .. Started, k = Started \/ vendor = "openai"
  PROVE  Target(Translated(k)) = Key(k)
<1>1. Started \in Nat /\ k \in Nat /\ Started > 0
  BY DEF StreamInv, Typed, Started
<1>2. Key(k) # NoId
  <2>1. k - 1 \in Nat /\ (k - 1) + 1 = k
    BY <1>1
  <2> QED
    BY <2>1, KeysDiffer
<1>3. CASE vendor = "anthropic"
  BY <1>1, <1>2, <1>3 DEF Translated, Target, StreamInv, TargetsAreKnown
<1>4. CASE vendor = "openai"
  <2>1. \A j \in 1 .. Started : ItemOf(j) = <<"item", j>> /\ IdOf(j) = Key(j)
    BY <1>4 DEF ItemOf, IdOf, Key
  <2>2. ItemOf(k) # NoId
    BY <2>1 DEF NoId
  <2>3. DOMAIN itemIds = 1 .. Started
    BY <1>1 DEF StreamInv, Typed, TargetsAreKnown
  <2>4. \A j \in 1 .. Started : itemIds[j][1] = ItemOf(k) => j = k
    BY <2>1 DEF StreamInv, TargetsAreKnown
  <2>5. itemIds[k][1] = ItemOf(k) /\ itemIds[k][2] = Key(k)
    BY <2>1 DEF StreamInv, TargetsAreKnown
  <2>6. {j \in DOMAIN itemIds : itemIds[j][1] = ItemOf(k)} = {k}
    BY <2>3, <2>4, <2>5
  <2>7. Translated(k) = itemIds[CHOOSE j \in {k} : TRUE][2]
    BY <1>4, <2>2, <2>6 DEF Translated
  <2> QED
    BY <1>2, <2>5, <2>7 DEF Target
<1>5. CASE vendor \notin {"anthropic", "openai"}
  <2>1. Translated(k) = NoId
    BY <1>5 DEF Translated, ItemOf
  <2> QED
    BY <1>1, <1>5, <2>1 DEF Target, StreamInv, TargetsAreKnown
<1> QED
  BY <1>3, <1>4, <1>5

\* A fragment is added to its call, behind those that came before it.
LEMMA FragmentStep ==
  ASSUME StreamInv, NEW k \in DOMAIN emitted, Fragment(k)
  PROVE  StreamInv'
<1>1. Started \in Nat /\ k \in 1 .. Started /\ emitted \in Seq(Call)
  BY DEF StreamInv, Typed, Started
<1>2. PICK s \in 0 .. Whole : s = emitted[k].sent
  <2>1. emitted[k] \in Call
    BY <1>1 DEF Started
  <2> QED
    BY <2>1 DEF Call
<1>3. s \in Nat /\ s + 1 \in 0 .. Whole
  BY <1>2, BoundsAssumption DEF Fragment
<1>4. Target(Translated(k)) = Key(k)
  BY <1>1, TargetOfFragment DEF Fragment, Started
<1>5. /\ UNCHANGED <<vendor, thought, items, current, itemIds>>
      /\ emitted' = [emitted EXCEPT ![k].sent = s + 1]
      /\ acc' = [acc EXCEPT !.calls =
                   [j \in 1 .. Started |->
                      IF j = k THEN [acc.calls[j] EXCEPT !.buffer = Append(@, <<k, s + 1>>)]
                               ELSE acc.calls[j]]]
  BY <1>1, <1>2, <1>4, HoldsDelta, ZenonT(60) DEF Fragment, StreamInv
<1>6. /\ emitted' \in Seq(Call) /\ Started' = Started
      /\ \A j \in 1 .. Started : /\ emitted'[j].name = emitted[j].name
                                 /\ emitted'[j].sent = IF j = k THEN s + 1 ELSE emitted[j].sent
  <2>1. emitted' = [emitted EXCEPT ![k] = [emitted[k] EXCEPT !.sent = s + 1]]
    BY <1>5
  <2>2. [emitted[k] EXCEPT !.sent = s + 1] \in Call
    <3>1. emitted[k] \in Call
      BY <1>1 DEF Started
    <3> QED
      BY <1>3, <3>1 DEF Call
  <2>3. /\ emitted' \in Seq(Call) /\ Len(emitted') = Len(emitted)
        /\ \A j \in 1 .. Started :
             emitted'[j] = IF j = k THEN [emitted[k] EXCEPT !.sent = s + 1] ELSE emitted[j]
    BY <1>1, <2>1, <2>2, ExceptSeq DEF Started
  <2>4. emitted[k] \in Call
    BY <1>1 DEF Started
  <2> QED
    BY <2>3, <2>4 DEF Started, Call
<1>7. acc.calls \in Seq(Partial) /\ Len(acc.calls) = Started
  BY DEF StreamInv, Typed, Acc, CallsAreHeld
<1>8. /\ Append(acc.calls[k].buffer, <<k, s + 1>>) \in Seq(Nat \X Nat)
      /\ Append(acc.calls[k].buffer, <<k, s + 1>>) = [i \in 1 .. s + 1 |-> <<k, i>>]
  <2> DEFINE b == acc.calls[k].buffer
  <2>1. b \in Seq(Nat \X Nat) /\ b = [i \in 1 .. s |-> <<k, i>>]
    <3>1. acc.calls[k] \in Partial
      BY <1>1, <1>7
    <3>2. b \in Seq(Nat \X Nat)
      BY <3>1 DEF Partial
    <3>3. b = [i \in 1 .. s |-> <<k, i>>]
      BY <1>1, <1>2 DEF StreamInv, CallsAreHeld
    <3> QED
      BY <3>2, <3>3
  <2>2. Len(b) = s
    BY <1>3, <2>1
  <2>3. <<k, s + 1>> \in Nat \X Nat
    BY <1>1, <1>3
  <2>4. /\ Append(b, <<k, s + 1>>) \in Seq(Nat \X Nat)
        /\ Len(Append(b, <<k, s + 1>>)) = s + 1
        /\ \A i \in 1 .. s + 1 : Append(b, <<k, s + 1>>)[i] = <<k, i>>
    BY <1>3, <2>1, <2>2, <2>3, AppendProperties
  <2> DEFINE c == Append(b, <<k, s + 1>>)
  <2>5. c = [i \in 1 .. s + 1 |-> c[i]]
    <3> HIDE DEF c
    <3> QED
      BY <2>4, LenProperties DEF c
  <2> QED
    BY <2>4, <2>5
<1>9. /\ acc'.calls \in Seq(Partial) /\ Len(acc'.calls) = Started
      /\ \A j \in 1 .. Started :
           acc'.calls[j] = IF j = k THEN [acc.calls[j] EXCEPT !.buffer = [i \in 1 .. s + 1 |-> <<k, i>>]]
                                    ELSE acc.calls[j]
  <2> DEFINE new(j) == IF j = k THEN [acc.calls[j] EXCEPT !.buffer = Append(@, <<k, s + 1>>)]
                                ELSE acc.calls[j]
  <2>1. acc'.calls = [j \in 1 .. Started |-> new(j)]
    BY <1>5 DEF StreamInv, Typed, Acc
  <2>2. \A j \in 1 .. Started : new(j) \in Partial
    <3> SUFFICES ASSUME NEW j \in 1 .. Started PROVE new(j) \in Partial
      OBVIOUS
    <3>1. acc.calls[j] \in Partial
      BY <1>7
    <3> QED
      BY <1>8, <3>1 DEF Partial
  <2>3. acc'.calls \in [1 .. Started -> Partial]
    BY <2>1, <2>2
  <2>4. acc'.calls \in Seq(Partial) /\ Len(acc'.calls) = Started
    BY <1>1, <2>3
  <2> QED
    BY <1>8, <2>1, <2>4
<1>10. Typed'
  <2>1. acc' \in Acc
    BY <1>5, <1>9 DEF StreamInv, Typed, Acc
  <2> QED
    BY <1>5, <1>6, <2>1 DEF StreamInv, Typed
<1>11. \A j \in 1 .. Started : Key(j)' = Key(j) /\ ItemOf(j)' = ItemOf(j) /\ IdOf(j)' = IdOf(j)
  BY <1>5 DEF Key, ItemOf, IdOf
<1>12. CallsAreHeld'
  <2> SUFFICES ASSUME NEW j \in 1 .. Started
               PROVE  /\ emitted'[j].name = j
                      /\ acc'.calls[j].id = Key(j)
                      /\ acc'.calls[j].name = j
                      /\ acc'.calls[j].buffer = [i \in 1 .. emitted'[j].sent |-> <<j, i>>]
    BY <1>6, <1>9, <1>11 DEF CallsAreHeld
  <2>1. acc.calls[j] \in Partial
    BY <1>7
  <2>2. CASE j = k
    <3>1. acc'.calls[k] = [acc.calls[k] EXCEPT !.buffer = [i \in 1 .. s + 1 |-> <<k, i>>]]
      BY <1>9, <2>2
    <3>2. acc.calls[k].id = Key(k) /\ acc.calls[k].name = k /\ emitted[k].name = k
      BY <2>2 DEF StreamInv, CallsAreHeld
    <3>3. acc.calls[k] \in Partial
      BY <2>1, <2>2
    <3>4. /\ acc'.calls[k].id = Key(k) /\ acc'.calls[k].name = k
          /\ acc'.calls[k].buffer = [i \in 1 .. s + 1 |-> <<k, i>>]
      BY <3>1, <3>2, <3>3 DEF Partial
    <3> QED
      BY <1>6, <2>2, <3>2, <3>4
  <2>3. CASE j # k
    BY <1>6, <1>9, <2>3 DEF StreamInv, CallsAreHeld
  <2> QED
    BY <2>2, <2>3
<1>13. TargetsAreKnown'
  <2>1. acc'.orphans = acc.orphans /\ acc'.last = acc.last
    BY <1>5 DEF StreamInv, Typed, Acc
  <2>2. Key(Started)' = Key(Started)
    BY <1>5, <1>6 DEF Key
  <2> QED
    BY <1>5, <1>6, <1>11, <2>1, <2>2 DEF StreamInv, TargetsAreKnown
<1> QED
  BY <1>10, <1>12, <1>13 DEF StreamInv

\* Text and thoughts leave the calls alone, and so do the steps of the request.
LEMMA AsideStep ==
  ASSUME StreamInv, UNCHANGED <<vendor, emitted, current, itemIds>>,
         NEW w \in Nat, NEW r \in Nat,
         acc' = [acc EXCEPT !.text = w, !.reasoning = r],
         thought' \in Seq(BOOLEAN), items' \in Seq([encrypted : BOOLEAN])
  PROVE  StreamInv'
<1>1. acc' \in Acc /\ acc'.calls = acc.calls /\ acc'.last = acc.last /\ acc'.orphans = acc.orphans
  BY DEF StreamInv, Typed, Acc
<1>2. Started' = Started /\ \A k : Key(k)' = Key(k) /\ ItemOf(k)' = ItemOf(k) /\ IdOf(k)' = IdOf(k)
  BY DEF Started, Key, ItemOf, IdOf
<1>3. Key(Started)' = Key(Started)
  BY DEF Started, Key
<1> QED
  BY <1>1, <1>2, <1>3 DEF StreamInv, Typed, CallsAreHeld, TargetsAreKnown

\* A thought that begins, and one that is sealed, has its item.
LEMMA ThoughtStep ==
  ASSUME StreamInv, ItemsAreKept, Think \/ \E k \in DOMAIN thought : Seal(k)
  PROVE  ItemsAreKept' /\ thought' \in Seq(BOOLEAN) /\ items' \in Seq([encrypted : BOOLEAN])
<1>1. thought \in Seq(BOOLEAN) /\ items \in Seq([encrypted : BOOLEAN])
  BY DEF StreamInv, Typed
<1>2. CASE Think
  <2>1. /\ thought' \in Seq(BOOLEAN) /\ Len(thought') = Len(thought) + 1
        /\ thought'[Len(thought) + 1] = FALSE
        /\ \A k \in 1 .. Len(thought) : thought'[k] = thought[k]
    BY <1>1, <1>2, AppendProperties DEF Think
  <2>2. CASE vendor = "openai"
    <3>1. [encrypted |-> FALSE] \in [encrypted : BOOLEAN]
      OBVIOUS
    <3>2. /\ items' \in Seq([encrypted : BOOLEAN]) /\ Len(items') = Len(items) + 1
          /\ \A k \in 1 .. Len(items) : items'[k] = items[k]
          /\ items'[Len(items) + 1] = [encrypted |-> FALSE]
      BY <1>1, <1>2, <2>2, <3>1, AppendProperties DEF Think
    <3>3. vendor' = vendor /\ Len(items) \in Nat /\ Len(items) = Len(thought)
      BY <1>1, <1>2, <2>2 DEF Think, ItemsAreKept
    <3>4. items'[Len(items) + 1].encrypted = FALSE
      BY <3>2
    <3> QED
      BY <2>1, <2>2, <3>2, <3>3, <3>4 DEF ItemsAreKept
  <2>3. CASE vendor # "openai"
    BY <1>1, <1>2, <2>1, <2>3 DEF Think, ItemsAreKept
  <2> QED
    BY <2>2, <2>3
<1>3. CASE \E k \in DOMAIN thought : Seal(k)
  <2>1. PICK k \in DOMAIN thought : Seal(k)
    BY <1>3
  <2>2. k \in 1 .. Len(thought)
    BY <1>1
  <2>3. /\ thought' \in Seq(BOOLEAN) /\ Len(thought') = Len(thought)
        /\ \A j \in 1 .. Len(thought) : thought'[j] = IF j = k THEN TRUE ELSE thought[j]
    <3>1. thought' = [thought EXCEPT ![k] = TRUE]
      BY <2>1 DEF Seal
    <3>2. TRUE \in BOOLEAN
      OBVIOUS
    <3>3. /\ [thought EXCEPT ![k] = TRUE] \in Seq(BOOLEAN)
          /\ Len([thought EXCEPT ![k] = TRUE]) = Len(thought)
          /\ \A j \in 1 .. Len(thought) :
               [thought EXCEPT ![k] = TRUE][j] = IF j = k THEN TRUE ELSE thought[j]
      <4> DEFINE B == BOOLEAN
                 yes == TRUE
      <4>1. thought \in Seq(B) /\ yes \in B
        BY <1>1, <3>2
      <4> HIDE DEF B, yes
      <4>2. /\ [thought EXCEPT ![k] = yes] \in Seq(B)
            /\ Len([thought EXCEPT ![k] = yes]) = Len(thought)
            /\ \A j \in 1 .. Len(thought) :
                 [thought EXCEPT ![k] = yes][j] = IF j = k THEN yes ELSE thought[j]
        BY <2>2, <4>1, ExceptSeq
      <4> QED
        BY <4>2, Zenon DEF B, yes
    <3> QED
      BY <3>1, <3>3, Zenon
  <2>4. CASE vendor = "openai"
    <3>1. k \in 1 .. Len(items) /\ Len(items) = Len(thought) /\ vendor' = vendor
      BY <2>1, <2>2, <2>4 DEF ItemsAreKept, Seal
    <3>2. /\ [items[k] EXCEPT !.encrypted = TRUE] \in [encrypted : BOOLEAN]
          /\ [items[k] EXCEPT !.encrypted = TRUE].encrypted = TRUE
      <4>1. items[k] \in [encrypted : BOOLEAN]
        BY <1>1, <3>1, ElementOfSeq
      <4>2. \A item \in [encrypted : BOOLEAN] :
              /\ [item EXCEPT !.encrypted = TRUE] \in [encrypted : BOOLEAN]
              /\ [item EXCEPT !.encrypted = TRUE].encrypted = TRUE
        OBVIOUS
      <4> QED
        BY <4>1, <4>2
    <3>3. items' = [items EXCEPT ![k] = [items[k] EXCEPT !.encrypted = TRUE]]
      BY <2>1, <2>4 DEF Seal, Kept
    <3>4. /\ items' \in Seq([encrypted : BOOLEAN]) /\ Len(items') = Len(items)
          /\ \A j \in 1 .. Len(items) :
               items'[j] = IF j = k THEN [items[k] EXCEPT !.encrypted = TRUE] ELSE items[j]
      BY <1>1, <3>1, <3>2, <3>3, ExceptSeq
    <3>5. items'[k].encrypted = TRUE
      BY <3>1, <3>2, <3>4
    <3> QED
      BY <2>3, <3>1, <3>4, <3>5 DEF ItemsAreKept
  <2>5. CASE vendor # "openai"
    BY <1>1, <2>1, <2>3, <2>5 DEF Seal, Kept, ItemsAreKept
  <2> QED
    BY <2>3, <2>4, <2>5
<1> QED
  BY <1>2, <1>3

\* Every step keeps what is held of the stream.
LEMMA StreamStep ==
  ASSUME StreamInv, ItemsAreKept, [Next]_vars
  PROVE  StreamInv' /\ ItemsAreKept'
<1>1. /\ thought \in Seq(BOOLEAN) /\ items \in Seq([encrypted : BOOLEAN])
      /\ acc \in Acc /\ acc.text \in Nat /\ acc.reasoning \in Nat
  BY DEF StreamInv, Typed, Acc
<1>2. acc = [acc EXCEPT !.text = acc.text, !.reasoning = acc.reasoning]
  BY <1>1 DEF Acc
<1>3. CASE UNCHANGED stream /\ UNCHANGED vendor
  <2>1. UNCHANGED <<vendor, emitted, current, itemIds, thought, items, acc>>
    BY <1>3 DEF stream
  <2>2. ItemsAreKept'
    BY <2>1 DEF ItemsAreKept
  <2> QED
    BY <1>1, <1>2, <2>1, <2>2, AsideStep
<1>4. CASE StartCall \/ \E k \in DOMAIN emitted : Fragment(k)
  <2>1. UNCHANGED <<vendor, thought, items>>
    BY <1>4 DEF StartCall, Fragment
  <2> QED
    BY <1>4, <2>1, StartStep, FragmentStep DEF ItemsAreKept
<1>5. CASE Text
  <2>1. /\ acc' = [acc EXCEPT !.text = acc.text + 1, !.reasoning = acc.reasoning]
        /\ UNCHANGED <<vendor, emitted, current, itemIds, thought, items>>
    BY <1>1, <1>5 DEF Text, Acc
  <2>2. ItemsAreKept'
    BY <2>1 DEF ItemsAreKept
  <2>3. acc.text + 1 \in Nat
    BY <1>1
  <2> QED
    BY <1>1, <2>1, <2>2, <2>3, AsideStep
<1>6. CASE Think \/ \E k \in DOMAIN thought : Seal(k)
  <2>1. UNCHANGED <<vendor, emitted, current, itemIds>>
    BY <1>6 DEF Think, Seal
  <2>2. acc' = acc \/ acc' = [acc EXCEPT !.reasoning = acc.reasoning + 1]
    BY <1>6 DEF Think, Seal
  <2>3. \E r \in Nat : acc' = [acc EXCEPT !.text = acc.text, !.reasoning = r]
    <3>1. acc.reasoning + 1 \in Nat
      BY <1>1
    <3> QED
      BY <1>1, <1>2, <2>2, <3>1 DEF Acc
  <2> QED
    BY <1>1, <1>6, <2>1, <2>3, ThoughtStep, AsideStep
<1> QED
  BY <1>3, <1>4, <1>5, <1>6 DEF Next, Opened, Fails, FailsRetryably, Wakes, Complete, BreakOff,
     Over, vars

\* Once the message is made it stays, and nothing it was made of changes.
LEMMA MessageStep ==
  ASSUME MessageIsMade, [Next]_vars
  PROVE  MessageIsMade'
<1>1. CASE Complete
  BY <1>1 DEF Complete, MessageIsMade, stream
<1>2. CASE Over \/ UNCHANGED vars
  <2>1. UNCHANGED <<pc, message, acc, items>>
    BY <1>2 DEF Over, vars, stream
  <2> QED
    BY <2>1 DEF MessageIsMade
<1>3. CASE \/ Opened \/ Fails \/ FailsRetryably \/ Wakes
           \/ StartCall \/ Text \/ Think \/ BreakOff
           \/ \E k \in DOMAIN emitted : Fragment(k)
           \/ \E k \in DOMAIN thought : Seal(k)
  <2>1. pc' # "done"
    BY <1>3 DEF Opened, Fails, FailsRetryably, Wakes, StartCall, Text, Think, BreakOff, Fragment,
       Seal, Raise
  <2> QED
    BY <2>1 DEF MessageIsMade
<1> QED
  BY <1>1, <1>2, <1>3 DEF Next

\* A turn begins with nothing sent and nothing held.
LEMMA TurnInit == Init => TurnInv
<1> SUFFICES ASSUME Init PROVE TurnInv
  OBVIOUS
<1>1. /\ emitted = <<>> /\ thought = <<>> /\ items = <<>> /\ itemIds = <<>>
      /\ acc.calls = <<>> /\ acc.orphans = 0 /\ acc.last = NoId
  BY DEF Init, Empty
<1>2. Started = 0 /\ Len(acc.calls) = 0 /\ Len(itemIds) = 0 /\ Len(items) = 0 /\ Len(thought) = 0
  BY <1>1, EmptySeq DEF Started
<1>3. acc \in Acc
  BY EmptySeq DEF Init, Empty, Acc, Ids
<1>4. Typed
  BY <1>1, <1>3, EmptySeq DEF Typed
<1>5. CallsAreHeld /\ TargetsAreKnown /\ ItemsAreKept
  BY <1>1, <1>2 DEF CallsAreHeld, TargetsAreKnown, ItemsAreKept
<1>6. TimeIsKept /\ MessageIsMade
  BY DEF Init, TimeIsKept, MessageIsMade
<1> QED
  BY <1>4, <1>5, <1>6 DEF TurnInv

\* However requests fail and fragments interleave, TurnInv holds.
THEOREM TurnInvariant == Spec => []TurnInv
<1>1. TurnInv /\ [Next]_vars => TurnInv'
  BY TimeStep, StreamStep, MessageStep DEF TurnInv, StreamInv
<1> QED
  BY <1>1, TurnInit, PTL DEF Spec

-----------------------------------------------------------------------------
(***************************************************************************)
(* What the project claims of a provider turn                              *)
(***************************************************************************)

\* However slow requests and servers are, no attempt begins later than the time
\* budget and one delay after the first.
THEOREM AttemptsAreInTime == Spec => []AttemptsInTime
<1>1. TurnInv => AttemptsInTime
  BY DEF TurnInv, TimeIsKept, AttemptsInTime, Slack
<1> QED
  BY <1>1, TurnInvariant, PTL

\* What the buffer of a call parses to tells whether all of it has been sent.
LEMMA ParsedIsWhole ==
  ASSUME NEW k \in Nat, NEW s \in 0 .. Whole
  PROVE  Parsed([i \in 1 .. s |-> <<k, i>>]) =
           CASE s = 0     -> "empty"
             [] s = Whole -> "parsed"
             [] OTHER     -> "malformed"
<1> DEFINE b == [i \in 1 .. s |-> <<k, i>>]
<1>1. Whole \in Nat \ {0} /\ s \in Nat
  BY BoundsAssumption
<1>2. DOMAIN b = 1 .. s /\ Len(b) = s /\ (s > 0 => b[1][1] = k)
  BY <1>1
<1>3. CASE s = 0
  <2>1. b = <<>>
    BY <1>3
  <2> HIDE DEF b
  <2> QED
    BY <1>1, <1>2, <1>3, <2>1 DEF Parsed, b
<1>4. CASE s = Whole
  <2>1. b = [i \in 1 .. Whole |-> <<b[1][1], i>>]
    <3>1. b[1][1] = k
      BY <1>1, <1>2, <1>4
    <3>2. [i \in 1 .. Whole |-> <<b[1][1], i>>] = [i \in 1 .. Whole |-> <<k, i>>]
      BY <3>1
    <3> QED
      BY <1>4, <3>2
  <2>2. b # <<>> /\ Len(b) > 0
    BY <1>1, <1>2, <1>4
  <2> HIDE DEF b
  <2> QED
    BY <1>1, <1>4, <2>1, <2>2 DEF Parsed, b
<1>5. CASE s # 0 /\ s # Whole
  <2>1. b # [i \in 1 .. Whole |-> <<b[1][1], i>>]
    <3>1. Whole \notin 1 .. s /\ Whole \in 1 .. Whole
      BY <1>1, <1>5
    <3> QED
      BY <1>2, <3>1
  <2>2. b # <<>>
    BY <1>1, <1>2, <1>5
  <2> HIDE DEF b
  <2> QED
    BY <1>5, <2>1, <2>2 DEF Parsed, b
<1> QED
  BY <1>3, <1>4, <1>5

\* The response has the calls of the vendor, in order, each with its own
\* arguments, whichever way the fragments of any number of calls interleave and
\* whichever ids are missing; a call cut short is malformed, never run in part.
THEOREM ResponseIsFaithful == Spec => []CallsAreAsEmitted
<1>1. TurnInv => CallsAreAsEmitted
  <2> SUFFICES ASSUME TurnInv, pc = "done" PROVE CallsAreAsEmitted!2
    BY DEF CallsAreAsEmitted
  <2>1. Started \in Nat /\ DOMAIN emitted = 1 .. Started /\ DOMAIN acc.calls = 1 .. Started
    BY DEF TurnInv, Typed, Acc, CallsAreHeld, Started
  <2>2. message.calls = [k \in 1 .. Started |->
                           [id   |-> acc.calls[k].id,
                            name |-> acc.calls[k].name,
                            args |-> Parsed(acc.calls[k].buffer)]]
    BY <2>1 DEF TurnInv, MessageIsMade
  <2>3. Len(message.calls) = Len(emitted) /\ DOMAIN message.calls = 1 .. Started
    BY <2>1, <2>2 DEF Started
  <2>4. ASSUME NEW k \in 1 .. Started
        PROVE  /\ message.calls[k].name = emitted[k].name
               /\ message.calls[k].args = CASE emitted[k].sent = 0     -> "empty"
                                            [] emitted[k].sent = Whole -> "parsed"
                                            [] OTHER                   -> "malformed"
    <3>1. emitted[k] \in Call
      BY <2>1 DEF TurnInv, Typed, Started
    <3>2. emitted[k].sent \in 0 .. Whole /\ k \in Nat
      BY <2>1, <3>1 DEF Call
    <3>3. message.calls[k].args = Parsed([i \in 1 .. emitted[k].sent |-> <<k, i>>])
      BY <2>2 DEF TurnInv, CallsAreHeld
    <3>4. message.calls[k].name = emitted[k].name
      <4>1. message.calls[k].name = acc.calls[k].name
        BY <2>2
      <4>2. acc.calls[k].name = k /\ emitted[k].name = k
        BY DEF TurnInv, CallsAreHeld
      <4> QED
        BY <4>1, <4>2
    <3> QED
      BY <3>2, <3>3, <3>4, ParsedIsWhole
  <2>5. ASSUME NEW j \in 1 .. Started, NEW k \in 1 .. Started,
               message.calls[j].id = message.calls[k].id
        PROVE  j = k
    <3>1. Key(j) = Key(k)
      <4>1. message.calls[j].id = acc.calls[j].id /\ message.calls[k].id = acc.calls[k].id
        BY <2>2
      <4>2. acc.calls[j].id = Key(j) /\ acc.calls[k].id = Key(k)
        BY DEF TurnInv, CallsAreHeld
      <4> QED
        BY <2>5, <4>1, <4>2
    <3>2. j \in Nat /\ k \in Nat
      BY <2>1
    <3> QED
      BY <3>1, <3>2, KeysDiffer
  <2> QED
    BY <2>1, <2>3, <2>4, <2>5
<1> QED
  BY <1>1, TurnInvariant, PTL

\* A turn with calls goes back to OpenAI whole: every reasoning item, sealed just
\* if its seal came, and then every call under its id, for any number of items and
\* calls and whatever was shown of them.
THEOREM ReasoningIsKept == Spec => []ReasoningIsReplayed
<1>1. TurnInv => ReasoningIsReplayed
  <2> SUFFICES ASSUME TurnInv, pc = "done", vendor = "openai", emitted # <<>>
               PROVE  ReasoningIsReplayed!2
    BY DEF ReasoningIsReplayed
  <2>1. /\ message.sealed = items /\ message.reasoning = (acc.reasoning > 0 \/ items # <<>>)
        /\ message.calls = [k \in DOMAIN acc.calls |-> [id   |-> acc.calls[k].id,
                                                        name |-> acc.calls[k].name,
                                                        args |-> Parsed(acc.calls[k].buffer)]]
    <3> DEFINE shown == acc.reasoning > 0 \/ items # <<>>
               text  == IF acc.calls = <<>> THEN acc.text ELSE 0
               kind  == IF acc.calls = <<>> THEN "text" ELSE "calls"
               calls == [k \in DOMAIN acc.calls |-> [id   |-> acc.calls[k].id,
                                                     name |-> acc.calls[k].name,
                                                     args |-> Parsed(acc.calls[k].buffer)]]
    <3>1. message = [kind |-> kind, calls |-> calls, text |-> text, reasoning |-> shown,
                     sealed |-> items]
      BY Zenon DEF TurnInv, MessageIsMade
    <3> HIDE DEF shown, text, kind, calls
    <3>2. message.sealed = items /\ message.reasoning = shown /\ message.calls = calls
      BY <3>1
    <3> QED
      BY <3>2, Zenon DEF calls, shown
  <2>2. /\ Len(thought) \in Nat /\ DOMAIN thought = 1 .. Len(thought)
        /\ DOMAIN items = 1 .. Len(thought) /\ Len(items) = Len(thought)
        /\ \A k \in 1 .. Len(thought) : items[k].encrypted = thought[k]
    BY DEF TurnInv, Typed, ItemsAreKept
  <2>3. /\ Started \in Nat /\ Started # 0
        /\ DOMAIN acc.calls = 1 .. Started /\ DOMAIN emitted = 1 .. Started
        /\ \A k \in 1 .. Started : acc.calls[k].id = IdOf(k)
    <3>1. Started \in Nat /\ Started # 0 /\ DOMAIN emitted = 1 .. Started
      BY DEF TurnInv, Typed, Started
    <3>2. DOMAIN acc.calls = 1 .. Started
      BY DEF TurnInv, Typed, Acc, CallsAreHeld, Started
    <3>3. \A k \in 1 .. Started : acc.calls[k].id = IdOf(k)
      BY DEF TurnInv, CallsAreHeld, Key, IdOf
    <3> QED
      BY <3>1, <3>2, <3>3
  <2>4. ReasoningItems(message) =
          [k \in DOMAIN thought |-> [type |-> "reasoning", encrypted |-> thought[k]]]
    <3>1. CASE thought = <<>>
      <4>1. DOMAIN items = {} /\ DOMAIN thought = {} /\ items = <<>>
        BY <2>2, <3>1 DEF TurnInv, Typed
      <4> QED
        BY <2>1, <4>1 DEF ReasoningItems
    <3>2. CASE thought # <<>>
      <4>1. message.reasoning
        <5>1. items # <<>>
          BY <2>2, <3>2 DEF TurnInv, Typed
        <5> QED
          BY <2>1, <5>1, Zenon
      <4> QED
        BY <2>1, <2>2, <4>1 DEF ReasoningItems
    <3> QED
      BY <3>1, <3>2
  <2>5. FunctionCalls(message) =
          [k \in DOMAIN emitted |-> [type |-> "function_call", call_id |-> IdOf(k)]]
    BY <2>1, <2>3 DEF FunctionCalls
  <2>6. message.calls # <<>>
    <3>1. 1 \in DOMAIN message.calls
      BY <2>1, <2>3
    <3> QED
      BY <3>1
  <2>7. Replayed(message) = ReasoningItems(message) \o FunctionCalls(message)
    BY <2>6 DEF Replayed
  <2> QED
    BY <2>4, <2>5, <2>7
<1> QED
  BY <1>1, TurnInvariant, PTL
=============================================================================
