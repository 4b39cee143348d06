-------------------------- MODULE AgentLoop_proofs --------------------------
(***************************************************************************)
(* Proofs about AgentLoop, for every budget, every window of the compactor *)
(* and of the loop guard, and any number of runs over one transcript.      *)
(***************************************************************************)
EXTENDS AgentLoop, FiniteSetTheorems, WellFoundedInduction, SequenceTheorems, TLAPS

\* Every nonempty set of natural numbers has a least element.
LEMMA LeastNat ==
  ASSUME NEW T, T \subseteq Nat, T # {}
  PROVE  \E x \in T : \A y \in T : x <= y
<1>1. PICK x \in T : \A y \in T : ~(<<y, x>> \in OpToRel(<, Nat))
  BY WFMin, NatLessThanWellFounded
<1>2. \A y \in T : ~(y < x)
  BY <1>1 DEF OpToRel
<1> QED
  BY <1>2

\* Max of a finite set of natural numbers is an element no other exceeds: one
\* with the fewest above it.
LEMMA MaxOfFinite ==
  ASSUME NEW S, IsFiniteSet(S), S \subseteq Nat, S # {}
  PROVE  Max(S) \in S /\ \A x \in S : x <= Max(S)
<1> DEFINE Above(x) == {y \in S : y > x}
           Sizes == {Cardinality(Above(x)) : x \in S}
<1>1. \A x \in S : IsFiniteSet(Above(x)) /\ Cardinality(Above(x)) \in Nat
  BY FS_Subset, FS_CardinalityType
<1>2. Sizes # {} /\ Sizes \subseteq Nat
  BY <1>1
<1>3. PICK n \in Sizes : \A m \in Sizes : n <= m
  <2> HIDE DEF Sizes
  <2> QED
    BY <1>2, LeastNat
<1>4. PICK x \in S : Cardinality(Above(x)) = n
  OBVIOUS
<1>5. ASSUME NEW y \in S PROVE x >= y
  <2>1. SUFFICES ASSUME y > x PROVE FALSE
    OBVIOUS
  <2>2. Above(y) \in SUBSET Above(x) /\ y \in Above(x) /\ y \notin Above(y)
    <3>1. \A z \in S : z > y => z > x
      BY <2>1
    <3>2. ~(y > y)
      OBVIOUS
    <3> QED
      BY <2>1, <3>1, <3>2
  <2>3. Cardinality(Above(y)) <= Cardinality(Above(x))
        /\ Cardinality(Above(y)) # Cardinality(Above(x))
    <3> HIDE DEF Above
    <3> QED
      BY <1>1, <2>2, FS_Subset
  <2>4. n <= Cardinality(Above(y))
    BY <1>3
  <2> HIDE DEF Above, Sizes
  <2> QED
    BY <1>1, <1>4, <2>3, <2>4
<1>6. Max(S) \in S /\ \A y \in S : Max(S) >= y
  BY <1>5 DEF Max
<1> QED
  BY <1>6

\* Max of two integers.
LEMMA MaxOfTwo ==
  ASSUME NEW a \in Int, NEW b \in Int
  PROVE  Max({a, b}) = IF a >= b THEN a ELSE b
BY DEF Max

-----------------------------------------------------------------------------
(***************************************************************************)
(* The inductive invariant                                                 *)
(***************************************************************************)

\* A turn is one pass of the loop and one send; the grace turn is one more.
TurnsAreCounted ==
  /\ sends \in Nat /\ nudges <= iteration
  /\ pc \in {"turn", "send"} => sends = iteration
  /\ pc \in {"send", "respond", "gate", "dispatch"} => iteration < MaxIterations
  /\ pc \in {"respond", "gate", "dispatch"} => sends = iteration + 1
  /\ pc = "grace" => sends = MaxIterations
  /\ pc = "wrapup" => sends = MaxIterations + 1
  /\ pc \in {"grace", "wrapup"} => iteration = MaxIterations
  /\ sends <= iteration + 1 /\ sends <= MaxIterations + 1

\* A reason is set when the run returns, from what it had come to.
ReasonIsEarned ==
  /\ pc # "idle" => stop = "none" /\ runs > 0
  /\ pc = "gate" => transcript # <<>> /\ Last(transcript).kind \in {"text", "blank"}
  /\ stop = "completed" => Ready /\ Last(transcript).kind = "text"
  /\ stop = "empty_response" => Ready /\ Last(transcript).kind = "blank"
  /\ stop = "incomplete_plan" => ~Ready /\ nudges = MaxNudges /\ sends > MaxNudges
  /\ stop = "max_iterations" => sends = MaxIterations + 1

\* The tool that ran last is the key recorded last, and all its runs in a row
\* are still in the history.
RunsAreRecorded ==
  /\ bodies.count < MaxRepeat /\ bodies.count <= Len(callHistory)
  /\ \A k \in Len(callHistory) - bodies.count + 1 .. Len(callHistory) :
       callHistory[k] = bodies.key
  /\ (MaxRepeat > 1 /\ callHistory # <<>>) => bodies.count > 0

\* Every result is one of the results that follow its message of calls, in order.
ResultsFollow(t) ==
  \A m \in 1 .. Len(t) : t[m].kind = "result" =>
    \E c \in 1 .. m - 1 :
      /\ t[c].kind = "calls" /\ m - c <= Len(t[c].ids)
      /\ t[m].ids = <<t[c].ids[m - c]>>
      /\ \A k \in c + 1 .. m : t[k].kind = "result"

AnsweredIn(t, m) ==
  \A k \in 1 .. Len(t[m].ids) : m + k <= Len(t) /\ t[m + k] = ToolResult(t[m].ids[k])

\* While calls are dispatched the message at p has the results of the calls so
\* far behind it, and the other calls are in todo.
Dispatching(t, p) ==
  /\ t[p].kind = "calls" /\ Len(t) - p + Len(todo) = Len(t[p].ids)
  /\ \A k \in 1 .. Len(t) - p : t[p + k] = ToolResult(t[p].ids[k])
  /\ \A k \in 1 .. Len(todo) : todo[k].id = t[p].ids[Len(t) - p + k]

CallsAnswered(t, but) ==
  \A m \in 1 .. Len(t) : (t[m].kind = "calls" /\ m # but) => AnsweredIn(t, m)

\* The transcript of the caller begins with a message of the user; calls are
\* answered, except those of the message that is dispatched.
TranscriptIsValid ==
  /\ pc # "idle" => transcript # <<>>
  /\ transcript # <<>> => transcript[1].kind = "user"
  /\ ResultsFollow(transcript)
  /\ pc = "dispatch" =>
       \E p \in 1 .. Len(transcript) : /\ Dispatching(transcript, p)
                                       /\ ~broken => CallsAnswered(transcript, p)
  /\ (pc # "dispatch" /\ ~broken) => CallsAnswered(transcript, 0)

LoopInv == TypeOK /\ TurnsAreCounted /\ ReasonIsEarned /\ RunsAreRecorded /\ TranscriptIsValid

-----------------------------------------------------------------------------
(***************************************************************************)
(* The compactor and the repair                                            *)
(***************************************************************************)

\* A message of a sequence is a message.
LEMMA MessageOf ==
  ASSUME NEW t \in Seq(Message)
  PROVE  /\ Len(t) \in Nat /\ DOMAIN t = 1 .. Len(t)
         /\ \A m \in 1 .. Len(t) :
              t[m] \in Message /\ t[m].ids \in Seq(CallId) /\ Len(t[m].ids) \in Nat
<1>1. Len(t) \in Nat /\ DOMAIN t = 1 .. Len(t)
  OBVIOUS
<1>2. ASSUME NEW m \in 1 .. Len(t)
      PROVE  t[m] \in Message /\ t[m].ids \in Seq(CallId) /\ Len(t[m].ids) \in Nat
  <2>1. t[m] \in Message
    BY ElementOfSeq
  <2>2. t[m].ids \in Seq(CallId)
    BY <2>1 DEF Message
  <2> QED
    BY <2>1, <2>2, LenProperties
<1> QED
  BY <1>1, <1>2

\* The repair before a send finds nothing to drop when every result follows its
\* call.
LEMMA NothingDropped ==
  ASSUME NEW t \in Seq(Message), ResultsFollow(t)
  PROVE  DropOrphans(t) = t
<1>1. Len(t) \in Nat /\ DOMAIN t = 1 .. Len(t)
  BY MessageOf
<1>2. Orphans(t) = {}
  <2> SUFFICES ASSUME NEW m \in Results(t)
               PROVE  \E c \in DOMAIN t : t[c].kind = "calls" /\ t[m].ids[1] \in ToSet(t[c].ids)
    BY DEF Orphans
  <2>1. m \in 1 .. Len(t) /\ t[m].kind = "result"
    BY <1>1 DEF Results
  <2>2. PICK c \in 1 .. m - 1 : /\ t[c].kind = "calls" /\ m - c <= Len(t[c].ids)
                                /\ t[m].ids = <<t[c].ids[m - c]>>
    BY <2>1 DEF ResultsFollow
  <2>3. c \in 1 .. Len(t) /\ m - c \in 1 .. Len(t[c].ids)
    BY <1>1, <2>1, <2>2, MessageOf
  <2>4. m - c \in DOMAIN t[c].ids /\ t[m].ids[1] = t[c].ids[m - c]
    BY <2>2, <2>3, MessageOf
  <2>5. t[m].ids[1] \in ToSet(t[c].ids)
    BY <2>4 DEF ToSet
  <2> QED
    BY <1>1, <2>2, <2>3, <2>5
<1> DEFINE kept == DOMAIN t
           upTo(m) == {k \in kept : k <= m}
<1>3. kept = 1 .. Len(t) /\ Cardinality(kept) = Len(t)
  BY <1>1, FS_Interval
<1>4. \A m \in 1 .. Len(t) : Cardinality(upTo(m)) = m
  <2> SUFFICES ASSUME NEW m \in 1 .. Len(t) PROVE Cardinality(upTo(m)) = m
    OBVIOUS
  <2>1. upTo(m) = 1 .. m
    BY <1>1
  <2>2. Cardinality(1 .. m) = m
    BY <1>1, FS_Interval
  <2> QED
    BY <2>1, <2>2
<1>5. \A n \in 1 .. Len(t) : (CHOOSE m \in kept : Cardinality(upTo(m)) = n) = n
  BY <1>3, <1>4
<1>6. DropOrphans(t) = [n \in 1 .. Cardinality(kept) |->
                          t[CHOOSE m \in kept : Cardinality(upTo(m)) = n]]
  BY <1>2 DEF DropOrphans
<1>7. DropOrphans(t) = [n \in 1 .. Len(t) |-> t[n]]
  BY <1>3, <1>5, <1>6
<1> QED
  BY <1>1, <1>7

\* A summary keeps the first message and all from a cut that is not a result.
LEMMA SummaryShape ==
  ASSUME NEW t \in Seq(Message)
  PROVE  \/ Summarized(t) = t
         \/ \E c \in 3 .. Len(t) :
              /\ t[c].kind # "result"
              /\ Summarized(t) \in Seq(Message) /\ Len(Summarized(t)) = Len(t) - c + 3
              /\ Summarized(t)[1] = t[1] /\ Summarized(t)[2] = UserText
              /\ \A k \in 3 .. Len(t) - c + 3 : Summarized(t)[k] = t[k + c - 3]
<1> SUFFICES ASSUME Len(t) > KeepTurns + 1, Cut(t) # 2
             PROVE  \E c \in 3 .. Len(t) :
                      /\ t[c].kind # "result"
                      /\ Summarized(t) \in Seq(Message) /\ Len(Summarized(t)) = Len(t) - c + 3
                      /\ Summarized(t)[1] = t[1] /\ Summarized(t)[2] = UserText
                      /\ \A k \in 3 .. Len(t) - c + 3 : Summarized(t)[k] = t[k + c - 3]
  <2>1. Len(t) \in Nat /\ KeepTurns \in Nat
    BY BoundsAssumption, MessageOf
  <2>2. CASE ~(Len(t) > KeepTurns + 1) \/ Cut(t) = 2
    <3>1. Summarized(t) = t
      BY <2>1, <2>2 DEF Summarized
    <3> QED
      BY <3>1
  <2> QED
    BY <2>2
<1>1. Len(t) \in Nat /\ KeepTurns \in Nat \ {0}
  BY BoundsAssumption, MessageOf
<1> DEFINE C == {c \in 2 .. Len(t) - KeepTurns + 1 : c = 2 \/ t[c].kind # "result"}
<1>2. IsFiniteSet(C) /\ C \subseteq Nat /\ 2 \in C
  <2>1. IsFiniteSet(2 .. Len(t) - KeepTurns + 1)
    BY <1>1, FS_Interval
  <2> QED
    BY <1>1, <2>1, FS_Subset
<1>3. Cut(t) \in C
  BY <1>2, MaxOfFinite DEF Cut
<1>4. Cut(t) \in 3 .. Len(t) /\ t[Cut(t)].kind # "result"
  BY <1>1, <1>3
<1> DEFINE c    == Cut(t)
           head == <<t[1], UserText>>
           tail == SubSeq(t, c, Len(t))
<1> HIDE DEF c, C
<1>5. c \in 3 .. Len(t)
  BY <1>4 DEF c
<1>6. head \in Seq(Message) /\ Len(head) = 2 /\ head[1] = t[1] /\ head[2] = UserText
  <2>1. t[1] \in Message
    BY <1>1, MessageOf
  <2>2. UserText \in Message
    BY EmptySeq DEF UserText, Message
  <2> QED
    BY <2>1, <2>2
<1>7. /\ tail \in Seq(Message) /\ Len(tail) = Len(t) - c + 1
      /\ \A k \in 1 .. Len(t) - c + 1 : tail[k] = t[c + k - 1]
  <2>1. \A i \in c .. Len(t) : t[i] \in Message
    BY <1>1, <1>5, MessageOf
  <2>2. c \in Int /\ Len(t) \in Int /\ c <= Len(t)
    BY <1>1, <1>5
  <2> QED
    BY <2>1, <2>2, SubSeqProperties
<1>8. Summarized(t) = head \o tail
  <2>1. ~(Len(t) <= KeepTurns + 1 \/ Cut(t) = 2)
    BY <1>1
  <2>2. Summarized(t) = <<t[1], UserText>> \o SubSeq(t, Cut(t), Len(t))
    BY <2>1, Zenon DEF Summarized
  <2> QED
    BY <2>2 DEF c
<1> HIDE DEF head, tail
<1>9. /\ head \o tail \in Seq(Message) /\ Len(head \o tail) = 2 + (Len(t) - c + 1)
      /\ \A k \in 1 .. 2 + (Len(t) - c + 1) :
           (head \o tail)[k] = IF k <= 2 THEN head[k] ELSE tail[k - 2]
  <2>1. /\ head \o tail \in Seq(Message) /\ Len(head \o tail) = Len(head) + Len(tail)
        /\ \A k \in 1 .. Len(head) + Len(tail) :
             (head \o tail)[k] = IF k <= Len(head) THEN head[k] ELSE tail[k - Len(head)]
    BY <1>6, <1>7, ConcatProperties
  <2> QED
    BY <1>6, <1>7, <2>1
<1>10. 2 + (Len(t) - c + 1) = Len(t) - c + 3 /\ Len(t) - c + 3 >= 3
  BY <1>1, <1>5
<1>11. \A k \in 3 .. Len(t) - c + 3 : (head \o tail)[k] = t[k + c - 3]
  <2> SUFFICES ASSUME NEW k \in 3 .. Len(t) - c + 3 PROVE (head \o tail)[k] = t[k + c - 3]
    OBVIOUS
  <2>1. /\ k \in 1 .. 2 + (Len(t) - c + 1) /\ ~(k <= 2)
        /\ k - 2 \in 1 .. Len(t) - c + 1 /\ c + (k - 2) - 1 = k + c - 3
    BY <1>1, <1>5
  <2> QED
    BY <1>7, <1>9, <2>1
<1>12. (head \o tail)[1] = t[1] /\ (head \o tail)[2] = UserText
  BY <1>6, <1>9, <1>10
<1> QED
  BY <1>4, <1>5, <1>8, <1>9, <1>10, <1>11, <1>12 DEF c

\* A summary separates no result from its call and no call from its results.
LEMMA SummaryKeepsPairs ==
  ASSUME NEW t \in Seq(Message), t # <<>>, t[1].kind = "user", ResultsFollow(t)
  PROVE  /\ Summarized(t) \in Seq(Message) /\ Summarized(t) # <<>>
         /\ Summarized(t)[1].kind = "user"
         /\ ResultsFollow(Summarized(t))
         /\ CallsAnswered(t, 0) => CallsAnswered(Summarized(t), 0)
<1> DEFINE s == Summarized(t)
<1> HIDE DEF s
<1>1. CASE s = t
  BY <1>1 DEF s
<1>2. ASSUME NEW c \in 3 .. Len(t), t[c].kind # "result",
             s \in Seq(Message), Len(s) = Len(t) - c + 3, s[1] = t[1], s[2] = UserText,
             \A k \in 3 .. Len(t) - c + 3 : s[k] = t[k + c - 3]
      PROVE  /\ s \in Seq(Message) /\ s # <<>> /\ s[1].kind = "user"
             /\ ResultsFollow(s)
             /\ CallsAnswered(t, 0) => CallsAnswered(s, 0)
  <2>1. Len(t) \in Nat /\ c \in Nat /\ c >= 3 /\ c <= Len(t) /\ Len(s) \in Nat /\ Len(s) >= 3
    BY <1>2, MessageOf
  <2>2. \A k \in 1 .. Len(s) : k = 1 \/ k = 2 \/ k \in 3 .. Len(t) - c + 3
    BY <1>2, <2>1
  <2>3. s[1].kind = "user" /\ s[2].kind = "user" /\ s # <<>>
    BY <1>2, <2>1 DEF UserText
  <2>4. ASSUME NEW m \in 1 .. Len(s), s[m].kind = "result"
        PROVE  \E d \in 1 .. m - 1 : /\ s[d].kind = "calls" /\ m - d <= Len(s[d].ids)
                                     /\ s[m].ids = <<s[d].ids[m - d]>>
                                     /\ \A k \in d + 1 .. m : s[k].kind = "result"
    <3>1. m \in 3 .. Len(t) - c + 3
      BY <2>2, <2>3, <2>4
    <3>2. s[m] = t[m + c - 3] /\ m + c - 3 \in 1 .. Len(t)
      <4>1. m + c - 3 \in 1 .. Len(t)
        BY <2>1, <3>1
      <4>2. s[m] = t[m + c - 3]
        BY <1>2, <3>1
      <4> QED
        BY <4>1, <4>2
    <3>3. PICK e \in 1 .. m + c - 4 : /\ t[e].kind = "calls" /\ m + c - 3 - e <= Len(t[e].ids)
                                      /\ t[m + c - 3].ids = <<t[e].ids[m + c - 3 - e]>>
                                      /\ \A k \in e + 1 .. m + c - 3 : t[k].kind = "result"
      <4>1. t[m + c - 3].kind = "result"
        BY <2>4, <3>2
      <4>2. (m + c - 3) - 1 = m + c - 4
        BY <2>1, <3>1
      <4>3. \A j \in 1 .. Len(t) : t[j].kind = "result" =>
              \E e \in 1 .. j - 1 : /\ t[e].kind = "calls" /\ j - e <= Len(t[e].ids)
                                    /\ t[j].ids = <<t[e].ids[j - e]>>
                                    /\ \A k \in e + 1 .. j : t[k].kind = "result"
        BY DEF ResultsFollow
      <4> DEFINE j == m + c - 3
      <4>4. j \in 1 .. Len(t) /\ t[j].kind = "result" /\ j - 1 = m + c - 4
        BY <3>2, <4>1, <4>2
      <4> HIDE DEF j
      <4>5. \E e \in 1 .. j - 1 : /\ t[e].kind = "calls" /\ j - e <= Len(t[e].ids)
                                  /\ t[j].ids = <<t[e].ids[j - e]>>
                                  /\ \A k \in e + 1 .. j : t[k].kind = "result"
        BY <4>3, <4>4
      <4> QED
        BY <4>4, <4>5 DEF j
    <3>4. e >= c
      <4>1. e < c => c \in e + 1 .. m + c - 3
        BY <2>1, <3>1
      <4> QED
        BY <1>2, <2>1, <3>3, <4>1
    <3> DEFINE d == e - c + 3
    <3>5. d \in 1 .. m - 1 /\ d \in 3 .. Len(t) - c + 3 /\ d + c - 3 = e /\ m - d = m + c - 3 - e
      BY <2>1, <3>1, <3>2, <3>4
    <3> HIDE DEF d
    <3>6. s[d] = t[e]
      BY <1>2, <3>5
    <3>7. \A k \in d + 1 .. m : s[k].kind = "result"
      <4> SUFFICES ASSUME NEW k \in d + 1 .. m PROVE s[k].kind = "result"
        OBVIOUS
      <4>1. k \in 3 .. Len(t) - c + 3 /\ k + c - 3 \in e + 1 .. m + c - 3
        BY <2>1, <3>1, <3>5
      <4> QED
        BY <1>2, <3>3, <4>1
    <3> QED
      BY <3>2, <3>3, <3>5, <3>6, <3>7
  <2>5. ASSUME CallsAnswered(t, 0), NEW m \in 1 .. Len(s), s[m].kind = "calls"
        PROVE  AnsweredIn(s, m)
    <3>1. m \in 3 .. Len(t) - c + 3
      BY <2>2, <2>3, <2>5
    <3>2. s[m] = t[m + c - 3] /\ m + c - 3 \in 1 .. Len(t) /\ m + c - 3 # 0
      <4>1. m + c - 3 \in 1 .. Len(t) /\ m + c - 3 # 0
        BY <2>1, <3>1
      <4>2. s[m] = t[m + c - 3]
        BY <1>2, <3>1
      <4> QED
        BY <4>1, <4>2
    <3>3. AnsweredIn(t, m + c - 3)
      BY <2>5, <3>2 DEF CallsAnswered
    <3> SUFFICES ASSUME NEW k \in 1 .. Len(s[m].ids)
                 PROVE  m + k <= Len(s) /\ s[m + k] = ToolResult(s[m].ids[k])
      BY DEF AnsweredIn
    <3>4. (m + c - 3) + k <= Len(t) /\ t[(m + c - 3) + k] = ToolResult(s[m].ids[k])
      BY <3>2, <3>3 DEF AnsweredIn
    <3>5. k \in Nat
      BY <3>2, MessageOf
    <3>6. m + k \in 3 .. Len(t) - c + 3 /\ (m + k) + c - 3 = (m + c - 3) + k
      BY <2>1, <3>1, <3>4, <3>5
    <3> QED
      BY <1>2, <2>1, <3>4, <3>6
  <2> QED
    BY <1>2, <2>3, <2>4, <2>5 DEF ResultsFollow, CallsAnswered
<1> QED
  BY <1>1, <1>2, SummaryShape DEF s

-----------------------------------------------------------------------------
(***************************************************************************)
(* Appending to the transcript                                             *)
(***************************************************************************)

\* What is behind a message stays where it is when another is appended.
LEMMA AppendShape ==
  ASSUME NEW t \in Seq(Message), NEW m \in Message
  PROVE  /\ Append(t, m) \in Seq(Message) /\ Len(Append(t, m)) = Len(t) + 1
         /\ Append(t, m) # <<>> /\ Append(t, m)[Len(t) + 1] = m
         /\ \A k \in 1 .. Len(t) : Append(t, m)[k] = t[k]
         /\ Last(Append(t, m)) = m
         /\ \A k \in 1 .. Len(t) + 1 : k \in 1 .. Len(t) \/ k = Len(t) + 1
<1>1. Len(t) \in Nat
  BY MessageOf
<1> QED
  BY <1>1, AppendProperties DEF Last

\* What was answered stays answered.
LEMMA AppendKeepsAnswers ==
  ASSUME NEW t \in Seq(Message), NEW m \in Message, NEW but, CallsAnswered(t, but)
  PROVE  \A k \in 1 .. Len(t) : (t[k].kind = "calls" /\ k # but) => AnsweredIn(Append(t, m), k)
<1> DEFINE u == Append(t, m)
<1> HIDE DEF u
<1>1. Len(t) \in Nat /\ Len(u) = Len(t) + 1 /\ \A k \in 1 .. Len(t) : u[k] = t[k]
  BY AppendShape, MessageOf DEF u
<1> SUFFICES ASSUME NEW k \in 1 .. Len(t), AnsweredIn(t, k), NEW i \in 1 .. Len(u[k].ids)
             PROVE  k + i <= Len(u) /\ u[k + i] = ToolResult(u[k].ids[i])
  BY DEF CallsAnswered, AnsweredIn, u
<1>2. i \in 1 .. Len(t[k].ids) /\ u[k] = t[k] /\ i \in Nat
  BY <1>1, MessageOf
<1>3. k + i <= Len(t) /\ t[k + i] = ToolResult(t[k].ids[i])
  BY <1>2 DEF AnsweredIn
<1>4. k + i \in 1 .. Len(t)
  BY <1>1, <1>2, <1>3
<1> QED
  BY <1>1, <1>2, <1>3, <1>4

\* Appending what is no result keeps the results behind their calls.
LEMMA AppendKeepsResults ==
  ASSUME NEW t \in Seq(Message), NEW m \in Message, ResultsFollow(t),
         m.kind = "result" =>
           \E c \in 1 .. Len(t) : /\ t[c].kind = "calls" /\ Len(t) + 1 - c <= Len(t[c].ids)
                                  /\ m.ids = <<t[c].ids[Len(t) + 1 - c]>>
                                  /\ \A k \in c + 1 .. Len(t) : t[k].kind = "result"
  PROVE  ResultsFollow(Append(t, m))
<1> DEFINE u == Append(t, m)
<1> HIDE DEF u
<1>1. /\ Len(t) \in Nat /\ Len(u) = Len(t) + 1 /\ u[Len(t) + 1] = m
      /\ \A k \in 1 .. Len(t) : u[k] = t[k]
  BY AppendShape, MessageOf DEF u
<1> SUFFICES ASSUME NEW n \in 1 .. Len(t) + 1, u[n].kind = "result"
             PROVE  \E c \in 1 .. n - 1 : /\ u[c].kind = "calls" /\ n - c <= Len(u[c].ids)
                                          /\ u[n].ids = <<u[c].ids[n - c]>>
                                          /\ \A k \in c + 1 .. n : u[k].kind = "result"
  BY <1>1 DEF ResultsFollow, u
<1>2. CASE n = Len(t) + 1
  <2>1. PICK c \in 1 .. Len(t) : /\ t[c].kind = "calls" /\ Len(t) + 1 - c <= Len(t[c].ids)
                                 /\ m.ids = <<t[c].ids[Len(t) + 1 - c]>>
                                 /\ \A k \in c + 1 .. Len(t) : t[k].kind = "result"
    BY <1>1, <1>2
  <2>2. c \in 1 .. n - 1 /\ u[c] = t[c] /\ u[n] = m /\ n - c = Len(t) + 1 - c
    BY <1>1, <1>2
  <2>3. \A k \in c + 1 .. n : u[k].kind = "result"
    <3> SUFFICES ASSUME NEW k \in c + 1 .. n PROVE u[k].kind = "result"
      OBVIOUS
    <3>1. k = n \/ (k \in 1 .. Len(t) /\ k \in c + 1 .. Len(t))
      BY <1>1, <1>2
    <3> QED
      BY <1>1, <2>1, <3>1
  <2> QED
    BY <2>1, <2>2, <2>3
<1>3. CASE n \in 1 .. Len(t)
  <2>1. PICK c \in 1 .. n - 1 : /\ t[c].kind = "calls" /\ n - c <= Len(t[c].ids)
                                /\ t[n].ids = <<t[c].ids[n - c]>>
                                /\ \A k \in c + 1 .. n : t[k].kind = "result"
    BY <1>1, <1>3 DEF ResultsFollow
  <2>2. c \in 1 .. Len(t) /\ \A k \in c + 1 .. n : k \in 1 .. Len(t)
    BY <1>1, <1>3
  <2> QED
    BY <1>1, <1>3, <2>1, <2>2
<1>4. n = Len(t) + 1 \/ n \in 1 .. Len(t)
  BY <1>1
<1> QED
  BY <1>2, <1>3, <1>4

\* What the loop appends is a message.
LEMMA MessagesOfTheLoop ==
  /\ UserText \in Message
  /\ \A blank \in BOOLEAN : Text(blank) \in Message
  /\ \A c \in CallId : ToolResult(c) \in Message
  /\ \A s \in Seq(CallId) : ToolCalls(s) \in Message
<1>1. <<>> \in Seq(CallId) /\ \A c \in CallId : <<c>> \in Seq(CallId)
  BY EmptySeq
<1> QED
  BY <1>1 DEF UserText, Text, ToolResult, ToolCalls, Message

\* The calls of a response, as the message and as what waits for dispatch.
LEMMA ResponseShape ==
  ASSUME TypeOK, pc = "respond", runs > 0, RespondCalls
  PROVE  \E s \in Seq(CallId) :
           /\ transcript' = Append(transcript, ToolCalls(s))
           /\ todo' \in Seq([id : CallId, key : Keys]) /\ Len(todo') = Len(s) /\ Len(s) > 0
           /\ \A k \in 1 .. Len(s) : todo'[k].id = s[k]
<1>0. PICK n \in 1 .. MaxCalls, given \in IdsGiven : \E keys \in [1 .. n -> Keys] :
        /\ transcript' = Append(transcript, ToolCalls([k \in 1 .. n |-> Id(given, k)]))
        /\ todo' = [k \in 1 .. n |-> [id |-> Id(given, k), key |-> keys[k]]]
  BY DEF RespondCalls, Append1
<1>1. PICK keys \in [1 .. n -> Keys] :
        /\ transcript' = Append(transcript, ToolCalls([k \in 1 .. n |-> Id(given, k)]))
        /\ todo' = [k \in 1 .. n |-> [id |-> Id(given, k), key |-> keys[k]]]
  BY <1>0
<1> DEFINE s == [k \in 1 .. n |-> Id(given, k)]
<1>2. \A k \in 1 .. n : Id(given, k) \in CallId
  BY BoundsAssumption DEF TypeOK, CallId, Id
<1>3. n \in Nat /\ n > 0
  BY BoundsAssumption
<1>4. s \in [1 .. n -> CallId] /\ s \in Seq(CallId)
  BY <1>2, <1>3
<1>5. Len(s) = n
  BY <1>3, <1>4, LenProperties
<1>6. todo' \in [1 .. n -> [id : CallId, key : Keys]]
  <2>1. \A k \in 1 .. n : [id |-> Id(given, k), key |-> keys[k]]
                            \in [id : CallId, key : Keys]
    BY <1>1, <1>2
  <2> QED
    BY <1>1, <2>1
<1>7. todo' \in Seq([id : CallId, key : Keys]) /\ Len(todo') = n
  <2> DEFINE Call == [id : CallId, key : Keys]
  <2>1. PICK d : d = todo' /\ d \in [1 .. n -> Call]
    BY <1>6
  <2> HIDE DEF Call
  <2>2. d \in Seq(Call)
    BY <1>3, <2>1
  <2>3. Len(d) = n
    BY <1>3, <2>1, <2>2, LenProperties
  <2> QED
    BY <2>1, <2>2, <2>3 DEF Call
<1>8. \A k \in 1 .. n : todo'[k].id = s[k]
  BY <1>1
<1>9. transcript' = Append(transcript, ToolCalls(s))
  BY <1>1
<1> HIDE DEF s
<1> QED
  BY <1>3, <1>4, <1>5, <1>7, <1>8, <1>9

\* The call that is answered is the first that waits.
LEMMA NextCall ==
  ASSUME TypeOK, Answer
  PROVE  /\ Len(todo) \in Nat \ {0} /\ todo[1].id \in CallId /\ todo[1].key \in Keys
         /\ todo' \in Seq([id : CallId, key : Keys]) /\ Len(todo') = Len(todo) - 1
         /\ \A k \in 1 .. Len(todo') : todo'[k] = todo[k + 1]
         /\ todo' # <<>> <=> Len(todo) # 1
         /\ transcript' = Append(transcript, ToolResult(todo[1].id))
         /\ ToolResult(todo[1].id) \in Message
<1>1. todo \in Seq([id : CallId, key : Keys]) /\ todo # <<>>
  BY DEF TypeOK, Answer
<1>2. Len(todo) \in Nat \ {0}
  BY <1>1, LenProperties, EmptySeq
<1>3. todo[1] \in [id : CallId, key : Keys]
  <2> DEFINE Call == [id : CallId, key : Keys]
  <2>1. todo \in Seq(Call) /\ 1 \in 1 .. Len(todo)
    BY <1>1, <1>2
  <2> HIDE DEF Call
  <2>2. todo[1] \in Call
    BY <2>1, ElementOfSeq
  <2> QED
    BY <2>2 DEF Call
<1>4. /\ todo' \in Seq([id : CallId, key : Keys]) /\ Len(todo') = Len(todo) - 1
      /\ \A k \in 1 .. Len(todo') : todo'[k] = todo[k + 1]
  BY <1>1, HeadTailProperties DEF Answer
<1>5. todo' # <<>> <=> Len(todo) # 1
  <2>1. todo' = <<>> <=> Len(todo') = 0
    BY <1>4, EmptySeq
  <2> QED
    BY <1>2, <1>4, <2>1
<1>6. transcript' = Append(transcript, ToolResult(todo[1].id))
  BY DEF Answer, Append1
<1>7. todo[1].id \in CallId /\ todo[1].key \in Keys
  BY <1>3
<1> QED
  BY <1>2, <1>4, <1>5, <1>6, <1>7, MessagesOfTheLoop

\* The history of the loop guard: the last keys, the new one at the end.
LEMMA HistoryWindow ==
  ASSUME NEW H \in Seq(Keys), NEW key \in Keys
  PROVE  /\ LastOnes(Append(H, key)) \in Seq(Keys) /\ Len(H) \in Nat
         /\ Len(LastOnes(Append(H, key))) = IF Len(H) + 1 <= MaxRepeat THEN Len(H) + 1 ELSE MaxRepeat
         /\ LastOnes(Append(H, key))[Len(LastOnes(Append(H, key)))] = key
         /\ \A k \in 1 .. Len(LastOnes(Append(H, key))) - 1 :
              LastOnes(Append(H, key))[k] = H[Len(H) + 1 - Len(LastOnes(Append(H, key))) + k]
<1> DEFINE a == Append(H, key)
           n == Len(H)
           first == Max({1, Len(a) - MaxRepeat + 1})
<1>1. /\ n \in Nat /\ a \in Seq(Keys) /\ Len(a) = n + 1
      /\ a[n + 1] = key /\ \A k \in 1 .. n : a[k] = H[k]
  BY AppendProperties, LenProperties
<1>2. MaxRepeat \in Nat /\ MaxRepeat > 0
  BY BoundsAssumption
<1> HIDE DEF a, n
<1>3. /\ first \in 1 .. n + 1
      /\ n + 1 - first + 1 = IF n + 1 <= MaxRepeat THEN n + 1 ELSE MaxRepeat
  <2>1. Len(a) - MaxRepeat + 1 \in Int
    BY <1>1, <1>2
  <2>2. first = IF 1 >= Len(a) - MaxRepeat + 1 THEN 1 ELSE Len(a) - MaxRepeat + 1
    BY <2>1, MaxOfTwo
  <2> HIDE DEF first
  <2> QED
    BY <1>1, <1>2, <2>2
<1> HIDE DEF first
<1>4. \A k \in first .. n + 1 : a[k] \in Keys
  <2>1. \A k \in first .. n + 1 : k \in 1 .. Len(a)
    BY <1>1, <1>3
  <2> QED
    BY <1>1, <2>1, ElementOfSeq
<1> DEFINE last == n + 1
           h == SubSeq(a, first, last)
<1>5. LastOnes(Append(H, key)) = h
  BY <1>1 DEF LastOnes, a, first
<1>6. last = n + 1 /\ first \in Int /\ last \in Int /\ first <= last
  BY <1>1, <1>3
<1> HIDE DEF last
<1>7. /\ h \in Seq(Keys) /\ Len(h) = n + 1 - first + 1
      /\ \A k \in 1 .. n + 1 - first + 1 : h[k] = a[first + k - 1]
  <2>1. /\ h \in Seq(Keys) /\ Len(h) = IF first <= last THEN last - first + 1 ELSE 0
        /\ \A k \in 1 .. last - first + 1 : h[k] = a[first + k - 1]
    BY <1>4, <1>6, SubSeqProperties
  <2> HIDE DEF h
  <2> QED
    BY <1>1, <1>6, <2>1
<1> HIDE DEF h
<1>8. h[Len(h)] = key
  <2>1. n + 1 - first + 1 \in 1 .. n + 1 - first + 1 /\ first + (n + 1 - first + 1) - 1 = n + 1
    BY <1>1, <1>3
  <2> QED
    BY <1>1, <1>7, <2>1
<1>9. \A k \in 1 .. Len(h) - 1 : h[k] = H[n + 1 - Len(h) + k]
  <2> SUFFICES ASSUME NEW k \in 1 .. Len(h) - 1 PROVE h[k] = H[n + 1 - Len(h) + k]
    OBVIOUS
  <2>1. /\ k \in 1 .. n + 1 - first + 1 /\ first + k - 1 \in 1 .. n
        /\ n + 1 - Len(h) + k = first + k - 1
    BY <1>1, <1>3, <1>7
  <2>2. h[k] = a[first + k - 1]
    BY <1>7, <2>1
  <2> QED
    BY <1>1, <2>1, <2>2
<1> QED
  BY <1>1, <1>3, <1>5, <1>7, <1>8, <1>9 DEF n

\* What is masked are calls of the transcript.
LEMMA MaskedAreCalls ==
  ASSUME NEW t \in Seq(Message), ResultsFollow(t)
  PROVE  Masked(t) \subseteq CallId
<1>1. Len(t) \in Nat /\ DOMAIN t = 1 .. Len(t)
  BY MessageOf
<1> SUFFICES ASSUME NEW m \in Results(t) PROVE t[m].ids[1] \in CallId
  BY DEF Masked
<1>2. m \in 1 .. Len(t) /\ t[m].kind = "result"
  BY <1>1 DEF Results
<1>3. PICK c \in 1 .. m - 1 : m - c <= Len(t[c].ids) /\ t[m].ids = <<t[c].ids[m - c]>>
  BY <1>2 DEF ResultsFollow
<1>4. c \in 1 .. Len(t) /\ m - c \in 1 .. Len(t[c].ids)
  BY <1>1, <1>2, <1>3, MessageOf
<1>5. t[c].ids[m - c] \in CallId
  BY <1>4, MessageOf, ElementOfSeq
<1> QED
  BY <1>3, <1>5

-----------------------------------------------------------------------------
(***************************************************************************)
(* Every step keeps the invariant, part by part                            *)
(***************************************************************************)

\* The types, given that of the transcript.
LEMMA TypeStep ==
  ASSUME LoopInv, Next, transcript' \in Seq(Message)
  PROVE  TypeOK'
<1> USE DEF LoopInv
<1>0. pc # "idle" => stop = "none"
  BY DEF ReasonIsEarned
<1>1. CASE Start
  <2>1. runs + 1 \in 0 .. MaxRuns /\ <<>> \in Seq(Keys) /\ Len(<<>>) <= MaxRepeat
    BY <1>1, BoundsAssumption, EmptySeq DEF Start, TypeOK
  <2>2. NoBody \in [key : Keys \cup {"none"}, count : Nat]
    BY DEF NoBody
  <2> QED
    BY <1>1, <2>1, <2>2, BoundsAssumption DEF Start, Goto, TypeOK, PC, Stop
<1>2. CASE Deadline
  BY <1>0, <1>2 DEF Deadline, Return, Goto, TypeOK, PC, Stop, context, calls, loop
<1>3. CASE BeginTurn
  BY <1>3 DEF BeginTurn, Goto, TypeOK, PC, Stop, context, calls, loop
<1>4. CASE BeginTurnCompacting
  <2>1. masked' \subseteq CallId
    BY <1>4, MaskedAreCalls DEF BeginTurnCompacting, TypeOK, TranscriptIsValid
  <2> QED
    BY <1>4, <2>1 DEF BeginTurnCompacting, Goto, TypeOK, PC, Stop, calls, loop
<1>5. CASE Send
  BY <1>5 DEF Send, Goto, TypeOK, PC, Stop, calls
<1>6. CASE RespondText
  BY <1>6 DEF RespondText, Goto, TypeOK, PC, Stop, calls, loop
<1>7. CASE Nudge
  <2>1. iteration + 1 \in 0 .. MaxIterations /\ nudges + 1 \in 0 .. MaxNudges
    BY <1>7, BoundsAssumption DEF Nudge, Goto, TypeOK, TurnsAreCounted
  <2> QED
    BY <1>7, <2>1 DEF Nudge, Goto, TypeOK, PC, Stop, calls
<1>8. CASE FailClosed
  BY <1>0, <1>8 DEF FailClosed, Return, Goto, TypeOK, PC, Stop, context, calls, loop
<1>9. CASE Accept
  BY <1>0, <1>9 DEF Accept, Return, Goto, TypeOK, PC, Stop, context, calls, loop
<1>10. CASE RespondCalls
  <2>1. pc = "respond" /\ runs > 0
    BY <1>10 DEF RespondCalls, Goto, ReasonIsEarned
  <2>2. PICK s \in Seq(CallId) : /\ todo' \in Seq([id : CallId, key : Keys])
                                 /\ Len(todo') = Len(s) /\ Len(s) > 0
    BY <1>10, <2>1, ResponseShape
  <2>3. todo' # <<>>
    BY <2>2, EmptySeq
  <2> QED
    BY <1>10, <2>2, <2>3 DEF RespondCalls, Goto, TypeOK, PC, Stop, loop
<1>11. ASSUME Answer PROVE /\ todo' \in Seq([id : CallId, key : Keys]) /\ pc' \in PC
                           /\ pc' = "dispatch" => todo' # <<>>
                           /\ todo' # <<>> => pc' = "dispatch"
                           /\ iteration' \in 0 .. MaxIterations
                           /\ UNCHANGED <<masked, nudges, sends, stop, runs, broken>>
  <2>1. pc = "dispatch" /\ iteration < MaxIterations
    BY <1>11 DEF Answer, TurnsAreCounted
  <2>2. todo' # <<>> <=> Len(todo) # 1
    BY <1>11, NextCall
  <2>3. todo' \in Seq([id : CallId, key : Keys])
    BY <1>11, NextCall
  <2>4. IF Len(todo) = 1 THEN pc' = "turn" /\ iteration' = iteration + 1
                         ELSE pc' = pc /\ iteration' = iteration
    BY <1>11 DEF Answer
  <2> QED
    BY <1>11, <2>1, <2>2, <2>3, <2>4, BoundsAssumption DEF Answer, TypeOK, PC
<1>12. CASE Refuse
  <2>1. Answer /\ UNCHANGED <<plan, callHistory, bodies>>
    BY <1>12 DEF Refuse
  <2> QED
    BY <1>11, <2>1 DEF TypeOK
<1>13. ASSUME Answer, Record PROVE callHistory' \in Seq(Keys) /\ Len(callHistory') <= MaxRepeat
  <2>1. callHistory \in Seq(Keys) /\ todo[1].key \in Keys
    BY <1>13, NextCall DEF TypeOK
  <2>2. callHistory' = LastOnes(Append(callHistory, todo[1].key))
    BY <1>13 DEF Record
  <2>3. /\ callHistory' \in Seq(Keys) /\ Len(callHistory) \in Nat
        /\ Len(callHistory') = IF Len(callHistory) + 1 <= MaxRepeat
                               THEN Len(callHistory) + 1 ELSE MaxRepeat
    BY <2>1, <2>2, HistoryWindow
  <2> QED
    BY <2>3, BoundsAssumption
<1>14. CASE BreakLoop
  <2>1. Answer /\ Record /\ UNCHANGED <<plan, bodies>>
    BY <1>14 DEF BreakLoop
  <2> QED
    BY <1>11, <1>13, <2>1 DEF TypeOK
<1>15. CASE Invoke
  <2>1. Answer /\ Record /\ todo[1].key \in Keys
    BY <1>15, NextCall DEF Invoke
  <2>2. bodies' \in [key : Keys \cup {"none"}, count : Nat]
    <3>1. bodies' = IF bodies.key = todo[1].key
                    THEN [bodies EXCEPT !.count = @ + 1]
                    ELSE [key |-> todo[1].key, count |-> 1]
      BY <1>15 DEF Invoke
    <3>2. bodies \in [key : Keys \cup {"none"}, count : Nat]
      BY DEF TypeOK
    <3> QED
      BY <2>1, <3>1, <3>2
  <2>3. plan' \in [active : BOOLEAN, open : SUBSET Items]
    <3>1. plan' \in {plan} \cup [active : {TRUE}, open : SUBSET Items]
      BY <1>15 DEF Invoke
    <3>2. [active : {TRUE}, open : SUBSET Items] \subseteq [active : BOOLEAN, open : SUBSET Items]
      BY Zenon
    <3> QED
      BY <3>1, <3>2 DEF TypeOK
  <2> QED
    BY <1>11, <1>13, <2>1, <2>2, <2>3 DEF TypeOK
<1>16. CASE Exhausted
  BY <1>16 DEF Exhausted, Goto, TypeOK, PC, Stop, calls, loop
<1>17. CASE SendGrace
  BY <1>17 DEF SendGrace, Goto, TypeOK, PC, Stop, calls
<1>18. CASE WrapUp
  BY <1>0, <1>18 DEF WrapUp, Return, Goto, TypeOK, PC, Stop, calls, loop
<1>19. CASE Interrupted
  BY <1>19 DEF Interrupted, Return, Goto, TypeOK, PC, Stop, calls, loop
<1>20. CASE DispatchInterrupted
  BY <1>20 DEF DispatchInterrupted, Return, Goto, TypeOK, PC, Stop, context, calls, loop
<1> QED
  BY <1>1, <1>2, <1>3, <1>4, <1>5, <1>6, <1>7, <1>8, <1>9, <1>10, <1>12, <1>14, <1>15,
     <1>16, <1>17, <1>18, <1>19, <1>20 DEF Next, Turn

\* The counts of turns, sends and nudges.
LEMMA TurnsStep ==
  ASSUME LoopInv, Next
  PROVE  TurnsAreCounted'
<1> USE BoundsAssumption DEF LoopInv, Goto, TurnsAreCounted
<1>0. iteration \in Nat /\ iteration <= MaxIterations /\ nudges \in Nat /\ sends \in Nat
      /\ MaxIterations \in Nat
  BY DEF TypeOK
<1>1. CASE Start
  BY <1>0, <1>1 DEF Start
<1>2. CASE Deadline
  BY <1>0, <1>2 DEF Deadline, Return, loop
<1>3. CASE BeginTurn
  BY <1>0, <1>3 DEF BeginTurn, loop
<1>4. CASE BeginTurnCompacting
  BY <1>0, <1>4 DEF BeginTurnCompacting, loop
<1>5. CASE Send
  BY <1>0, <1>5 DEF Send
<1>6. CASE RespondText
  BY <1>0, <1>6 DEF RespondText, loop
<1>7. CASE Nudge
  BY <1>0, <1>7 DEF Nudge
<1>8. CASE FailClosed
  BY <1>0, <1>8 DEF FailClosed, Return, loop
<1>9. CASE Accept
  BY <1>0, <1>9 DEF Accept, Return, loop
<1>10. CASE RespondCalls
  BY <1>0, <1>10 DEF RespondCalls, loop
<1>11. CASE Refuse \/ BreakLoop \/ Invoke
  <2>1. Answer
    BY <1>11 DEF Refuse, BreakLoop, Invoke
  <2> QED
    BY <1>0, <2>1 DEF Answer
<1>12. CASE Exhausted
  BY <1>0, <1>12 DEF Exhausted, loop
<1>13. CASE SendGrace
  BY <1>0, <1>13 DEF SendGrace
<1>14. CASE WrapUp
  BY <1>0, <1>14 DEF WrapUp, Return, loop
<1>15. CASE Interrupted
  BY <1>0, <1>15 DEF Interrupted, Return, loop
<1>16. CASE DispatchInterrupted
  BY <1>0, <1>16 DEF DispatchInterrupted, Return, loop
<1> QED
  BY <1>1, <1>2, <1>3, <1>4, <1>5, <1>6, <1>7, <1>8, <1>9, <1>10, <1>11, <1>12, <1>13,
     <1>14, <1>15, <1>16 DEF Next, Turn

\* The reason of the run that has ended.
LEMMA ReasonStep ==
  ASSUME LoopInv, Next
  PROVE  ReasonIsEarned'
<1> USE DEF LoopInv, Goto
<1>0. /\ pc # "idle" => stop = "none" /\ runs > 0
      /\ pc = "gate" => transcript # <<>> /\ Last(transcript).kind \in {"text", "blank"}
      /\ runs \in Nat
  BY DEF ReasonIsEarned, TypeOK
<1>1. CASE Start
  BY <1>0, <1>1 DEF Start, ReasonIsEarned
<1>2. CASE Deadline
  BY <1>0, <1>2 DEF Deadline, Return, ReasonIsEarned
<1>3. CASE BeginTurn \/ BeginTurnCompacting \/ Send \/ Exhausted \/ SendGrace \/ RespondCalls
  <2>1. pc # "idle" /\ pc' \notin {"idle", "gate"} /\ stop' = stop /\ runs' = runs
    BY <1>3 DEF BeginTurn, BeginTurnCompacting, Send, Exhausted, SendGrace, RespondCalls
  <2> QED
    BY <1>0, <2>1 DEF ReasonIsEarned
<1>4. CASE RespondText
  <2>1. pc = "respond" /\ pc' = "gate" /\ stop' = stop /\ runs' = runs
    BY <1>4 DEF RespondText
  <2>2. PICK blank \in BOOLEAN : transcript' = Append(transcript, Text(blank))
    BY <1>4 DEF RespondText, Append1
  <2>3. transcript' # <<>> /\ Last(transcript') = Text(blank)
    BY <2>2, AppendShape, MessagesOfTheLoop DEF TypeOK
  <2>4. Text(blank).kind \in {"text", "blank"}
    BY DEF Text
  <2> QED
    BY <1>0, <2>1, <2>3, <2>4 DEF ReasonIsEarned
<1>5. CASE Nudge
  BY <1>0, <1>5 DEF Nudge, ReasonIsEarned
<1>6. CASE FailClosed
  <2>1. /\ pc' = "idle" /\ stop' = "incomplete_plan" /\ ~Ready /\ Ready' = Ready
        /\ nudges' = nudges /\ sends' = sends /\ nudges >= MaxNudges /\ pc = "gate"
    BY <1>6 DEF FailClosed, Return, loop, Ready
  <2>2. nudges = MaxNudges /\ sends > MaxNudges
    BY <2>1, BoundsAssumption DEF TypeOK, TurnsAreCounted
  <2> QED
    BY <2>1, <2>2 DEF ReasonIsEarned
<1>7. CASE Accept
  <2>1. /\ pc = "gate" /\ pc' = "idle" /\ transcript' = transcript /\ Ready /\ Ready' = Ready
        /\ stop' = IF Last(transcript).kind = "blank" THEN "empty_response" ELSE "completed"
    BY <1>7 DEF Accept, Return, context, Ready
  <2> QED
    BY <1>0, <2>1 DEF ReasonIsEarned
<1>8. CASE Refuse \/ BreakLoop \/ Invoke
  <2>1. Answer
    BY <1>8 DEF Refuse, BreakLoop, Invoke
  <2>2. pc = "dispatch" /\ pc' \in {"turn", "dispatch"} /\ stop' = stop /\ runs' = runs
    BY <2>1 DEF Answer
  <2> QED
    BY <1>0, <2>2 DEF ReasonIsEarned
<1>9. CASE WrapUp
  <2>1. pc = "wrapup" /\ pc' = "idle" /\ stop' = "max_iterations" /\ sends' = sends
    BY <1>9 DEF WrapUp, Return, loop
  <2>2. sends = MaxIterations + 1
    BY <2>1 DEF TurnsAreCounted
  <2> QED
    BY <2>1, <2>2 DEF ReasonIsEarned
<1>10. CASE Interrupted
  BY <1>0, <1>10 DEF Interrupted, Return, ReasonIsEarned
<1>11. CASE DispatchInterrupted
  BY <1>0, <1>11 DEF DispatchInterrupted, Return, ReasonIsEarned
<1> QED
  BY <1>1, <1>2, <1>3, <1>4, <1>5, <1>6, <1>7, <1>8, <1>9, <1>10, <1>11 DEF Next, Turn

\* The loop guard's history covers the tool that ran last.
LEMMA RunsStep ==
  ASSUME LoopInv, Next
  PROVE  RunsAreRecorded'
<1> USE DEF LoopInv
<1>1. CASE Start
  <2>1. callHistory' = <<>> /\ bodies' = NoBody
    BY <1>1 DEF Start
  <2>2. MaxRepeat > 0 /\ Len(<<>>) = 0
    BY BoundsAssumption
  <2> QED
    BY <2>1, <2>2 DEF RunsAreRecorded, NoBody
<1>2. CASE UNCHANGED <<callHistory, bodies>>
  BY <1>2 DEF RunsAreRecorded
<1>3. CASE BreakLoop \/ Invoke
  <2> DEFINE H   == callHistory
             key == todo[1].key
             h   == LastOnes(Append(H, key))
             c   == bodies.count
  <2>1. Answer /\ callHistory' = h
    BY <1>3 DEF BreakLoop, Invoke, Record
  <2>2. H \in Seq(Keys) /\ key \in Keys /\ c \in Nat /\ MaxRepeat \in Nat /\ MaxRepeat > 0
    BY <2>1, NextCall, BoundsAssumption DEF TypeOK
  <2>3. /\ h \in Seq(Keys) /\ Len(H) \in Nat
        /\ Len(h) = IF Len(H) + 1 <= MaxRepeat THEN Len(H) + 1 ELSE MaxRepeat
        /\ h[Len(h)] = key
        /\ \A k \in 1 .. Len(h) - 1 : h[k] = H[Len(H) + 1 - Len(h) + k]
    BY <2>2, HistoryWindow
  <2>4. /\ c < MaxRepeat /\ c <= Len(H)
        /\ \A k \in Len(H) - c + 1 .. Len(H) : H[k] = bodies.key
        /\ (MaxRepeat > 1 /\ H # <<>>) => c > 0
    BY DEF RunsAreRecorded
  <2>5. DOMAIN h = 1 .. Len(h)
    BY <2>3
  <2>6. Looping <=> (Len(h) = MaxRepeat /\ \A k \in 1 .. Len(h) : h[k] = key)
    BY <2>5 DEF Looping
  <2>7. H = <<>> <=> Len(H) = 0
    BY <2>2, EmptySeq
  <2> HIDE DEF H, key, h, c
  <2>8. ASSUME c > 0, bodies.key = key
        PROVE  \A k \in Len(h) - c .. Len(h) : k \in 1 .. Len(h) => h[k] = key
    <3> SUFFICES ASSUME NEW k \in Len(h) - c .. Len(h), k \in 1 .. Len(h), k # Len(h)
                 PROVE  h[k] = key
      BY <2>3
    <3>1. k \in 1 .. Len(h) - 1 /\ Len(H) + 1 - Len(h) + k \in Len(H) - c + 1 .. Len(H)
      <4>1. Len(h) \in Nat
        BY <2>2, <2>3
      <4>2. k \in Int /\ k < Len(h) /\ k >= Len(h) - c /\ k >= 1
        BY <2>2, <4>1
      <4>3. PICK d \in Int : d = Len(h) - k
        BY <4>1, <4>2
      <4>4. d >= 1 /\ d <= c /\ Len(H) + 1 - Len(h) + k = Len(H) + 1 - d
        BY <2>2, <2>3, <4>1, <4>2, <4>3
      <4>5. k \in 1 .. Len(h) - 1
        BY <4>1, <4>2
      <4>6. Len(H) + 1 - d \in Len(H) - c + 1 .. Len(H)
        <5>1. PICK l \in Nat : l = Len(H)
          BY <2>3
        <5>2. l + 1 - d \in l - c + 1 .. l
          BY <2>2, <4>3, <4>4
        <5> QED
          BY <5>1, <5>2
      <4> QED
        BY <4>4, <4>5, <4>6
    <3>2. h[k] = H[Len(H) + 1 - Len(h) + k]
      BY <2>3, <3>1
    <3> QED
      BY <2>4, <2>8, <3>1, <3>2
  <2>9. CASE BreakLoop
    <3>1. bodies' = bodies /\ Looping
      BY <2>9 DEF BreakLoop
    <3>2. CASE c = 0
      <4>1. ~(MaxRepeat > 1)
        <5>1. MaxRepeat > 1 => Len(H) > 0
          BY <2>2, <2>3, <2>6, <3>1
        <5> QED
          BY <2>4, <2>7, <3>2, <5>1
      <4>2. Len(h) - 0 + 1 .. Len(h) = {} /\ 0 < MaxRepeat /\ 0 <= Len(h)
        BY <2>2, <2>3
      <4> QED
        BY <2>1, <3>1, <3>2, <4>1, <4>2 DEF RunsAreRecorded, c
    <3>3. CASE c > 0
      <4>1. bodies.key = key
        <5>1. Len(h) - 1 \in 1 .. Len(h) - 1 /\ Len(h) - 1 \in 1 .. Len(h)
          BY <2>2, <2>3, <2>4, <2>6, <3>1, <3>3
        <5>2. Len(H) + 1 - Len(h) + (Len(h) - 1) = Len(H)
          BY <2>3
        <5>3. h[Len(h) - 1] = H[Len(H)]
          BY <2>3, <5>1, <5>2
        <5>4. h[Len(h) - 1] = key
          BY <2>6, <3>1, <5>1
        <5>5. H[Len(H)] = bodies.key
          BY <2>2, <2>3, <2>4, <3>3
        <5> QED
          BY <5>3, <5>4, <5>5
      <4>2. \A k \in Len(h) - c + 1 .. Len(h) : h[k] = bodies.key
        <5>1. \A k \in Len(h) - c + 1 .. Len(h) : k \in 1 .. Len(h)
          BY <2>2, <2>3, <2>4, <2>6, <3>1
        <5> QED
          BY <2>6, <3>1, <4>1, <5>1
      <4>3. c < MaxRepeat /\ c <= Len(h)
        BY <2>2, <2>3, <2>4, <2>6, <3>1
      <4> QED
        BY <2>1, <3>1, <3>3, <4>2, <4>3 DEF RunsAreRecorded, c
    <3> QED
      BY <2>2, <3>2, <3>3
  <2>10. CASE Invoke
    <3>1. ~Looping /\ bodies' = IF bodies.key = key THEN [bodies EXCEPT !.count = @ + 1]
                                                    ELSE [key |-> key, count |-> 1]
      BY <2>10 DEF Invoke, key
    <3>2. CASE bodies.key = key /\ c > 0
      <4>1. bodies'.count = c + 1 /\ bodies'.key = key
        BY <3>1, <3>2 DEF TypeOK, c
      <4>2. c + 1 < MaxRepeat
        <5> SUFFICES ASSUME c + 1 = MaxRepeat PROVE FALSE
          BY <2>2, <2>4
        <5>1. Len(h) = MaxRepeat /\ Len(h) - c = 1
          BY <2>2, <2>3, <2>4
        <5>2. \A k \in 1 .. Len(h) : h[k] = key
          BY <2>8, <3>2, <5>1
        <5> QED
          BY <2>6, <3>1, <5>1, <5>2
      <4>3. c + 1 <= Len(h)
        BY <2>2, <2>3, <2>4, <4>2
      <4>4. \A k \in Len(h) - (c + 1) + 1 .. Len(h) : h[k] = key
        <5>1. \A k \in Len(h) - (c + 1) + 1 .. Len(h) : k \in 1 .. Len(h) /\ k \in Len(h) - c .. Len(h)
          BY <2>2, <2>3, <4>3
        <5> QED
          BY <2>8, <3>2, <5>1
      <4> QED
        BY <2>1, <2>2, <4>1, <4>2, <4>3, <4>4 DEF RunsAreRecorded
    <3>3. CASE ~(bodies.key = key /\ c > 0)
      <4>1. bodies'.count = 1 /\ bodies'.key = key
        BY <2>2, <3>1, <3>3 DEF TypeOK, c
      <4>2. 1 < MaxRepeat
        <5> SUFFICES ASSUME MaxRepeat = 1 PROVE FALSE
          BY <2>2
        <5>1. Len(h) = 1
          BY <2>3
        <5>2. \A k \in 1 .. Len(h) : h[k] = key
          BY <2>3, <5>1
        <5> QED
          BY <2>6, <3>1, <5>1, <5>2
      <4>3. 1 <= Len(h)
        BY <2>2, <2>3
      <4>4. \A k \in Len(h) - 1 + 1 .. Len(h) : h[k] = key
        BY <2>3, <4>3
      <4> QED
        BY <2>1, <4>1, <4>2, <4>3, <4>4 DEF RunsAreRecorded
    <3> QED
      BY <3>2, <3>3
  <2> QED
    BY <1>3, <2>9, <2>10
<1>4. Next => Start \/ BreakLoop \/ Invoke \/ UNCHANGED <<callHistory, bodies>>
  BY DEF Next, Turn, Deadline, BeginTurn, BeginTurnCompacting, Send, RespondText, Nudge,
         FailClosed, Accept, RespondCalls, Refuse, Exhausted, SendGrace, WrapUp, Interrupted,
         DispatchInterrupted, calls
<1> QED
  BY <1>1, <1>2, <1>3, <1>4

\* A step that leaves no call waiting, from what it makes of the transcript.
LEMMA ValidAfter ==
  ASSUME NEW u \in Seq(Message), transcript' = u, pc' # "dispatch",
         u # <<>>, u[1].kind = "user", ResultsFollow(u), ~broken' => CallsAnswered(u, 0)
  PROVE  transcript' \in Seq(Message) /\ TranscriptIsValid'
<1>1. ResultsFollow(transcript)'
  BY DEF ResultsFollow
<1>2. ~broken' => CallsAnswered(transcript, 0)'
  BY DEF CallsAnswered, AnsweredIn
<1> QED
  BY <1>1, <1>2 DEF TranscriptIsValid

\* Nothing is said to the model while the transcript is not its caller's and no
\* call waits.
LEMMA QuietStep ==
  ASSUME LoopInv, transcript' = transcript, broken' = broken,
         pc \notin {"idle", "dispatch"}, pc' # "dispatch"
  PROVE  transcript' \in Seq(Message) /\ TranscriptIsValid'
<1>1. PICK t \in Seq(Message) : t = transcript
  BY DEF LoopInv, TypeOK
<1>2. t # <<>> /\ t[1].kind = "user" /\ ResultsFollow(t) /\ (~broken => CallsAnswered(t, 0))
  BY <1>1 DEF LoopInv, TranscriptIsValid
<1> QED
  BY <1>1, <1>2, ValidAfter

\* A message that is neither calls nor a result is appended.
LEMMA TextStep ==
  ASSUME LoopInv, NEW m \in Message, transcript' = Append(transcript, m), broken' = broken,
         m.kind \notin {"calls", "result"}, transcript = <<>> => m.kind = "user",
         pc # "dispatch", pc' # "dispatch"
  PROVE  transcript' \in Seq(Message) /\ TranscriptIsValid'
<1>1. PICK t \in Seq(Message) : t = transcript
  BY DEF LoopInv, TypeOK
<1>2. /\ t # <<>> => t[1].kind = "user"
      /\ ResultsFollow(t) /\ (~broken => CallsAnswered(t, 0))
  BY <1>1 DEF LoopInv, TranscriptIsValid
<1>3. PICK u : u = Append(t, m)
  OBVIOUS
<1>4. /\ u \in Seq(Message) /\ Len(u) = Len(t) + 1 /\ u # <<>> /\ u[Len(t) + 1] = m
      /\ \A k \in 1 .. Len(t) : u[k] = t[k]
      /\ \A k \in 1 .. Len(t) + 1 : k \in 1 .. Len(t) \/ k = Len(t) + 1
  BY <1>3, AppendShape
<1>5. u[1].kind = "user"
  <2>1. CASE t = <<>>
    BY <1>1, <1>4, <2>1
  <2>2. CASE t # <<>>
    <3>1. 1 \in 1 .. Len(t)
      BY <2>2
    <3> QED
      BY <1>2, <1>4, <2>2, <3>1
  <2> QED
    BY <2>1, <2>2
<1>6. ResultsFollow(u)
  <2>1. ResultsFollow(t) /\ m.kind # "result"
    BY <1>2
  <2>2. ResultsFollow(Append(t, m))
    BY <2>1, AppendKeepsResults
  <2> QED
    BY <1>3, <2>2
<1>7. ~broken => CallsAnswered(u, 0)
  <2> SUFFICES ASSUME ~broken, NEW k \in 1 .. Len(u), u[k].kind = "calls"
               PROVE  AnsweredIn(u, k)
    BY DEF CallsAnswered
  <2>1. k \in 1 .. Len(t) /\ t[k].kind = "calls" /\ k # 0
    <3>1. k \in 1 .. Len(t)
      BY <1>4
    <3> QED
      BY <1>4, <3>1
  <2>2. \A l \in 1 .. Len(t) : (t[l].kind = "calls" /\ l # 0) => AnsweredIn(Append(t, m), l)
    BY <1>2, AppendKeepsAnswers
  <2> QED
    BY <1>3, <2>1, <2>2
<1>8. transcript' = u
  BY <1>1, <1>3
<1> QED
  BY <1>4, <1>5, <1>6, <1>7, <1>8, ValidAfter

\* The calls of a response are appended and wait.
LEMMA CallsStep ==
  ASSUME LoopInv, RespondCalls
  PROVE  transcript' \in Seq(Message) /\ TranscriptIsValid'
<1>1. PICK t \in Seq(Message) : t = transcript
  BY DEF LoopInv, TypeOK
<1>2. /\ pc = "respond" /\ pc' = "dispatch" /\ broken' = broken /\ runs > 0
      /\ t # <<>> /\ t[1].kind = "user"
      /\ ResultsFollow(t) /\ (~broken => CallsAnswered(t, 0))
  BY <1>1 DEF LoopInv, TranscriptIsValid, ReasonIsEarned, RespondCalls, Goto
<1>3. PICK s \in Seq(CallId) :
        /\ transcript' = Append(transcript, ToolCalls(s))
        /\ Len(todo') = Len(s) /\ Len(s) > 0 /\ \A k \in 1 .. Len(s) : todo'[k].id = s[k]
  BY <1>2, ResponseShape DEF LoopInv
<1>4. PICK m \in Message : m = ToolCalls(s)
  BY MessagesOfTheLoop
<1>5. m.kind = "calls" /\ m.ids = s
  BY <1>4 DEF ToolCalls
<1>6. PICK u : u = Append(t, m)
  OBVIOUS
<1>7. /\ u \in Seq(Message) /\ Len(u) = Len(t) + 1 /\ u # <<>> /\ u[Len(t) + 1] = m
      /\ \A k \in 1 .. Len(t) : u[k] = t[k]
      /\ \A k \in 1 .. Len(t) + 1 : k \in 1 .. Len(t) \/ k = Len(t) + 1
  BY <1>6, AppendShape
<1>8. Len(t) \in Nat /\ 1 \in 1 .. Len(t) /\ Len(s) \in Nat
  BY <1>2, LenProperties, EmptySeq
<1>9. u[1].kind = "user"
  BY <1>2, <1>7, <1>8
<1>10. ResultsFollow(u)
  <2>1. ResultsFollow(t) /\ m.kind # "result"
    BY <1>2, <1>5
  <2>2. ResultsFollow(Append(t, m))
    BY <2>1, AppendKeepsResults
  <2> QED
    BY <1>6, <2>2
<1>11. transcript' = u
  BY <1>1, <1>3, <1>4, <1>6
<1> DEFINE p == Len(t) + 1
<1>12. p \in 1 .. Len(u) /\ u[p].kind = "calls" /\ u[p].ids = s /\ Len(u) - p = 0
  BY <1>5, <1>7, <1>8
<1> HIDE DEF p
<1>13. Dispatching(u, p)'
  <2>1. Len(u) - p + Len(todo') = Len(s)
    <3>1. Len(u) - p = 0 /\ Len(todo') = Len(s)
      BY <1>3, <1>12
    <3> QED
      BY <1>8, <3>1
  <2>2. \A k \in 1 .. Len(todo') : todo'[k].id = s[Len(u) - p + k]
    <3>1. \A k \in 1 .. Len(s) : Len(u) - p + k = k
      BY <1>8, <1>12
    <3> QED
      BY <1>3, <3>1
  <2> QED
    BY <1>12, <2>1, <2>2 DEF Dispatching
<1>14. ~broken => CallsAnswered(u, p)
  <2> SUFFICES ASSUME ~broken, NEW k \in 1 .. Len(u), u[k].kind = "calls", k # p
               PROVE  AnsweredIn(u, k)
    BY DEF CallsAnswered
  <2>1. k \in 1 .. Len(t) /\ k # 0
    BY <1>7, <1>8 DEF p
  <2>2. t[k].kind = "calls"
    BY <1>7, <2>1
  <2>3. \A l \in 1 .. Len(t) : (t[l].kind = "calls" /\ l # 0) => AnsweredIn(Append(t, m), l)
    BY <1>2, AppendKeepsAnswers
  <2> QED
    BY <1>6, <2>1, <2>2, <2>3
<1>15. \E q \in 1 .. Len(transcript') : /\ Dispatching(transcript, q)'
                                        /\ ~broken' => CallsAnswered(transcript, q)'
  <2>1. Dispatching(transcript, p)' /\ (~broken' => CallsAnswered(transcript, p)')
    BY <1>2, <1>11, <1>13, <1>14 DEF Dispatching, CallsAnswered, AnsweredIn
  <2> QED
    BY <1>11, <1>12, <2>1
<1>16. ResultsFollow(transcript)'
  <2>1. ResultsFollow(transcript')
    BY <1>10, <1>11
  <2> QED
    BY <2>1 DEF ResultsFollow
<1> QED
  BY <1>2, <1>7, <1>9, <1>11, <1>15, <1>16 DEF TranscriptIsValid

\* The result of the next call is appended; the others wait.
LEMMA ResultStep ==
  ASSUME LoopInv, Answer
  PROVE  transcript' \in Seq(Message) /\ TranscriptIsValid'
<1>1. PICK t \in Seq(Message) : t = transcript
  BY DEF LoopInv, TypeOK
<1>2. pc = "dispatch" /\ broken' = broken /\ t # <<>> /\ t[1].kind = "user" /\ ResultsFollow(t)
  BY <1>1 DEF LoopInv, TranscriptIsValid, Answer
<1>3. PICK p \in 1 .. Len(t) : Dispatching(t, p) /\ (~broken => CallsAnswered(t, p))
  BY <1>1, <1>2 DEF LoopInv, TranscriptIsValid
<1>4. PICK m \in Message : m = ToolResult(todo[1].id)
  BY NextCall DEF LoopInv
<1>5. /\ Len(todo) \in Nat \ {0} /\ Len(todo') = Len(todo) - 1
      /\ \A k \in 1 .. Len(todo') : todo'[k] = todo[k + 1]
      /\ transcript' = Append(t, m)
  BY <1>1, <1>4, NextCall DEF LoopInv
<1>6. PICK u : u = Append(t, m)
  OBVIOUS
<1>7. /\ u \in Seq(Message) /\ Len(u) = Len(t) + 1 /\ u # <<>> /\ u[Len(t) + 1] = m
      /\ \A k \in 1 .. Len(t) : u[k] = t[k]
      /\ \A k \in 1 .. Len(t) + 1 : k \in 1 .. Len(t) \/ k = Len(t) + 1
  BY <1>6, AppendShape
<1>8. /\ Len(t) \in Nat /\ p \in Nat /\ p <= Len(t) /\ 1 \in 1 .. Len(t)
      /\ t[p].kind = "calls" /\ t[p].ids \in Seq(CallId)
      /\ Len(t[p].ids) \in Nat /\ Len(t) - p + Len(todo) = Len(t[p].ids)
      /\ \A k \in 1 .. Len(t) - p : t[p + k] = ToolResult(t[p].ids[k])
      /\ \A k \in 1 .. Len(todo) : todo[k].id = t[p].ids[Len(t) - p + k]
  BY <1>2, <1>3, MessageOf DEF Dispatching
<1>9. u[1].kind = "user" /\ u[p] = t[p]
  BY <1>2, <1>7, <1>8
<1>10. m = ToolResult(t[p].ids[Len(t) + 1 - p]) /\ Len(t) + 1 - p <= Len(t[p].ids)
  <2>1. 1 \in 1 .. Len(todo) /\ Len(t) - p + 1 = Len(t) + 1 - p
    BY <1>5, <1>8
  <2>2. todo[1].id = t[p].ids[Len(t) + 1 - p]
    BY <1>8, <2>1
  <2> QED
    BY <1>4, <1>5, <1>8, <2>2
<1>11. m.kind = "result" /\ m.ids = <<t[p].ids[Len(t) + 1 - p]>>
  BY <1>10 DEF ToolResult
<1>12. ResultsFollow(u)
  <2>1. \A k \in p + 1 .. Len(t) : t[k].kind = "result"
    <3> SUFFICES ASSUME NEW k \in p + 1 .. Len(t) PROVE t[k].kind = "result"
      OBVIOUS
    <3>1. k - p \in 1 .. Len(t) - p /\ p + (k - p) = k
      BY <1>8
    <3>2. t[k] = ToolResult(t[p].ids[k - p])
      BY <1>8, <3>1
    <3> QED
      BY <3>2 DEF ToolResult
  <2>2. \E c \in 1 .. Len(t) : /\ t[c].kind = "calls" /\ Len(t) + 1 - c <= Len(t[c].ids)
                               /\ m.ids = <<t[c].ids[Len(t) + 1 - c]>>
                               /\ \A k \in c + 1 .. Len(t) : t[k].kind = "result"
    BY <1>8, <1>10, <1>11, <2>1
  <2>3. ResultsFollow(Append(t, m))
    BY <1>2, <2>2, AppendKeepsResults
  <2> QED
    BY <1>6, <2>3
<1>13. ASSUME ~broken, NEW k \in 1 .. Len(u), u[k].kind = "calls", k # p
       PROVE  AnsweredIn(u, k)
  <2>1. k \in 1 .. Len(t)
    BY <1>7, <1>11, <1>13
  <2>2. t[k].kind = "calls"
    BY <1>7, <1>13, <2>1
  <2>3. \A l \in 1 .. Len(t) : (t[l].kind = "calls" /\ l # p) => AnsweredIn(Append(t, m), l)
    BY <1>3, <1>13, AppendKeepsAnswers
  <2> QED
    BY <1>6, <1>13, <2>1, <2>2, <2>3
<1>14. \A k \in 1 .. Len(u) - p : u[p + k] = ToolResult(u[p].ids[k])
  <2> SUFFICES ASSUME NEW k \in 1 .. Len(u) - p PROVE u[p + k] = ToolResult(t[p].ids[k])
    BY <1>9
  <2>1. CASE k = Len(t) + 1 - p
    <3>1. p + k = Len(t) + 1
      BY <1>8, <2>1
    <3> QED
      BY <1>7, <1>10, <2>1, <3>1
  <2>2. CASE k # Len(t) + 1 - p
    <3>1. k \in 1 .. Len(t) - p /\ p + k \in 1 .. Len(t)
      BY <1>7, <1>8, <2>2
    <3> QED
      BY <1>7, <1>8, <3>1
  <2> QED
    BY <2>1, <2>2
<1>15. CASE pc' # "dispatch"
  <2>1. Len(todo) = 1
    BY <1>2, <1>15 DEF Answer
  <2>2. AnsweredIn(u, p)
    <3>1. Len(t[p].ids) = Len(u) - p
      BY <1>7, <1>8, <2>1
    <3> SUFFICES ASSUME NEW k \in 1 .. Len(u) - p
                 PROVE  p + k <= Len(u) /\ u[p + k] = ToolResult(u[p].ids[k])
      BY <1>9, <3>1 DEF AnsweredIn
    <3>2. p + k <= Len(u)
      BY <1>7, <1>8
    <3> QED
      BY <1>14, <3>2
  <2>3. ~broken => CallsAnswered(u, 0)
    BY <1>13, <2>2 DEF CallsAnswered
  <2> QED
    BY <1>2, <1>5, <1>6, <1>7, <1>9, <1>12, <1>15, <2>3, ValidAfter
<1>16. CASE pc' = "dispatch"
  <2>1. Len(u) - p + Len(todo') = Len(u[p].ids)
    BY <1>5, <1>7, <1>8, <1>9
  <2>2. \A k \in 1 .. Len(todo') : todo'[k].id = u[p].ids[Len(u) - p + k]
    <3> SUFFICES ASSUME NEW k \in 1 .. Len(todo') PROVE todo'[k].id = t[p].ids[Len(u) - p + k]
      BY <1>9
    <3>1. k + 1 \in 1 .. Len(todo) /\ Len(t) - p + (k + 1) = Len(u) - p + k
      BY <1>5, <1>7, <1>8
    <3>2. todo[k + 1].id = t[p].ids[Len(u) - p + k]
      BY <1>8, <3>1
    <3> QED
      BY <1>5, <3>2
  <2>3. Dispatching(u, p)'
    BY <1>8, <1>9, <1>14, <2>1, <2>2 DEF Dispatching
  <2>4. ~broken => CallsAnswered(u, p)
    BY <1>13 DEF CallsAnswered
  <2>5. transcript' = u
    BY <1>5, <1>6
  <2>6. Dispatching(transcript, p)' /\ (~broken' => CallsAnswered(transcript, p)')
    BY <1>2, <2>3, <2>4, <2>5 DEF Dispatching, CallsAnswered, AnsweredIn
  <2>7. p \in 1 .. Len(transcript')
    BY <1>7, <1>8, <2>5
  <2>8. ResultsFollow(transcript)'
    <3>1. ResultsFollow(transcript')
      BY <1>12, <2>5
    <3> QED
      BY <3>1 DEF ResultsFollow
  <2> QED
    BY <1>7, <1>9, <1>16, <2>5, <2>6, <2>7, <2>8 DEF TranscriptIsValid
<1> QED
  BY <1>15, <1>16

\* The transcript stays valid.
LEMMA TranscriptStep ==
  ASSUME LoopInv, Next
  PROVE  transcript' \in Seq(Message) /\ TranscriptIsValid'
<1>1. /\ transcript \in Seq(Message) /\ ResultsFollow(transcript)
      /\ transcript # <<>> => transcript[1].kind = "user"
      /\ pc # "idle" => transcript # <<>>
      /\ (pc # "dispatch" /\ ~broken) => CallsAnswered(transcript, 0)
  BY DEF LoopInv, TypeOK, TranscriptIsValid
<1>2. DropOrphans(transcript) = transcript
  BY <1>1, NothingDropped
<1>3. CASE transcript' = transcript /\ broken' = broken /\ pc \notin {"idle", "dispatch"} /\ pc' # "dispatch"
  BY <1>3, QuietStep
<1>4. CASE /\ broken' = broken /\ pc # "dispatch" /\ pc' # "dispatch"
           /\ transcript' = Append(transcript, UserText)
  <2>1. UserText.kind = "user" /\ UserText \in Message
    BY MessagesOfTheLoop DEF UserText
  <2> QED
    BY <1>4, <2>1, TextStep
<1>5. CASE /\ broken' = broken /\ pc \notin {"idle", "dispatch"} /\ pc' # "dispatch"
           /\ \E blank \in BOOLEAN : transcript' = Append(transcript, Text(blank))
  <2>1. PICK blank \in BOOLEAN : transcript' = Append(transcript, Text(blank))
    BY <1>5
  <2>2. Text(blank).kind \notin {"calls", "result"} /\ Text(blank) \in Message
    BY MessagesOfTheLoop DEF Text
  <2> QED
    BY <1>1, <1>5, <2>1, <2>2, TextStep
<1>6. CASE RespondCalls
  BY <1>6, CallsStep
<1>7. CASE Refuse \/ BreakLoop \/ Invoke
  <2>1. Answer
    BY <1>7 DEF Refuse, BreakLoop, Invoke
  <2> QED
    BY <2>1, ResultStep
<1>8. CASE BeginTurnCompacting
  <2>1. /\ pc = "turn" /\ pc' = "send" /\ broken' = broken
        /\ transcript' \in {transcript, Summarized(transcript)}
    BY <1>8 DEF BeginTurnCompacting, Goto
  <2>2. CASE transcript' = transcript
    BY <1>3, <2>1, <2>2
  <2>3. CASE transcript' = Summarized(transcript)
    <3>1. PICK t \in Seq(Message) : t = transcript
      BY <1>1
    <3>2. t # <<>> /\ t[1].kind = "user" /\ ResultsFollow(t) /\ (~broken => CallsAnswered(t, 0))
      BY <1>1, <2>1, <3>1
    <3>3. PICK u : u = Summarized(t)
      OBVIOUS
    <3>4. u \in Seq(Message) /\ u # <<>> /\ u[1].kind = "user" /\ ResultsFollow(u)
          /\ (CallsAnswered(t, 0) => CallsAnswered(u, 0))
      BY <3>2, <3>3, SummaryKeepsPairs
    <3>5. transcript' = u /\ pc' # "dispatch"
      BY <2>1, <2>3, <3>1, <3>3
    <3> QED
      BY <2>1, <3>2, <3>4, <3>5, ValidAfter
  <2> QED
    BY <2>1, <2>2, <2>3
<1>9. CASE DispatchInterrupted
  <2>1. /\ pc = "dispatch" /\ pc' = "idle" /\ broken' = TRUE /\ transcript' = transcript
    BY <1>9 DEF DispatchInterrupted, Return, Goto, context
  <2>2. PICK t \in Seq(Message) : t = transcript
    BY <1>1
  <2> QED
    BY <1>1, <2>1, <2>2, ValidAfter
<1>10. CASE Deadline \/ BeginTurn \/ FailClosed \/ Accept
  BY <1>3, <1>10 DEF Deadline, BeginTurn, FailClosed, Accept, Return, Goto, context
<1>11. CASE Send \/ SendGrace
  BY <1>2, <1>3, <1>11 DEF Send, SendGrace, Goto
<1>12. CASE Start \/ Nudge \/ Exhausted
  BY <1>4, <1>12 DEF Start, Nudge, Exhausted, Goto, Append1
<1>13. CASE RespondText \/ WrapUp \/ Interrupted
  BY <1>3, <1>5, <1>13 DEF RespondText, WrapUp, Interrupted, Return, Goto, Append1
<1> QED
  BY <1>6, <1>7, <1>8, <1>9, <1>10, <1>11, <1>12, <1>13 DEF Next, Turn

-----------------------------------------------------------------------------
(***************************************************************************)
(* The theorems                                                            *)
(***************************************************************************)

\* A loop that no run has entered satisfies the invariant.
LEMMA LoopInit == Init => LoopInv
<1> SUFFICES ASSUME Init PROVE LoopInv
  OBVIOUS
<1>1. <<>> \in Seq(Message) /\ <<>> \in Seq(Keys) /\ <<>> \in Seq([id : CallId, key : Keys])
      /\ Len(<<>>) = 0
  BY EmptySeq
<1>2. plan \in [active : BOOLEAN, open : SUBSET Items]
  <2>1. NoPlan \in [active : BOOLEAN, open : SUBSET Items]
    BY Zenon DEF NoPlan
  <2>2. [active : {TRUE}, open : SUBSET Items] \subseteq [active : BOOLEAN, open : SUBSET Items]
    BY Zenon
  <2> QED
    BY <2>1, <2>2 DEF Init
<1>3. NoBody \in [key : Keys \cup {"none"}, count : Nat]
  BY DEF NoBody
<1>4. TypeOK
  <2>1. /\ transcript = <<>> /\ masked = {} /\ callHistory = <<>> /\ todo = <<>>
        /\ iteration = 0 /\ nudges = 0 /\ pc = "idle" /\ stop = "none" /\ runs = 0
        /\ sends = 0 /\ bodies = NoBody /\ broken = FALSE
    BY DEF Init
  <2>2. 0 \in 0 .. MaxIterations /\ 0 \in 0 .. MaxNudges /\ 0 \in 0 .. MaxRuns /\ 0 <= MaxRepeat
    BY BoundsAssumption
  <2> DEFINE Plans == [active : BOOLEAN, open : SUBSET Items]
  <2>3. plan \in Plans
    BY <1>2
  <2> HIDE DEF Plans
  <2>4. plan \in [active : BOOLEAN, open : SUBSET Items]
    BY <2>3, Zenon DEF Plans
  <2> QED
    BY <1>1, <1>3, <2>1, <2>2, <2>4 DEF TypeOK, PC, Stop
<1>5. TurnsAreCounted /\ ReasonIsEarned
  BY BoundsAssumption DEF Init, TurnsAreCounted, ReasonIsEarned
<1>6. RunsAreRecorded
  BY <1>1, BoundsAssumption DEF Init, RunsAreRecorded, NoBody
<1>7. TranscriptIsValid
  BY <1>1 DEF Init, TranscriptIsValid, ResultsFollow, CallsAnswered
<1> QED
  BY <1>4, <1>5, <1>6, <1>7 DEF LoopInv

\* The loop keeps its types, its counts, the reasons of its runs, the window of
\* its guard and the pairs of its transcript: the inductive invariant.
THEOREM LoopInvariant == Spec => []LoopInv
<1>1. ASSUME LoopInv, [Next]_vars PROVE LoopInv'
  <2>1. CASE Next
    <3>1. transcript' \in Seq(Message) /\ TranscriptIsValid'
      BY <1>1, <2>1, TranscriptStep
    <3>2. TypeOK'
      BY <1>1, <2>1, <3>1, TypeStep
    <3>3. TurnsAreCounted'
      BY <1>1, <2>1, TurnsStep
    <3>4. ReasonIsEarned'
      BY <1>1, <2>1, ReasonStep
    <3>5. RunsAreRecorded'
      BY <1>1, <2>1, RunsStep
    <3> QED
      BY <3>1, <3>2, <3>3, <3>4, <3>5 DEF LoopInv
  <2>2. CASE UNCHANGED vars
    <3>1. TypeOK' /\ TurnsAreCounted'
      BY <1>1, <2>2 DEF LoopInv, TypeOK, TurnsAreCounted, vars, context, calls, loop
    <3>2. ReasonIsEarned' /\ RunsAreRecorded'
      BY <1>1, <2>2 DEF LoopInv, ReasonIsEarned, RunsAreRecorded, Ready, vars, context, calls, loop
    <3>3. TranscriptIsValid'
      BY <1>1, <2>2 DEF LoopInv, TranscriptIsValid, ResultsFollow, CallsAnswered, AnsweredIn,
                        Dispatching, vars, context, calls, loop
    <3> QED
      BY <3>1, <3>2, <3>3 DEF LoopInv
  <2> QED
    BY <1>1, <2>1, <2>2
<1> QED
  BY <1>1, LoopInit, PTL DEF Spec

\* Every variable of the loop keeps its type; calls wait only in a dispatch or
\* after one was cut short.
THEOREM LoopTypes == Spec => []TypeOK
<1>1. LoopInv => TypeOK
  BY DEF LoopInv
<1> QED
  BY <1>1, LoopInvariant, PTL

\* The transcript that is sent is a valid stream of tool pairs, through any
\* masking, summary and interruption (masking.py, compactor.py).
THEOREM TranscriptsArePaired == Spec => []ToolPairs
<1>1. LoopInv => ToolPairs
  <2> SUFFICES ASSUME LoopInv, pc \in {"send", "grace"}
               PROVE  /\ \A m \in DOMAIN transcript : transcript[m].kind = "result" =>
                           \E c \in 1 .. m - 1 :
                             /\ transcript[c].kind = "calls"
                             /\ transcript[m].ids[1] \in ToSet(transcript[c].ids)
                      /\ ~broken => \A m \in DOMAIN transcript :
                                      transcript[m].kind = "calls" => Answered(m)
    BY DEF ToolPairs
  <2>1. PICK t \in Seq(Message) : t = transcript
    BY DEF LoopInv, TypeOK
  <2>2. ResultsFollow(t) /\ (~broken => CallsAnswered(t, 0))
    BY <2>1 DEF LoopInv, TranscriptIsValid
  <2>3. Len(t) \in Nat /\ DOMAIN t = 1 .. Len(t)
    BY MessageOf
  <2>4. ASSUME NEW m \in 1 .. Len(t), t[m].kind = "result"
        PROVE  \E c \in 1 .. m - 1 : t[c].kind = "calls" /\ t[m].ids[1] \in ToSet(t[c].ids)
    <3>1. PICK c \in 1 .. m - 1 : /\ t[c].kind = "calls" /\ m - c <= Len(t[c].ids)
                                  /\ t[m].ids = <<t[c].ids[m - c]>>
      BY <2>2, <2>4 DEF ResultsFollow
    <3>2. c \in 1 .. Len(t) /\ m - c \in 1 .. Len(t[c].ids)
      BY <2>3, <3>1, MessageOf
    <3>3. m - c \in DOMAIN t[c].ids /\ t[m].ids[1] = t[c].ids[m - c]
      BY <3>1, <3>2, MessageOf
    <3>4. t[m].ids[1] \in ToSet(t[c].ids)
      BY <3>3 DEF ToSet
    <3> QED
      BY <3>1, <3>4
  <2>5. ASSUME ~broken, NEW m \in 1 .. Len(t), t[m].kind = "calls"
        PROVE  Answered(m)
    <3>1. m # 0
      BY <2>3
    <3>2. AnsweredIn(t, m)
      BY <2>2, <2>5, <3>1 DEF CallsAnswered
    <3>3. DOMAIN t[m].ids = 1 .. Len(t[m].ids)
      BY MessageOf
    <3> QED
      BY <2>1, <3>2, <3>3 DEF Answered, AnsweredIn
  <2> QED
    BY <2>1, <2>3, <2>4, <2>5
<1> QED
  BY <1>1, LoopInvariant, PTL

\* A run reports the reason it earned, within its budget of turns and of nudges
\* (agent.py, _completion_gate and the loop bound).
THEOREM ReasonsAreEarned == Spec => []HonestStop
<1>1. LoopInv => HonestStop
  BY DEF LoopInv, TurnsAreCounted, ReasonIsEarned, HonestStop
<1> QED
  BY <1>1, LoopInvariant, PTL

\* No tool runs MaxRepeat times in a row with the same arguments
\* (tools/registry.py, _check_loop).
THEOREM RepeatsAreBroken == Spec => []LoopGuard
<1>1. LoopInv => LoopGuard
  BY DEF LoopInv, RunsAreRecorded, LoopGuard
<1> QED
  BY <1>1, LoopInvariant, PTL
=============================================================================
