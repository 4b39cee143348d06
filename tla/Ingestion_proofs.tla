-------------------------- MODULE Ingestion_proofs --------------------------
(***************************************************************************)
(* Proofs about Ingestion, for every set of requests, contents and keys.   *)
(* None of the properties is inductive: what a handler may answer rests on *)
(* where it is, and on what the two unique indexes let into the table.     *)
(***************************************************************************)
EXTENDS Ingestion, TLAPS

\* What a handler that is at each of its steps has done.
Progress ==
  \A r \in Requests :
    /\ pc[r] \in {"idle", "key", "content", "insert"} => r \notin jobs
    /\ pc[r] \in {"upload", "enqueue"} => r \in jobs
    /\ pc[r] = "enqueue" => r \in stored
    /\ pc[r] # "done" => answer[r] = NoAnswer /\ r \notin queue /\ status[r] = "queued"

\* A job in the queue has an object to work on and no final status.
QueueIsReady == \A j \in queue : j \in stored /\ status[j] = "queued"

\* The "active" index: of two rows for one content at least one has failed.
OneActive ==
  \A i, j \in jobs : (i # j /\ content[i] = content[j]) => {i, j} \cap Failed # {}

\* The index on the key: it names one row.
OneKey == \A i, j \in jobs : (key[i] # NoKey /\ key[i] = key[j]) => i = j

\* The rows a request found at its start are still there, and none of them has
\* its key once it searches by content.
StartIsPast ==
  \A r \in Requests :
    /\ atStart[r] \subseteq jobs
    /\ pc[r] \in {"content", "insert", "upload", "enqueue"} =>
         \A j \in atStart[r] : ~(key[r] # NoKey /\ key[j] = key[r])

IngestInv == /\ Progress /\ QueueIsReady /\ OneActive /\ OneKey /\ StartIsPast
             /\ AnswerIsMine /\ KeyReplay

-----------------------------------------------------------------------------
(***************************************************************************)
(* Types                                                                   *)
(***************************************************************************)

\* Every step keeps every variable in its type.
LEMMA TypeStep == TypeOK /\ Progress /\ [Next]_vars => TypeOK'
<1> SUFFICES ASSUME TypeOK, Progress, [Next]_vars PROVE TypeOK'
  OBVIOUS
<1> USE DEF TypeOK, inputs, world, Goto, Reply, PC
<1>1. ASSUME NEW r \in Requests, Start(r) PROVE TypeOK'
  BY <1>1 DEF Start
<1>2. ASSUME NEW r \in Requests, LookupKey(r) PROVE TypeOK'
  BY <1>2 DEF LookupKey, SameKey
<1>3. ASSUME NEW r \in Requests, LookupContent(r) PROVE TypeOK'
  <2>1. CASE \E j \in ActiveContent(r) : Reply(r, "content", 200, j)
    BY <1>3, <2>1 DEF LookupContent, ActiveContent
  <2>2. CASE Reply(r, "content", 500, NoJob)
    BY <1>3, <2>2 DEF LookupContent
  <2>3. CASE Goto(r, "content", "insert") /\ UNCHANGED answer
    BY <1>3, <2>3 DEF LookupContent
  <2> QED
    BY <1>3, <2>1, <2>2, <2>3 DEF LookupContent
<1>4. ASSUME NEW r \in Requests, Insert(r) PROVE TypeOK'
  <2>1. CASE SameKey(r) \cup ActiveContent(r) = {}
    BY <1>4, <2>1 DEF Insert
  <2>2. CASE SameKey(r) \cup ActiveContent(r) # {}
    <3>1. collided' \in [Requests -> BOOLEAN]
      <4>1. collided' = [collided EXCEPT ![r] = TRUE]
        BY <1>4, <2>2 DEF Insert
      <4>2. collided \in [Requests -> BOOLEAN]
        OBVIOUS
      <4> HIDE DEF TypeOK
      <4> QED
        BY <4>1, <4>2, Zenon
    <3> QED
      BY <1>4, <2>2, <3>1 DEF Insert
  <2> QED
    BY <2>1, <2>2
<1>5. ASSUME NEW r \in Requests, Upload(r) PROVE TypeOK'
  BY <1>5 DEF Upload, Progress
<1>6. ASSUME NEW r \in Requests, Enqueue(r) PROVE TypeOK'
  BY <1>6 DEF Enqueue, Progress
<1>7. ASSUME NEW r \in Requests, Breaks(r) PROVE TypeOK'
  BY <1>7 DEF Breaks
<1>8. ASSUME NEW j \in Requests, Settle(j) PROVE TypeOK'
  BY <1>8 DEF Settle, JobStatus
<1>9. CASE UNCHANGED vars
  BY <1>9 DEF vars
<1> QED
  BY <1>1, <1>2, <1>3, <1>4, <1>5, <1>6, <1>7, <1>8, <1>9 DEF Next, Submit

-----------------------------------------------------------------------------
(***************************************************************************)
(* The invariant                                                           *)
(***************************************************************************)

\* Every step keeps the indexes and the answers given from them.
LEMMA IngestStep == TypeOK /\ IngestInv /\ [Next]_vars => IngestInv'
<1> SUFFICES ASSUME TypeOK, IngestInv, [Next]_vars PROVE IngestInv'
  OBVIOUS
<1> USE DEF TypeOK, IngestInv, inputs, world, Goto, Reply
<1>1. ASSUME NEW r \in Requests, Start(r) PROVE IngestInv'
  <2>1. Progress' /\ QueueIsReady'
    BY <1>1 DEF Start, Progress, QueueIsReady, PC
  <2>2. OneActive' /\ OneKey'
    BY <1>1 DEF Start, OneActive, OneKey, SameKey, ActiveContent, Failed, Progress, QueueIsReady
  <2>3. StartIsPast'
    BY <1>1 DEF Start, StartIsPast, SameKey, Progress
  <2>4. AnswerIsMine' /\ KeyReplay'
    BY <1>1 DEF Start, AnswerIsMine, KeyReplay, Accepted, SameKey, ActiveContent, OneKey,
       StartIsPast, Progress, NoAnswer
  <2> QED
    BY <2>1, <2>2, <2>3, <2>4
<1>2. ASSUME NEW r \in Requests, LookupKey(r) PROVE IngestInv'
  <2>1. Progress' /\ QueueIsReady'
    BY <1>2 DEF LookupKey, Progress, QueueIsReady, PC
  <2>2. OneActive' /\ OneKey'
    BY <1>2 DEF LookupKey, OneActive, OneKey, SameKey, ActiveContent, Failed, Progress, QueueIsReady
  <2>3. StartIsPast'
    BY <1>2 DEF LookupKey, StartIsPast, SameKey, Progress
  <2>4. AnswerIsMine'
    BY <1>2 DEF LookupKey, AnswerIsMine, Accepted, SameKey, Progress
  <2>5. KeyReplay'
    BY <1>2 DEF LookupKey, KeyReplay, Accepted, SameKey, OneKey, StartIsPast, Progress, NoAnswer
  <2> QED
    BY <2>1, <2>2, <2>3, <2>4, <2>5
<1>3. ASSUME NEW r \in Requests, LookupContent(r) PROVE IngestInv'
  <2>1. Progress' /\ QueueIsReady'
    BY <1>3 DEF LookupContent, Progress, QueueIsReady, PC
  <2>2. OneActive' /\ OneKey'
    BY <1>3 DEF LookupContent, OneActive, OneKey, SameKey, ActiveContent, Failed, Progress, QueueIsReady
  <2>3. StartIsPast'
    BY <1>3 DEF LookupContent, StartIsPast, SameKey, Progress
  <2>4. AnswerIsMine'
    BY <1>3 DEF LookupContent, AnswerIsMine, Accepted, SameKey, ActiveContent
  <2>5. KeyReplay'
    BY <1>3 DEF LookupContent, KeyReplay, Accepted, SameKey, OneKey, StartIsPast, Progress, NoAnswer
  <2> QED
    BY <2>1, <2>2, <2>3, <2>4, <2>5
<1>4. ASSUME NEW r \in Requests, Insert(r) PROVE IngestInv'
  <2>1. Progress' /\ QueueIsReady'
    BY <1>4 DEF Insert, Progress, QueueIsReady, PC
  <2>2. OneActive' /\ OneKey'
    BY <1>4 DEF Insert, OneActive, OneKey, SameKey, ActiveContent, Failed, Progress, QueueIsReady
  <2>3. StartIsPast'
    BY <1>4 DEF Insert, StartIsPast, SameKey, Progress
  <2>4. AnswerIsMine' /\ KeyReplay'
    BY <1>4 DEF Insert, AnswerIsMine, KeyReplay, Accepted, SameKey, ActiveContent, OneKey,
       StartIsPast, Progress, NoAnswer
  <2> QED
    BY <2>1, <2>2, <2>3, <2>4
<1>5. ASSUME NEW r \in Requests, Upload(r) PROVE IngestInv'
  <2>1. Progress' /\ QueueIsReady'
    BY <1>5 DEF Upload, Progress, QueueIsReady, PC
  <2>2. OneActive' /\ OneKey'
    BY <1>5 DEF Upload, OneActive, OneKey, SameKey, ActiveContent, Failed, Progress, QueueIsReady
  <2>3. StartIsPast'
    BY <1>5 DEF Upload, StartIsPast, SameKey, Progress
  <2>4. AnswerIsMine' /\ KeyReplay'
    BY <1>5 DEF Upload, AnswerIsMine, KeyReplay, Accepted, SameKey, ActiveContent, OneKey,
       StartIsPast, Progress, NoAnswer
  <2> QED
    BY <2>1, <2>2, <2>3, <2>4
<1>6. ASSUME NEW r \in Requests, Enqueue(r) PROVE IngestInv'
  <2>1. Progress' /\ QueueIsReady'
    BY <1>6 DEF Enqueue, Progress, QueueIsReady, PC
  <2>2. OneActive' /\ OneKey'
    BY <1>6 DEF Enqueue, OneActive, OneKey, SameKey, ActiveContent, Failed, Progress, QueueIsReady
  <2>3. StartIsPast'
    BY <1>6 DEF Enqueue, StartIsPast, SameKey, Progress
  <2>4. AnswerIsMine' /\ KeyReplay'
    BY <1>6 DEF Enqueue, AnswerIsMine, KeyReplay, Accepted, SameKey, ActiveContent, OneKey,
       StartIsPast, Progress, NoAnswer
  <2> QED
    BY <2>1, <2>2, <2>3, <2>4
<1>7. ASSUME NEW r \in Requests, Breaks(r) PROVE IngestInv'
  <2>1. Progress' /\ QueueIsReady'
    BY <1>7 DEF Breaks, Progress, QueueIsReady, PC
  <2>2. OneActive' /\ OneKey'
    BY <1>7 DEF Breaks, OneActive, OneKey, SameKey, ActiveContent, Failed, Progress, QueueIsReady
  <2>3. StartIsPast'
    BY <1>7 DEF Breaks, StartIsPast, SameKey, Progress
  <2>4. AnswerIsMine' /\ KeyReplay'
    BY <1>7 DEF Breaks, AnswerIsMine, KeyReplay, Accepted, SameKey, ActiveContent, OneKey,
       StartIsPast, Progress, NoAnswer
  <2> QED
    BY <2>1, <2>2, <2>3, <2>4
<1>8. ASSUME NEW r \in Requests, Settle(r) PROVE IngestInv'
  <2>1. Progress' /\ QueueIsReady'
    BY <1>8 DEF Settle, Progress, QueueIsReady, PC
  <2>2. OneActive' /\ OneKey'
    BY <1>8 DEF Settle, OneActive, OneKey, SameKey, ActiveContent, Failed, Progress, QueueIsReady
  <2>3. StartIsPast'
    BY <1>8 DEF Settle, StartIsPast, SameKey, Progress
  <2>4. AnswerIsMine' /\ KeyReplay'
    BY <1>8 DEF Settle, AnswerIsMine, KeyReplay, Accepted, SameKey, ActiveContent, OneKey,
       StartIsPast, Progress, NoAnswer
  <2> QED
    BY <2>1, <2>2, <2>3, <2>4
<1>9. CASE UNCHANGED vars
  BY <1>9 DEF vars, Progress, QueueIsReady, OneActive, OneKey, StartIsPast, AnswerIsMine,
     KeyReplay, Failed, Accepted, SameKey
<1> QED
  BY <1>1, <1>2, <1>3, <1>4, <1>5, <1>6, <1>7, <1>8, <1>9 DEF Next, Submit

LEMMA IngestInit == Init => TypeOK /\ IngestInv
<1> SUFFICES ASSUME Init PROVE TypeOK /\ IngestInv
  OBVIOUS
<1>1. TypeOK
  BY DEF Init, TypeOK, JobStatus, PC, NoAnswer
<1>2. IngestInv
  BY <1>1 DEF Init, TypeOK, IngestInv, Progress, QueueIsReady, OneActive, OneKey,
     StartIsPast, AnswerIsMine, KeyReplay, Accepted, NoAnswer
<1> QED
  BY <1>1, <1>2

\* The table, the store, the queue and the answers keep together, whatever
\* submissions interleave, collide and break off.
THEOREM IngestInvariant == Spec => [](TypeOK /\ IngestInv)
<1>1. TypeOK /\ IngestInv /\ [Next]_vars => (TypeOK /\ IngestInv)'
  BY TypeStep, IngestStep DEF IngestInv
<1> QED
  BY <1>1, IngestInit, PTL DEF Spec

-----------------------------------------------------------------------------
(***************************************************************************)
(* The properties                                                          *)
(***************************************************************************)

\* Every variable keeps its type, and only rows are stored or queued.
THEOREM TypeCorrect == Spec => []TypeOK
BY IngestInvariant, PTL

\* An accepted request is answered with a job for its own content and config,
\* however many submissions of the same drawings race.
THEOREM AnswersAreMine == Spec => []AnswerIsMine
BY IngestInvariant, PTL DEF IngestInv

\* No content is worked on twice, unless one of its jobs has failed.
THEOREM WorkIsNotRedundant == Spec => []NoRedundantWork
<1>1. TypeOK /\ IngestInv => NoRedundantWork
  BY DEF TypeOK, IngestInv, OneActive, NoRedundantWork
<1> QED
  BY <1>1, IngestInvariant, PTL

\* A key that a row held when a request arrived decides the answer to it, and
\* nothing is refused without a conflict.
THEOREM KeysReplay == Spec => []KeyReplay
BY IngestInvariant, PTL DEF IngestInv

\* No worker is given a job whose object is not in the store.
THEOREM WorkHasObject == Spec => []WorkHasItsObject
<1>1. IngestInv => WorkHasItsObject
  BY DEF IngestInv, QueueIsReady, WorkHasItsObject
<1> QED
  BY <1>1, IngestInvariant, PTL
=============================================================================
