----------------------------- MODULE Ingestion -----------------------------
(***************************************************************************)
(* Concurrent submissions of drawings: _find_existing and _submit of       *)
(* service/api/ingestions.py against the two partial unique indexes of     *)
(* migration 0004, the object store and the queue.                         *)
(*                                                                         *)
(* Each statement of a session is a step: Postgres reads committed rows    *)
(* per statement, and the row is committed before the upload and the       *)
(* upload done before the enqueue.  A request creates at most one job, so  *)
(* a job is named by the request that created it.                          *)
(***************************************************************************)
EXTENDS FiniteSets

CONSTANTS
  Requests,   \* submissions, among them the retries of a client
  Contents,   \* a content_sha256 together with its config_hash
  Keys,       \* values of the Idempotency-Key header
  NoKey,      \* the header is absent
  NoJob       \* an answer that names no job

ASSUME KeysAssumption == NoKey \notin Keys
ASSUME JobsAssumption == NoJob \notin Requests

VARIABLES
  content,    \* what each request submits
  key,        \* the Idempotency-Key of each request
  jobs,       \* the rows of takeoff_jobs
  status,     \* takeoff_jobs.status
  stored,     \* object store: the jobs with an object at pdf_object_key
  queue,      \* jobs whose plan_and_dispatch is in the queue or being run
  pc,         \* where the handler of each request is
  collided,   \* the request has caught an IntegrityError
  answer,     \* HTTP status and job of the response
  atStart     \* history: the rows when the request started

inputs == <<content, key>>
world  == <<jobs, status, stored, queue>>
vars   == <<inputs, world, pc, collided, answer, atStart>>

PC        == {"idle", "key", "content", "insert", "upload", "enqueue", "done"}
JobStatus == {"queued", "succeeded", "failed"}
NoAnswer  == [code |-> 0, job |-> NoJob]
Failed    == {j \in jobs : status[j] = "failed"}
Accepted  == {r \in Requests : answer[r].code \in {200, 202}}

\* The rows each unique index ranges over, for the values of request r.
SameKey(r)       == {j \in jobs : key[r] # NoKey /\ key[j] = key[r]}
ActiveContent(r) == {j \in jobs \ Failed : content[j] = content[r]}

Init ==
  /\ content \in [Requests -> Contents]
  /\ key \in [Requests -> Keys \cup {NoKey}]
  /\ jobs = {}
  /\ status = [r \in Requests |-> "queued"]
  /\ stored = {}
  /\ queue = {}
  /\ pc = [r \in Requests |-> "idle"]
  /\ collided = [r \in Requests |-> FALSE]
  /\ answer = [r \in Requests |-> NoAnswer]
  /\ atStart = [r \in Requests |-> {}]

Goto(r, from, to) ==
  /\ pc[r] = from
  /\ pc' = [pc EXCEPT ![r] = to]

Reply(r, from, code, job) ==
  /\ Goto(r, from, "done")
  /\ answer' = [answer EXCEPT ![r] = [code |-> code, job |-> job]]

-----------------------------------------------------------------------------

\* The upload is hashed and validated and the threadpool runs _submit.
Start(r) ==
  /\ Goto(r, "idle", "key")
  /\ atStart' = [atStart EXCEPT ![r] = jobs]
  /\ UNCHANGED <<inputs, world, collided, answer>>

\* Mutant of LookupKey: a key known for a different content is passed over.
LookupKeyLenient(r) ==
  /\ \/ \E j \in SameKey(r) : content[j] = content[r] /\ Reply(r, "key", 200, j)
     \/ /\ \A j \in SameKey(r) : content[j] # content[r]
        /\ Goto(r, "key", "content")
        /\ UNCHANGED answer
  /\ UNCHANGED <<inputs, world, collided, atStart>>

\* Mutant of LookupKey: a known key is answered without comparing the content.
LookupKeyTrusting(r) ==
  /\ \/ \E j \in SameKey(r) : Reply(r, "key", 200, j)
     \/ SameKey(r) = {} /\ Goto(r, "key", "content") /\ UNCHANGED answer
  /\ UNCHANGED <<inputs, world, collided, atStart>>

\* _find_existing: the row with this key settles the matter, either way.
LookupKey(r) ==
  /\ \/ \E j \in SameKey(r) :
          IF content[j] = content[r] THEN Reply(r, "key", 200, j)
                                     ELSE Reply(r, "key", 409, NoJob)
     \/ SameKey(r) = {} /\ Goto(r, "key", "content") /\ UNCHANGED answer
  /\ UNCHANGED <<inputs, world, collided, atStart>>

\* _find_existing: the active row with this content and config.  With neither
\* row the first search goes on to create a job and the second re-raises.
LookupContent(r) ==
  /\ \/ \E j \in ActiveContent(r) : Reply(r, "content", 200, j)
     \/ /\ ActiveContent(r) = {}
        /\ IF collided[r] THEN Reply(r, "content", 500, NoJob)
                          ELSE Goto(r, "content", "insert") /\ UNCHANGED answer
  /\ UNCHANGED <<inputs, world, collided, atStart>>

\* Mutant of Insert: the indexes were never created.
InsertUnchecked(r) ==
  /\ Goto(r, "insert", "upload")
  /\ jobs' = jobs \cup {r}
  /\ UNCHANGED <<inputs, status, stored, queue, collided, answer, atStart>>

\* Mutant of Insert: the IntegrityError is swallowed and the upload done anyway.
InsertSwallowing(r) ==
  /\ Goto(r, "insert", "upload")
  /\ jobs' = IF SameKey(r) \cup ActiveContent(r) = {} THEN jobs \cup {r} ELSE jobs
  /\ UNCHANGED <<inputs, status, stored, queue, collided, answer, atStart>>

\* The row is committed, or an index refuses it and the search is repeated.
Insert(r) ==
  /\ IF SameKey(r) \cup ActiveContent(r) = {}
     THEN /\ Goto(r, "insert", "upload")
          /\ jobs' = jobs \cup {r}
          /\ UNCHANGED collided
     ELSE /\ Goto(r, "insert", "key")
          /\ collided' = [collided EXCEPT ![r] = TRUE]
          /\ UNCHANGED jobs
  /\ UNCHANGED <<inputs, status, stored, queue, answer, atStart>>

\* Mutant of Upload: the object is not there yet when the upload returns.
UploadDeferred(r) ==
  /\ Goto(r, "upload", "enqueue")
  /\ UNCHANGED <<inputs, world, collided, answer, atStart>>

Upload(r) ==
  /\ Goto(r, "upload", "enqueue")
  /\ stored' = stored \cup {r}
  /\ UNCHANGED <<inputs, jobs, status, queue, collided, answer, atStart>>

\* Mutant of Enqueue: the answer is sent and the enqueue forgotten.
EnqueueForgotten(r) ==
  /\ Reply(r, "enqueue", 202, r)
  /\ UNCHANGED <<inputs, world, collided, atStart>>

Enqueue(r) ==
  /\ Reply(r, "enqueue", 202, r)
  /\ queue' = queue \cup {r}
  /\ UNCHANGED <<inputs, jobs, status, stored, collided, atStart>>

\* The database, the store or the queue raises, or the API process dies: what
\* was committed stays and nothing undoes it.
Breaks(r) ==
  /\ pc[r] \notin {"idle", "done"}
  /\ Reply(r, pc[r], 500, NoJob)
  /\ UNCHANGED <<inputs, world, collided, atStart>>

Submit(r) == \/ Start(r) \/ LookupKey(r) \/ LookupContent(r)
             \/ Insert(r) \/ Upload(r) \/ Enqueue(r)

\* The workers bring an enqueued job to its final status.
Settle(j) ==
  /\ j \in queue
  /\ queue' = queue \ {j}
  /\ \E s \in {"succeeded", "failed"} : status' = [status EXCEPT ![j] = s]
  /\ UNCHANGED <<inputs, jobs, stored, pc, collided, answer, atStart>>

Next == \E r \in Requests : Submit(r) \/ Breaks(r) \/ Settle(r)

Spec == Init /\ [][Next]_vars

\* A handler that has started goes on unless it breaks, and the workers settle
\* what is queued: Orchestrator shows when they do.
FairSpec ==
  /\ Spec
  /\ \A r \in Requests : WF_vars(Submit(r)) /\ WF_vars(Settle(r))

-----------------------------------------------------------------------------
(***************************************************************************)
(* Properties                                                              *)
(***************************************************************************)

\* Every variable keeps its type, and a row exists for whatever is stored or queued.
TypeOK ==
  /\ content \in [Requests -> Contents]
  /\ key \in [Requests -> Keys \cup {NoKey}]
  /\ jobs \subseteq Requests
  /\ status \in [Requests -> JobStatus]
  /\ stored \subseteq jobs
  /\ queue \subseteq jobs
  /\ pc \in [Requests -> PC]
  /\ collided \in [Requests -> BOOLEAN]
  /\ answer \in [Requests -> [code : {0, 200, 202, 409, 500},
                              job : Requests \cup {NoJob}]]
  /\ atStart \in [Requests -> SUBSET Requests]

\* An accepted request is answered with a job for its own content and config,
\* whichever of the four searches found it.
AnswerIsMine ==
  \A r \in Accepted :
    /\ answer[r].job \in jobs
    /\ content[answer[r].job] = content[r]

\* No content is worked on twice: of two jobs for it whose drawings are stored
\* for the workers, one has failed (the "active" index of migration 0004).
NoRedundantWork ==
  \A i, j \in stored : (i # j /\ content[i] = content[j]) => {i, j} \cap Failed # {}

\* A key that a row already held when the request arrived decides the answer:
\* the job of that row is returned, or the request is refused for a different
\* content; and nothing else is ever refused.
KeyReplay ==
  \A r \in Requests :
    /\ \A j \in atStart[r] :
         (key[r] # NoKey /\ key[j] = key[r] /\ r \in Accepted) => answer[r].job = j
    /\ answer[r].code = 409 =>
         \E j \in SameKey(r) : content[j] # content[r]

\* "worker never runs before the object exists" (ingestions.py, _submit).
WorkHasItsObject == queue \subseteq stored

\* The jobs named in accepted answers end up settled by the workers, unless the
\* request that created one broke off before the enqueue.
AcceptedIsSettled ==
  <>[](\A r \in Accepted : LET j == answer[r].job
                           IN  status[j] # "queued" \/ answer[j].code = 500)

\* "Submit is async: validate + persist + enqueue, then return a job id"
\* (ingestions.py): the jobs named in accepted answers end up settled.
AcceptedIsEnqueued == <>[](\A r \in Accepted : status[answer[r].job] # "queued")
=============================================================================
