------------------------- MODULE TakeoffAgent_proofs -------------------------
(***************************************************************************)
(* Proofs about TakeoffAgent and the listings of Query it reads, for every *)
(* report the pipeline may publish, every page size and any number of      *)
(* calls, and for a job that goes on while it is read.                     *)
(***************************************************************************)
EXTENDS TakeoffAgent, FiniteSetTheorems, WellFoundedInduction, SequenceTheorems, TLAPS

\* Min of two integers.
LEMMA MinOfTwo ==
  ASSUME NEW a \in Int, NEW b \in Int
  PROVE  Min({a, b}) = IF a <= b THEN a ELSE b
BY DEF Min

-----------------------------------------------------------------------------
(***************************************************************************)
(* The inductive invariant                                                 *)
(***************************************************************************)

Fields  == {"summary", "items", "fixture_counts", "room_areas"}
Tools   == {"none", "over", "submit_takeoff", "wait_for_takeoff", "takeoff_summary",
            "takeoff_query", "cross_check", "finalize_report"}
Fetches == {"cross_check", "finalize_report"}

\* What fetch_all has left to ask.
FromItems == <<"items", "fixture_counts", "room_areas">>
FromCounts == <<"fixture_counts", "room_areas">>
FromAreas == <<"room_areas">>

\* The rows are those of the report, and neither changes once they can be read.
JobIsPublished ==
  /\ rows = Projected(report)
  /\ status = "succeeded" => report \in Reports
  /\ answer \in Terminal => status = answer

RequestsAreGated ==
  /\ tool \in Tools
  /\ page \in Nat \ {0}
  /\ DOMAIN fetched = Fields
  /\ gated => status = "succeeded" /\ todo # <<>>

\* A listing that has been fetched is the one of the report, the one that is
\* being fetched has the pages before this one, and the others are empty.
FetchIsFaithful ==
  tool \in Fetches =>
    /\ todo \in {FetchAll, FromItems, FromCounts, FromAreas, <<>>}
    /\ todo # FetchAll =>
         status = "succeeded" /\ fetched.summary = <<GetSummary(report, manifest, rows)>>
    /\ todo \in {FetchAll, <<>>} => page = 1
    /\ \A e \in Entities :
         /\ e \notin ToSet(todo) => fetched[e] = report[e]
         /\ (e \in ToSet(todo) /\ e # todo[1]) => fetched[e] = <<>>
         /\ (todo # <<>> /\ e = todo[1]) =>
              fetched[e] = SubSeq(report[e], 1, Min({Offset(page, PageSize), Len(report[e])}))

\* What is written tells the truth about a report that no longer changes.
FilesAreTrue ==
  \A file \in {scratchpad, saved} : file # NoFile =>
    status = "succeeded" /\ NoGapIsLost(file) /\ EscalationsAreReal(file)

AgentInv == JobIsPublished /\ RequestsAreGated /\ FetchIsFaithful /\ FilesAreTrue

-----------------------------------------------------------------------------
(***************************************************************************)
(* The listings                                                            *)
(***************************************************************************)

\* The rows of a list are listed as they were: ordinals are places.
LEMMA ListedAsProjected ==
  ASSUME NEW S, NEW s \in Seq(S)
  PROVE  Listed({[ordinal |-> k - 1, row |-> s[k]] : k \in DOMAIN s}, <<>>) = s
<1>1. Len(s) \in Nat /\ DOMAIN s = 1 .. Len(s)
  BY LenProperties
<1> DEFINE row(k) == [ordinal |-> k - 1, row |-> s[k]]
           R == {row(k) : k \in 1 .. Len(s)}
           upTo(r) == {q \in R : q.ordinal <= r.ordinal}
<1>2. {r \in R : Matches(r.row, <<>>)} = R
  <2>1. DOMAIN <<>> = {}
    OBVIOUS
  <2> QED
    BY <2>1 DEF Matches
<1>3. \A j \in 1 .. Len(s) : Cardinality({row(k) : k \in 1 .. j}) = j
  <2> SUFFICES ASSUME NEW j \in 1 .. Len(s) PROVE Cardinality({row(k) : k \in 1 .. j}) = j
    OBVIOUS
  <2> DEFINE D == 1 .. j
             I == {row(k) : k \in D}
  <2>1. j \in Nat /\ IsFiniteSet(D) /\ Cardinality(D) = j
    BY <1>1, FS_Interval
  <2>2. \A a, b \in D : row(a) = row(b) => a = b
    <3> SUFFICES ASSUME NEW a \in D, NEW b \in D, row(a) = row(b) PROVE a = b
      OBVIOUS
    <3>1. row(a).ordinal = a - 1 /\ row(b).ordinal = b - 1
      OBVIOUS
    <3> HIDE DEF row
    <3> QED
      BY <2>1, <3>1
  <2> DEFINE f == [k \in D |-> row(k)]
  <2>3. f \in Bijection(D, I)
    <3> HIDE DEF row
    <3> QED
      BY <2>2 DEF Bijection, Injection, Surjection, IsInjective
  <2>4. ExistsBijection(D, I)
    BY <2>3 DEF ExistsBijection
  <2>5. Cardinality(I) = Cardinality(D)
    BY <2>1, <2>4, FS_Bijection
  <2> QED
    BY <2>1, <2>5
<1>4. Cardinality(R) = Len(s)
  <2>1. CASE Len(s) = 0
    <3>1. R = {}
      BY <2>1
    <3> QED
      BY <2>1, <3>1, FS_EmptySet
  <2>2. CASE Len(s) # 0
    <3>1. Len(s) \in 1 .. Len(s)
      BY <1>1, <2>2
    <3> QED
      BY <1>3, <3>1
  <2> QED
    BY <2>1, <2>2
<1>5. \A j \in 1 .. Len(s) : Cardinality(upTo(row(j))) = j
  <2> SUFFICES ASSUME NEW j \in 1 .. Len(s) PROVE Cardinality(upTo(row(j))) = j
    OBVIOUS
  <2>1. upTo(row(j)) = {row(k) : k \in 1 .. j}
    <3>1. \A k \in 1 .. Len(s) : row(k).ordinal = k - 1
      OBVIOUS
    <3>2. \A k \in 1 .. Len(s) : row(k).ordinal <= row(j).ordinal <=> k \in 1 .. j
      BY <1>1, <3>1
    <3>3. \A k \in 1 .. j : k \in 1 .. Len(s)
      BY <1>1
    <3> HIDE DEF row
    <3> QED
      BY <3>2, <3>3
  <2> QED
    BY <1>3, <2>1
<1>6. \A j \in 1 .. Len(s) : (CHOOSE r \in R : Cardinality(upTo(r)) = j) = row(j)
  <2> SUFFICES ASSUME NEW j \in 1 .. Len(s)
               PROVE  (CHOOSE r \in R : Cardinality(upTo(r)) = j) = row(j)
    OBVIOUS
  <2>1. \A r \in R : Cardinality(upTo(r)) = j => r = row(j)
    <3> SUFFICES ASSUME NEW k \in 1 .. Len(s), Cardinality(upTo(row(k))) = j PROVE row(k) = row(j)
      OBVIOUS
    <3>1. k = j
      BY <1>5
    <3> QED
      BY <3>1
  <2>2. row(j) \in R /\ Cardinality(upTo(row(j))) = j
    BY <1>5
  <2> HIDE DEF row, R, upTo
  <2> QED
    BY <2>1, <2>2
<1>7. Listed(R, <<>>) = [k \in 1 .. Len(s) |-> s[k]]
  <2> DEFINE found == {r \in R : Matches(r.row, <<>>)}
  <2>1. Listed(R, <<>>) =
          [k \in 1 .. Cardinality(found) |->
             (CHOOSE r \in found : Cardinality({q \in found : q.ordinal <= r.ordinal}) = k).row]
    <3> HIDE DEF R
    <3> QED
      BY Zenon DEF Listed
  <2>2. \A j \in 1 .. Len(s) : row(j).row = s[j]
    OBVIOUS
  <2>3. found = R
    BY <1>2
  <2> DEFINE nth(k) == CHOOSE r \in R : Cardinality(upTo(r)) = k
  <2> HIDE DEF row, R, found
  <2>4. Listed(R, <<>>) = [k \in 1 .. Cardinality(R) |-> nth(k).row]
    BY <2>1, <2>3, Zenon
  <2>5. \A k \in 1 .. Len(s) : nth(k) = row(k)
    BY <1>6
  <2> HIDE DEF nth
  <2> QED
    BY <1>4, <2>2, <2>4, <2>5
<1>8. {[ordinal |-> k - 1, row |-> s[k]] : k \in DOMAIN s} = R
  BY <1>1
<1> QED
  BY <1>1, <1>7, <1>8

\* What is before a page and the page are what is before the next one.
LEMMA PagesAdjoin ==
  ASSUME NEW S, NEW s \in Seq(S), NEW off \in Nat, NEW size \in Nat
  PROVE  SubSeq(s, 1, Min({off, Len(s)})) \o SubSeq(s, off + 1, Min({off + size, Len(s)}))
           = SubSeq(s, 1, Min({off + size, Len(s)}))
<1> DEFINE a == Min({off, Len(s)})
           b == Min({off + size, Len(s)})
<1>1. /\ a = (IF off <= Len(s) THEN off ELSE Len(s))
      /\ b = (IF off + size <= Len(s) THEN off + size ELSE Len(s))
      /\ Len(s) \in Nat
  BY MinOfTwo, LenProperties
<1> HIDE DEF a, b
<1>2. a \in 0 .. b /\ b \in 0 .. Len(s)
  BY <1>1
<1>3. SubSeq(s, off + 1, b) = SubSeq(s, a + 1, b)
  <2>1. CASE off <= Len(s)
    BY <1>1, <2>1
  <2>2. CASE off > Len(s)
    <3>1. b < off + 1 /\ b < a + 1 /\ a + 1 \in Int /\ off + 1 \in Int /\ b \in Int
      BY <1>1, <2>2
    <3>2. SubSeq(s, off + 1, b) = <<>> /\ SubSeq(s, a + 1, b) = <<>>
      BY <3>1, SubSeqEmpty
    <3> QED
      BY <3>2
  <2>3. off <= Len(s) \/ off > Len(s)
    BY <1>1
  <2> QED
    BY <2>1, <2>2, <2>3
<1>4. SubSeq(s, 1, a) \o SubSeq(s, a + 1, b) = SubSeq(s, 1, b)
  <2>1. 1 \in 1 .. Len(s) + 1 /\ a \in 1 - 1 .. Len(s) /\ b \in a .. Len(s)
    BY <1>1, <1>2
  <2> QED
    BY <2>1, ConcatAdjacentSubSeq
<1> QED
  BY <1>3, <1>4 DEF a, b

\* The page count covers the listing: after the last page nothing is left.
LEMMA LastPageEnds ==
  ASSUME NEW n \in Nat, NEW at \in Nat \ {0}, at >= TotalPages(n, PageSize)
  PROVE  Offset(at, PageSize) + PageSize >= n
<1>1. PageSize \in Nat /\ PageSize > 0
  BY BoundsAssumption
<1>2. PICK d \in Nat : d = n + PageSize - 1
  BY <1>1
<1>3. at >= d \div PageSize
  BY <1>2 DEF TotalPages
<1>4. PageSize * at > d - PageSize
  BY <1>1, <1>3
<1>5. Offset(at, PageSize) + PageSize = PageSize * at
  BY <1>1 DEF Offset
<1>6. PICK c \in Nat : c = PageSize * at
  BY <1>1
<1> QED
  BY <1>1, <1>2, <1>4, <1>5, <1>6

\* What fetch_all has left, and what comes first.
LEMMA RestShapes ==
  /\ FetchAll[1] = "summary" /\ Tail(FetchAll) = FromItems
  /\ FromItems[1] = "items" /\ Tail(FromItems) = FromCounts
  /\ FromCounts[1] = "fixture_counts" /\ Tail(FromCounts) = FromAreas
  /\ FromAreas[1] = "room_areas" /\ Tail(FromAreas) = <<>>
  /\ ToSet(FetchAll) = Fields /\ ToSet(FromItems) = Entities
  /\ ToSet(FromCounts) = {"fixture_counts", "room_areas"}
  /\ ToSet(FromAreas) = {"room_areas"} /\ ToSet(<<>>) = {}
  /\ FetchAll # <<>> /\ FromItems # <<>> /\ FromCounts # <<>> /\ FromAreas # <<>>
  /\ FetchAll # FromItems /\ FetchAll # FromCounts /\ FetchAll # FromAreas
<1>1. ToSet(FetchAll) = Fields
  <2>1. DOMAIN FetchAll = 1 .. 4
    BY DEF FetchAll
  <2> QED
    BY <2>1 DEF ToSet, FetchAll, Fields
<1>2. ToSet(FromItems) = Entities
  <2>1. DOMAIN FromItems = 1 .. 3
    BY DEF FromItems
  <2> QED
    BY <2>1 DEF ToSet, FromItems, Entities
<1>3. ToSet(FromCounts) = {"fixture_counts", "room_areas"}
  <2>1. DOMAIN FromCounts = 1 .. 2
    BY DEF FromCounts
  <2> QED
    BY <2>1 DEF ToSet, FromCounts
<1>4. ToSet(FromAreas) = {"room_areas"}
  <2>1. DOMAIN FromAreas = 1 .. 1
    BY DEF FromAreas
  <2> QED
    BY <2>1 DEF ToSet, FromAreas
<1>5. ToSet(<<>>) = {}
  BY DEF ToSet
<1>6. /\ FetchAll[1] = "summary" /\ Tail(FetchAll) = FromItems
      /\ FromItems[1] = "items" /\ Tail(FromItems) = FromCounts
      /\ FromCounts[1] = "fixture_counts" /\ Tail(FromCounts) = FromAreas
      /\ FromAreas[1] = "room_areas" /\ Tail(FromAreas) = <<>>
  BY DEF FetchAll, FromItems, FromCounts, FromAreas
<1>7. /\ FetchAll # <<>> /\ FromItems # <<>> /\ FromCounts # <<>> /\ FromAreas # <<>>
      /\ FetchAll # FromItems /\ FetchAll # FromCounts /\ FetchAll # FromAreas
  BY <1>6 DEF FetchAll, FromItems, FromCounts, FromAreas
<1> QED
  BY <1>1, <1>2, <1>3, <1>4, <1>5, <1>6, <1>7

-----------------------------------------------------------------------------
(***************************************************************************)
(* The steps of the job                                                    *)
(***************************************************************************)

\* A job that is over stays as it is, unless another is submitted, of which no wait
\* has told; and one that succeeds has its rows.
LEMMA JobSteps ==
  ASSUME Next, JobIsPublished
  PROVE  /\ rows' = Projected(report')
         /\ status' = "succeeded" => report' \in Reports
         /\ status = "succeeded" => /\ status' = status /\ report' = report
                                    /\ manifest' = manifest /\ rows' = rows
         /\ status \in Terminal => status' = status \/ answer' = "none"
<1>0. rows = Projected(report) /\ (status = "succeeded" => report \in Reports)
  BY DEF JobIsPublished
<1>1. CASE Work
  <2>1. report' = report /\ rows' = rows
    BY <1>1 DEF Work
  <2>2. /\ status' = "succeeded" => status = "succeeded"
        /\ status = "succeeded" => status' = status /\ manifest' = manifest
        /\ status \in Terminal => status' = status
    BY <1>1 DEF Work, Terminal, Job!StartPlanning, Job!RunWhole, Job!FanOut, Job!StartReducing,
                Job!GiveUp, Job!LoseSoundness, Job!Advance
  <2> QED
    BY <1>0, <2>1, <2>2
<1>2. CASE Publish
  <2>1. status \in {"running", "reducing"}
    BY <1>2 DEF Publish, Job!Publish, Job!Advance
  <2>2. PICK r \in Reports : report' = r /\ rows' = Projected(r)
    BY <1>2 DEF Publish, Published
  <2> QED
    BY <2>1, <2>2 DEF Terminal
<1>3. CASE UNCHANGED <<status, manifest, report, rows>>
  BY <1>0, <1>3
<1>4. CASE Resubmit
  <2>1. /\ rows' = Projected(NoReport) /\ report' = NoReport /\ status' = "queued"
        /\ answer' = "none" /\ status # "succeeded"
    BY <1>4 DEF Resubmit
  <2> QED
    BY <2>1
<1>5. Agent \/ Rest => Resubmit \/ UNCHANGED <<status, manifest, report, rows>>
  BY DEF Agent, Rest, CallTool, Call, Answer, Refused, Submit, Poll, WaitReturns, PassGate,
         ReadSummary, ReadPage, Told, Finalize, RequestFails, Verify, End, Raised, job, vars
<1> QED
  BY <1>1, <1>2, <1>3, <1>4, <1>5 DEF Next, Service

\* The published job and what a wait has told of it.
LEMMA JobStep ==
  ASSUME Next, JobIsPublished
  PROVE  JobIsPublished'
<1>1. /\ rows' = Projected(report')
      /\ status' = "succeeded" => report' \in Reports
      /\ status \in Terminal => status' = status \/ answer' = "none"
  BY JobSteps
<1>2. (answer' \in Terminal) => status' = answer'
  <2>1. CASE answer' = answer
    BY <1>1, <2>1 DEF JobIsPublished, Terminal
  <2>2. CASE WaitReturns
    BY <2>2 DEF WaitReturns, job
  <2>3. CASE answer' = "none"
    BY <2>3 DEF Terminal
  <2>4. answer' = answer \/ WaitReturns \/ answer' = "none"
    BY DEF Next, Service, Work, Publish, Agent, Rest, CallTool, Call, Answer, Refused, Submit,
           Resubmit, Poll, PassGate, ReadSummary, ReadPage, Told, Finalize, RequestFails, Verify, End,
           Raised, run, vars
  <2> QED
    BY <2>1, <2>2, <2>3, <2>4
<1>3. Projected(report)' = Projected(report')
  BY DEF Projected
<1> QED
  BY <1>1, <1>2, <1>3 DEF JobIsPublished

-----------------------------------------------------------------------------
(***************************************************************************)
(* The steps of the requests                                               *)
(***************************************************************************)

\* A request that has passed the gate reads a published job.
LEMMA GateStep ==
  ASSUME Next, JobIsPublished, RequestsAreGated
  PROVE  RequestsAreGated'
<1> USE DEF RequestsAreGated
<1>0. status = "succeeded" => status' = "succeeded"
  BY JobSteps
<1>1. CASE Service \/ Rest
  <2>1. UNCHANGED <<tool, page, fetched, gated, todo>>
    BY <1>1 DEF Service, Rest, Work, Publish, fetch, vars
  <2> QED
    BY <1>0, <2>1
<1>2. CASE CallTool
  <2>1. tool' \in Tools /\ page' = 1 /\ gated' = FALSE /\ fetched' = Nothing
    BY <1>2 DEF CallTool, Call, Tools
  <2>2. DOMAIN Nothing = Fields
    BY DEF Nothing, Fields
  <2> QED
    BY <2>1, <2>2
<1>3. CASE RequestFails \/ Refused \/ Submit \/ Resubmit \/ Told \/ Finalize \/ WaitReturns
  <2>1. tool' = "none" /\ UNCHANGED <<page, fetched, gated, todo>>
    BY <1>3 DEF RequestFails, Refused, Submit, Resubmit, Told, Finalize, WaitReturns, Return, fetch
  <2> QED
    BY <1>0, <2>1 DEF Tools
<1>4. CASE Poll \/ Verify \/ End \/ Raised
  <2>1. tool' \in {tool, "over"} /\ UNCHANGED <<page, fetched, gated, todo>>
    BY <1>4 DEF Poll, Verify, End, Raised, fetch
  <2> QED
    BY <1>0, <2>1 DEF Tools
<1>5. CASE PassGate
  <2>1. UNCHANGED <<tool, page, fetched, todo>> /\ status = "succeeded" /\ todo # <<>>
    BY <1>5 DEF PassGate, Queryable
  <2> QED
    BY <1>0, <2>1
<1>6. CASE ReadSummary
  <2>1. /\ UNCHANGED <<tool, page>> /\ gated' = FALSE
        /\ fetched' = [fetched EXCEPT !.summary = <<GetSummary(report, manifest, rows)>>]
    BY <1>6 DEF ReadSummary
  <2> QED
    BY <2>1
<1>7. CASE ReadPage
  <2>1. UNCHANGED tool /\ gated' = FALSE /\ page' \in {1, page + 1}
    BY <1>7 DEF ReadPage
  <2>2. DOMAIN fetched' = DOMAIN fetched
    BY <1>7 DEF ReadPage
  <2> QED
    BY <2>1, <2>2
<1> QED
  BY <1>1, <1>2, <1>3, <1>4, <1>5, <1>6, <1>7 DEF Next, Agent, Answer

\* One page more of the listing in front.
LEMMA PageRead ==
  ASSUME JobIsPublished, RequestsAreGated, NEW e \in Entities, status = "succeeded"
  PROVE  LET resp == GetPage(rows[e], <<>>, page, PageSize)
         IN  /\ SubSeq(report[e], 1, Min({Offset(page, PageSize), Len(report[e])})) \o resp.data
                  = SubSeq(report[e], 1, Min({Offset(page + 1, PageSize), Len(report[e])}))
             /\ page >= resp.total_pages =>
                  SubSeq(report[e], 1, Min({Offset(page + 1, PageSize), Len(report[e])})) = report[e]
<1>1. PICK S : report[e] \in Seq(S)
  BY ReportsAssumption DEF JobIsPublished
<1>2. PICK s \in Seq(S) : s = report[e]
  BY <1>1
<1>3. rows[e] = {[ordinal |-> k - 1, row |-> s[k]] : k \in DOMAIN s}
  BY <1>2 DEF JobIsPublished, Projected
<1>4. Listed(rows[e], <<>>) = s
  BY <1>3, ListedAsProjected
<1>5. page \in Nat \ {0} /\ PageSize \in Nat /\ Len(s) \in Nat
  BY BoundsAssumption, LenProperties DEF RequestsAreGated
<1>6. PICK off \in Nat : off = Offset(page, PageSize) /\ Offset(page + 1, PageSize) = off + PageSize
  <2>1. Offset(page, PageSize) \in Nat
    BY <1>5 DEF Offset
  <2>2. Offset(page + 1, PageSize) = Offset(page, PageSize) + PageSize
    BY <1>5 DEF Offset
  <2> QED
    BY <2>1, <2>2
<1> DEFINE resp == GetPage(rows[e], <<>>, page, PageSize)
<1>7. resp =
        [data        |-> SubSeq(s, off + 1, Min({off + PageSize, Len(s)})),
         total_pages |-> TotalPages(Len(s), PageSize)]
  BY <1>4, <1>6, Zenon DEF GetPage
<1>8. SubSeq(s, 1, Min({off, Len(s)})) \o SubSeq(s, off + 1, Min({off + PageSize, Len(s)}))
        = SubSeq(s, 1, Min({off + PageSize, Len(s)}))
  BY <1>5, PagesAdjoin
<1>9. ASSUME page >= TotalPages(Len(s), PageSize)
      PROVE  SubSeq(s, 1, Min({off + PageSize, Len(s)})) = s
  <2>1. off + PageSize >= Len(s)
    BY <1>5, <1>6, <1>9, LastPageEnds
  <2>2. Min({off + PageSize, Len(s)}) = Len(s)
    BY <1>5, <2>1, MinOfTwo
  <2> QED
    BY <2>2, SubSeqFull
<1> HIDE DEF resp
<1>10. /\ resp.data = SubSeq(s, off + 1, Min({off + PageSize, Len(s)}))
       /\ resp.total_pages = TotalPages(Len(s), PageSize)
  BY <1>7
<1>11. /\ SubSeq(s, 1, Min({off, Len(s)})) \o resp.data = SubSeq(s, 1, Min({off + PageSize, Len(s)}))
       /\ page >= resp.total_pages => SubSeq(s, 1, Min({off + PageSize, Len(s)})) = s
  BY <1>8, <1>9, <1>10
<1> QED
  BY <1>2, <1>6, <1>11, Zenon DEF resp

\* What fetch_all has of a listing is what the pages so far held.
LEMMA FetchStep ==
  ASSUME Next, JobIsPublished, RequestsAreGated, FetchIsFaithful
  PROVE  FetchIsFaithful'
<1> DEFINE Summary == <<GetSummary(report, manifest, rows)>>
           Before(e, at) == SubSeq(report[e], 1, Min({Offset(at, PageSize), Len(report[e])}))
<1>1. status = "succeeded" => /\ status' = status /\ report' = report
                              /\ manifest' = manifest /\ rows' = rows
  BY JobSteps
<1>2. CASE tool' \notin Fetches
  BY <1>2 DEF FetchIsFaithful
<1>3. CASE CallTool
  <2>1. /\ page' = 1 /\ fetched' = Nothing
        /\ tool' \in Fetches => todo' = FetchAll
    BY <1>3 DEF CallTool, Call, Fetches
  <2>2. ASSUME tool' \in Fetches, NEW e \in Entities
        PROVE  e \in ToSet(todo') /\ e # todo'[1] /\ fetched'[e] = <<>>
    BY <2>1, <2>2, RestShapes DEF Entities, Fields, Nothing
  <2> QED
    BY <2>1, <2>2 DEF FetchIsFaithful
<1>4. CASE UNCHANGED <<tool, todo, page, fetched>>
  <2> SUFFICES ASSUME tool \in Fetches PROVE FetchIsFaithful'
    BY <1>4 DEF FetchIsFaithful
  <2>1. CASE todo = FetchAll
    <3>1. \A e \in Entities : /\ e \in ToSet(todo) /\ e # todo[1]
                              /\ fetched[e] = <<>>
      BY <2>1, RestShapes DEF FetchIsFaithful, Entities, Fields
    <3>2. page = 1
      BY <2>1 DEF FetchIsFaithful
    <3> QED
      BY <1>4, <2>1, <3>1, <3>2 DEF FetchIsFaithful
  <2>2. CASE todo # FetchAll
    <3>1. status = "succeeded"
      BY <2>2 DEF FetchIsFaithful
    <3> QED
      BY <1>1, <1>4, <3>1 DEF FetchIsFaithful
  <2> QED
    BY <2>1, <2>2
<1>5. CASE ReadSummary /\ tool \in Fetches
  <2>1. /\ todo[1] = "summary" /\ todo' = Tail(todo) /\ UNCHANGED <<tool, page>>
        /\ fetched' = [fetched EXCEPT !.summary = Summary]
        /\ gated
    BY <1>5 DEF ReadSummary
  <2>2. status = "succeeded" /\ DOMAIN fetched = Fields /\ todo # <<>>
    BY <2>1 DEF RequestsAreGated
  <2>3. todo = FetchAll
    BY <1>5, <2>1, <2>2, RestShapes DEF FetchIsFaithful
  <2>4. todo' = FromItems /\ page = 1
    BY <1>5, <2>1, <2>3, RestShapes DEF FetchIsFaithful
  <2>5. fetched'.summary = Summary /\ \A e \in Entities : fetched'[e] = <<>>
    <3>1. \A e \in Entities : fetched[e] = <<>> /\ e # "summary" /\ e \in Fields
      BY <1>5, <2>3, RestShapes DEF FetchIsFaithful, Entities, Fields
    <3> HIDE DEF Summary
    <3> QED
      BY <2>1, <2>2, <3>1 DEF Fields
  <2>6. Before("items", 1) = <<>>
    <3>1. PICK S : report["items"] \in Seq(S)
      BY <2>2, ReportsAssumption DEF JobIsPublished, Entities
    <3>2. Min({Offset(1, PageSize), Len(report["items"])}) = 0
      <4>1. Offset(1, PageSize) = 0 /\ Len(report["items"]) \in Nat
        BY <3>1, BoundsAssumption, LenProperties DEF Offset
      <4> QED
        BY <4>1, MinOfTwo
    <3> QED
      BY <3>2, SubSeqEmpty
  <2>7. \A e \in Entities : /\ e \in ToSet(FromItems)
                            /\ e = "items" <=> e = FromItems[1]
    BY RestShapes DEF Entities
  <2> HIDE DEF Summary, Before
  <2>8. status' = "succeeded" /\ fetched'.summary = Summary' /\ Summary' = Summary
    BY <1>1, <2>2, <2>5 DEF Summary
  <2>9. \A e \in Entities : e = FromItems[1] => fetched'[e] = Before(e, 1)
    BY <2>5, <2>6, <2>7
  <2>10. \A e \in Entities : e = FromItems[1] => fetched'[e] = Before(e, 1)'
    BY <1>1, <2>2, <2>9 DEF Before
  <2>11. \A e \in Entities : e = FromItems[1] => fetched'[e] =
           SubSeq(report[e], 1, Min({Offset(page, PageSize), Len(report[e])}))'
    BY <2>1, <2>4, <2>10 DEF Before
  <2> QED
    BY <2>1, <2>4, <2>5, <2>7, <2>8, <2>11, RestShapes, ZenonT(60) DEF FetchIsFaithful, Summary
<1>6. CASE ReadPage /\ tool \in Fetches
  <2> DEFINE e    == todo[1]
             resp == GetPage(rows[e], <<>>, page, PageSize)
  <2>1. /\ e \in Entities /\ UNCHANGED tool /\ gated
        /\ fetched' = [fetched EXCEPT ![e] = @ \o resp.data]
        /\ IF LastPage(resp.total_pages) THEN todo' = Tail(todo) /\ page' = 1
                                         ELSE page' = page + 1 /\ todo' = todo
    BY <1>6 DEF ReadPage
  <2>2. /\ status = "succeeded" /\ DOMAIN fetched = Fields /\ todo # <<>> /\ page \in Nat \ {0}
    BY <2>1 DEF RequestsAreGated
  <2>3. todo \in {FromItems, FromCounts, FromAreas}
    BY <1>6, <2>1, <2>2, RestShapes DEF FetchIsFaithful, Entities
  <2>4. fetched.summary = Summary /\ status' = "succeeded" /\ Summary' = Summary
    BY <1>1, <1>6, <2>2, <2>3, RestShapes DEF FetchIsFaithful
  <2>5. fetched[e] = Before(e, page)
    BY <1>6, <2>1, <2>2 DEF FetchIsFaithful
  <2>6. /\ Before(e, page) \o resp.data = Before(e, page + 1)
        /\ page >= resp.total_pages => Before(e, page + 1) = report[e]
    BY <2>1, <2>2, PageRead
  <2> HIDE DEF resp, Before, Summary
  <2>7. /\ fetched'[e] = Before(e, page + 1)
        /\ \A f \in Entities : f # e => fetched'[f] = fetched[f]
        /\ fetched'.summary = Summary
    <3>1. e \in Fields /\ Entities \subseteq Fields /\ e # "summary" /\ "summary" \in Fields
      BY <2>1 DEF Entities, Fields
    <3> QED
      BY <2>1, <2>2, <2>4, <2>5, <2>6, <3>1
  <2>8. CASE ~LastPage(resp.total_pages)
    <3>1. todo' = todo /\ page' = page + 1
      BY <2>1, <2>8
    <3>2. \A f \in Entities : /\ f \notin ToSet(todo) => fetched'[f] = report'[f]
                              /\ (f \in ToSet(todo) /\ f # todo[1]) => fetched'[f] = <<>>
      <4>1. e \in ToSet(todo)
        BY <2>3, RestShapes DEF Entities
      <4> QED
        BY <1>1, <1>6, <2>2, <2>7, <4>1 DEF FetchIsFaithful
    <3>3. \A f \in Entities : f = todo[1] => fetched'[f] = Before(f, page + 1)
      BY <2>7
    <3>4. \A f \in Entities : f = todo'[1] => fetched'[f] =
            SubSeq(report[f], 1, Min({Offset(page, PageSize), Len(report[f])}))'
      BY <1>1, <2>2, <3>1, <3>3 DEF Before
    <3>5. todo \notin {FetchAll, <<>>}
      BY <2>3, RestShapes
    <3> QED
      BY <2>3, <2>4, <2>7, <3>1, <3>2, <3>4, <3>5 DEF FetchIsFaithful, Summary
  <2>9. CASE LastPage(resp.total_pages)
    <3>1. todo' = Tail(todo) /\ page' = 1
      BY <2>1, <2>9
    <3>2. fetched'[e] = report[e]
      BY <1>6, <2>6, <2>7, <2>9 DEF LastPage, Fetches
    <3>3. /\ \A f \in Entities : f \notin ToSet(todo') => f \notin ToSet(todo) \/ f = e
          /\ \A f \in Entities : f \in ToSet(todo') => f \in ToSet(todo) /\ f # e
          /\ todo' \in {FromCounts, FromAreas, <<>>}
      BY <2>3, <3>1, RestShapes DEF Entities
    <3>4. \A f \in Entities : /\ f \notin ToSet(todo') => fetched'[f] = report[f]
                              /\ f \in ToSet(todo') => fetched'[f] = <<>>
      <4>1. \A f \in Entities : f \notin ToSet(todo) => fetched[f] = report[f]
        BY <1>6 DEF FetchIsFaithful
      <4>2. \A f \in Entities : (f \in ToSet(todo) /\ f # e) => fetched[f] = <<>>
        BY <1>6 DEF FetchIsFaithful
      <4> QED
        BY <2>7, <3>2, <3>3, <4>1, <4>2
    <3>5. \A f \in Entities : (todo' # <<>> /\ f = todo'[1]) => f \in ToSet(todo')
      BY <3>3, RestShapes
    <3>6. \A f \in Entities : Before(f, 1) = <<>>
      <4> SUFFICES ASSUME NEW f \in Entities PROVE Before(f, 1) = <<>>
        OBVIOUS
      <4>1. PICK S : report[f] \in Seq(S)
        BY <2>2, ReportsAssumption DEF JobIsPublished
      <4>2. Min({Offset(1, PageSize), Len(report[f])}) = 0
        <5>1. Offset(1, PageSize) = 0 /\ Len(report[f]) \in Nat
          BY <4>1, BoundsAssumption, LenProperties DEF Offset
        <5> QED
          BY <5>1, MinOfTwo
      <4> QED
        BY <4>2, SubSeqEmpty DEF Before
    <3>7. \A f \in Entities : (todo' # <<>> /\ f = todo'[1]) => fetched'[f] =
            SubSeq(report[f], 1, Min({Offset(page, PageSize), Len(report[f])}))'
      BY <1>1, <2>2, <3>1, <3>4, <3>5, <3>6 DEF Before
    <3>8. /\ todo' # FetchAll
          /\ \A f \in Entities : f \notin ToSet(todo') => fetched'[f] = report'[f]
      BY <1>1, <2>2, <3>3, <3>4, RestShapes
    <3> QED
      BY <2>4, <2>7, <3>1, <3>3, <3>4, <3>7, <3>8 DEF FetchIsFaithful, Summary
  <2> QED
    BY <2>8, <2>9
<1>7. \/ tool' \notin Fetches \/ CallTool \/ UNCHANGED <<tool, todo, page, fetched>>
      \/ (ReadSummary /\ tool \in Fetches) \/ (ReadPage /\ tool \in Fetches)
  <2>1. CASE Service \/ Rest
    BY <2>1 DEF Service, Rest, Work, Publish, fetch, vars
  <2>2. CASE RequestFails \/ Refused \/ Submit \/ Resubmit \/ Told \/ Finalize \/ WaitReturns \/ End \/ Raised
    <3>1. tool' \in {"none", "over"}
      BY <2>2 DEF RequestFails, Refused, Submit, Resubmit, Told, Finalize, WaitReturns, Return, End, Raised
    <3> QED
      BY <3>1 DEF Fetches
  <2>3. CASE Poll \/ Verify \/ PassGate
    BY <2>3 DEF Poll, Verify, PassGate, fetch
  <2>4. CASE ReadSummary \/ ReadPage
    <3>1. tool' = tool
      BY <2>4 DEF ReadSummary, ReadPage
    <3> QED
      BY <2>4, <3>1
  <2> QED
    BY <2>1, <2>2, <2>3, <2>4 DEF Next, Agent, Answer
<1> QED
  BY <1>2, <1>3, <1>4, <1>5, <1>6, <1>7

-----------------------------------------------------------------------------
(***************************************************************************)
(* The report that is written                                              *)
(***************************************************************************)

\* A symbol is repeated just if two places of the listing count it.
LEMMA RepeatedIffTwice ==
  ASSUME JobIsPublished, status = "succeeded", NEW d, d.fixture_counts = report.fixture_counts
  PROVE  /\ \A j, k \in DOMAIN report.fixture_counts :
              CountedTwice(j, k) => report.fixture_counts[j].symbol_id \in Repeated(d)
         /\ \A s \in Repeated(d) : \E j, k \in DOMAIN report.fixture_counts : CountedTwice(j, k)
<1> DEFINE counts == d.fixture_counts
<1>1. PICK S : counts \in Seq(S)
  BY ReportsAssumption DEF JobIsPublished, Entities
<1>2. IsFiniteSet(DOMAIN counts)
  <2> HIDE DEF counts
  <2>1. PICK n \in Nat : DOMAIN counts = 1 .. n
    BY <1>1, LenProperties
  <2>2. IsFiniteSet(1 .. n)
    BY FS_Interval
  <2> QED
    BY <2>1, <2>2
<1>3. \A s : CountsOf(s, d) \subseteq DOMAIN counts /\ IsFiniteSet(CountsOf(s, d))
  <2>1. \A s : CountsOf(s, d) \in SUBSET DOMAIN counts
    BY DEF CountsOf
  <2> QED
    BY <1>2, <2>1, FS_Subset
<1>4. ASSUME NEW j \in DOMAIN counts, NEW k \in DOMAIN counts, CountedTwice(j, k)
      PROVE  counts[j].symbol_id \in Repeated(d)
  <2> DEFINE C == CountsOf(counts[j].symbol_id, d)
  <2>1. j # k /\ {j, k} \subseteq C
    BY <1>4 DEF CountsOf, CountedTwice
  <2>2. Cardinality({j, k}) = 2
    <3>1. IsFiniteSet({k}) /\ Cardinality({k}) = 1
      BY FS_Singleton
    <3>2. j \notin {k}
      BY <2>1
    <3>3. Cardinality({k} \cup {j}) = 2
      BY <3>1, <3>2, FS_AddElement, SMTT(30)
    <3>4. {k} \cup {j} = {j, k}
      OBVIOUS
    <3> QED
      BY <3>3, <3>4
  <2>3. Cardinality(C) >= 2
    <3>1. Cardinality({j, k}) <= Cardinality(C) /\ Cardinality(C) \in Nat
      BY <1>3, <2>1, FS_Subset, FS_CardinalityType
    <3> QED
      BY <2>2, <3>1
  <2>4. counts[j] \in ToSet(counts)
    BY <1>4 DEF ToSet
  <2> QED
    BY <2>3, <2>4 DEF Repeated
<1>5. ASSUME NEW s \in Repeated(d)
      PROVE  \E j, k \in DOMAIN counts : CountedTwice(j, k)
  <2>1. PICK c \in ToSet(counts) : s = c.symbol_id /\ Cardinality(CountsOf(s, d)) >= 2
    BY <1>5 DEF Repeated
  <2>2. PICK j \in DOMAIN counts : counts[j].symbol_id = s
    BY <2>1 DEF ToSet
  <2>3. CASE CountsOf(s, d) \subseteq {j}
    <3>1. IsFiniteSet({j}) /\ Cardinality({j}) = 1
      BY FS_Singleton
    <3>2. Cardinality(CountsOf(s, d)) <= 1
      BY <2>3, <3>1, FS_Subset
    <3>3. Cardinality(CountsOf(s, d)) \in Nat
      BY <1>3, FS_CardinalityType
    <3> QED
      BY <2>1, <3>2, <3>3
  <2>4. CASE \E k \in CountsOf(s, d) : k # j
    BY <2>2, <2>4 DEF CountsOf, CountedTwice
  <2> QED
    BY <2>3, <2>4
<1> QED
  BY <1>4, <1>5

\* What is built from the whole listings says every gap and names only what is
\* there.
LEMMA ArtifactIsTrue ==
  ASSUME JobIsPublished, status = "succeeded", NEW d, NEW ref,
         d.summary = <<GetSummary(report, manifest, rows)>>,
         \A e \in Entities : d[e] = report[e], Valid(ref, d)
  PROVE  NoGapIsLost(Artifact(d, {ref})) /\ EscalationsAreReal(Artifact(d, {ref}))
<1> DEFINE file == Artifact(d, {ref})
           rec  == Reconciled(d)
<1>1. /\ file.rollup = d.summary[1].rollup
      /\ file.reconciliation = rec /\ file.escalations = {ref}
  BY DEF Artifact
<1>2. file.incomplete = d.summary[1].incomplete
  BY Zenon DEF Artifact
<1>3. d.summary[1] = GetSummary(report, manifest, rows)
  OBVIOUS
<1>4. GetSummary(report, manifest, rows).rollup = report.summary
  BY DEF GetSummary
<1>5. GetSummary(report, manifest, rows).incomplete <=> manifest.failed # {}
  BY Zenon DEF GetSummary
<1>6. file.incomplete <=> manifest.failed # {}
  BY <1>2, <1>3, <1>5, Zenon
<1>7. d.items = report.items /\ d.fixture_counts = report.fixture_counts
      /\ d.room_areas = report.room_areas
  BY DEF Entities
<1>8. /\ rec.uncounted = Uncounted(d) /\ rec.doubles = DoubleCounts(d)
      /\ rec.without_area = WithoutArea(d)
      /\ rec.unverified = Cardinality({k \in DOMAIN d.fixture_counts : ~d.fixture_counts[k].verified})
  BY DEF Reconciled
<1>9. rec.has_gaps <=> (Uncounted(d) # {} \/ WithoutArea(d) # {} \/ DoubleCounts(d) # {})
  BY Zenon DEF Reconciled
<1>10. rec.incomplete <=> manifest.failed # {}
  <2>1. rec.incomplete = d.summary[1].incomplete
    BY Zenon DEF Reconciled
  <2> QED
    BY <1>3, <1>5, <2>1, Zenon
<1> HIDE DEF file, rec
<1>11. /\ \A i \in UncountedTypes : [schedule |-> i.schedule, mark |-> i.mark] \in Uncounted(d)
       /\ Uncounted(d) # {} <=> UncountedTypes # {}
  <2>1. Uncounted(d) = {[schedule |-> i.schedule, mark |-> i.mark] : i \in UncountedTypes}
    BY <1>7 DEF Uncounted, UncountedTypes, Marked
  <2> QED
    BY <2>1
<1>12. /\ \A i \in RoomsWithoutArea : i.mark \in WithoutArea(d)
       /\ WithoutArea(d) # {} <=> RoomsWithoutArea # {}
  <2>1. WithoutArea(d) = {i.mark : i \in RoomsWithoutArea}
    BY <1>7 DEF WithoutArea, RoomsWithoutArea, Marked
  <2> QED
    BY <2>1
<1>13. /\ \A j, k \in DOMAIN report.fixture_counts : CountedTwice(j, k) =>
            \E x \in DoubleCounts(d) :
              /\ x.symbol_id = report.fixture_counts[j].symbol_id
              /\ x.total = CandidateTotal(report.fixture_counts[j].symbol_id,
                                          report.fixture_counts)
       /\ DoubleCounts(d) # {} <=> \E j, k \in DOMAIN report.fixture_counts : CountedTwice(j, k)
  <2> DEFINE counts   == report.fixture_counts
             total(s) == CandidateTotal(s, counts)
  <2>1. DoubleCounts(d) = {[symbol_id |-> s, total |-> total(s)] : s \in Repeated(d)}
    BY <1>7, Zenon DEF DoubleCounts
  <2>2. ASSUME NEW j \in DOMAIN counts, NEW k \in DOMAIN counts, CountedTwice(j, k)
        PROVE  counts[j].symbol_id \in Repeated(d)
    BY <1>7, <2>2, RepeatedIffTwice
  <2>3. ASSUME NEW s \in Repeated(d)
        PROVE  \E j, k \in DOMAIN counts : CountedTwice(j, k)
    BY <1>7, <2>3, RepeatedIffTwice
  <2> HIDE DEF total
  <2>4. ASSUME NEW j \in DOMAIN counts, NEW k \in DOMAIN counts, CountedTwice(j, k)
        PROVE  \E x \in DoubleCounts(d) : /\ x.symbol_id = counts[j].symbol_id
                                          /\ x.total = total(counts[j].symbol_id)
    <3> DEFINE s == counts[j].symbol_id
               x == [symbol_id |-> s, total |-> total(s)]
    <3>1. x \in DoubleCounts(d)
      BY <2>1, <2>2, <2>4
    <3>2. x.symbol_id = s /\ x.total = total(s)
      OBVIOUS
    <3> HIDE DEF s, x
    <3>3. \E y \in DoubleCounts(d) : y.symbol_id = s /\ y.total = total(s)
      BY <3>1, <3>2
    <3> QED
      BY <3>3 DEF s
  <2>5. DoubleCounts(d) # {} => \E j, k \in DOMAIN counts : CountedTwice(j, k)
    <3>1. DoubleCounts(d) # {} => Repeated(d) # {}
      BY <2>1
    <3> QED
      BY <2>3, <3>1, Zenon
  <2>6. ASSUME NEW j \in DOMAIN counts, NEW k \in DOMAIN counts, CountedTwice(j, k)
        PROVE  DoubleCounts(d) # {}
    BY <2>4, <2>6
  <2> QED
    BY <2>4, <2>5, <2>6, Zenon DEF total
<1>14. NoGapIsLost(file)
  <2>1. file.rollup = report.summary
    BY <1>1, <1>3, <1>4
  <2>2. file.reconciliation = rec
    BY <1>1
  <2>3. rec.has_gaps <=> \/ UncountedTypes # {} \/ RoomsWithoutArea # {}
                         \/ \E j, k \in DOMAIN report.fixture_counts : CountedTwice(j, k)
    BY <1>9, <1>11, <1>12, <1>13, Zenon
  <2>4. /\ \A i \in UncountedTypes : [schedule |-> i.schedule, mark |-> i.mark] \in rec.uncounted
        /\ \A i \in RoomsWithoutArea : i.mark \in rec.without_area
    BY <1>8, <1>11, <1>12, Zenon
  <2>5. \A j, k \in DOMAIN report.fixture_counts : CountedTwice(j, k) =>
          \E x \in rec.doubles :
            /\ x.symbol_id = report.fixture_counts[j].symbol_id
            /\ x.total = CandidateTotal(report.fixture_counts[j].symbol_id, report.fixture_counts)
    BY <1>8, <1>13, Zenon
  <2>6. rec.unverified =
          Cardinality({k \in DOMAIN report.fixture_counts : ~report.fixture_counts[k].verified})
    BY <1>7, <1>8, Zenon
  <2> QED
    BY <1>6, <1>10, <2>1, <2>2, <2>3, <2>4, <2>5, <2>6, Zenon DEF NoGapIsLost
<1>15. EscalationsAreReal(file)
  <2>1. ref.mark = "" \/ ref.mark \in {i.mark : i \in ToSet(report.items)}
                                        \cup {c.symbol_id : c \in ToSet(report.fixture_counts)}
                                        \cup {a.room_number : a \in ToSet(report.room_areas)}
    BY <1>7 DEF Valid
  <2>2. ref.schedule = "" \/ ref.schedule \in {i.schedule : i \in ToSet(report.items)}
    BY <1>7 DEF Valid
  <2> QED
    BY <1>1, <2>1, <2>2 DEF EscalationsAreReal
<1> QED
  BY <1>14, <1>15 DEF file

\* What is said of a file depends on the report and the manifest alone.
LEMMA SameReport ==
  ASSUME UNCHANGED <<report, manifest>>, NEW file, NoGapIsLost(file), EscalationsAreReal(file)
  PROVE  NoGapIsLost(file)' /\ EscalationsAreReal(file)'
<1>1. UncountedTypes' = UncountedTypes /\ RoomsWithoutArea' = RoomsWithoutArea
  BY DEF UncountedTypes, RoomsWithoutArea, Marked
<1>2. \A j, k : CountedTwice(j, k)' <=> CountedTwice(j, k)
  BY DEF CountedTwice
<1>3. report' = report /\ manifest' = manifest
  OBVIOUS
<1>4. NoGapIsLost(file)'
  BY <1>1, <1>2, <1>3, ZenonT(30) DEF NoGapIsLost
<1>5. EscalationsAreReal(file)'
  BY <1>3, Zenon DEF EscalationsAreReal
<1> QED
  BY <1>4, <1>5

\* The files that finalize_report and _save_report write.
LEMMA FilesStep ==
  ASSUME Next, JobIsPublished, RequestsAreGated, FetchIsFaithful, FilesAreTrue
  PROVE  FilesAreTrue'
<1>1. status = "succeeded" => status' = "succeeded" /\ report' = report /\ manifest' = manifest
  BY JobSteps
<1>2. ASSUME NEW file, status = "succeeded", NoGapIsLost(file), EscalationsAreReal(file)
      PROVE  status' = "succeeded" /\ NoGapIsLost(file)' /\ EscalationsAreReal(file)'
  BY <1>1, <1>2, SameReport
<1>3. ASSUME NEW file \in {scratchpad, saved}, file # NoFile
      PROVE  status' = "succeeded" /\ NoGapIsLost(file)' /\ EscalationsAreReal(file)'
  BY <1>2, <1>3 DEF FilesAreTrue
<1>4. PICK files : files = {scratchpad', saved'}
  OBVIOUS
<1>5. CASE Finalize /\ scratchpad' # scratchpad
  <2>1. PICK ref \in References : Valid(ref, fetched) /\ scratchpad' = Artifact(fetched, {ref})
    BY <1>5 DEF Finalize
  <2>2. saved' = saved /\ tool = "finalize_report" /\ todo = <<>>
    BY <1>5 DEF Finalize
  <2>3. /\ status = "succeeded"
        /\ fetched.summary = <<GetSummary(report, manifest, rows)>>
        /\ \A e \in Entities : fetched[e] = report[e]
    BY <2>2, RestShapes DEF FetchIsFaithful, Fetches
  <2>4. PICK file : file = Artifact(fetched, {ref})
    OBVIOUS
  <2>5. NoGapIsLost(file) /\ EscalationsAreReal(file)
    BY <2>1, <2>3, <2>4, ArtifactIsTrue
  <2>6. status' = "succeeded" /\ NoGapIsLost(file)' /\ EscalationsAreReal(file)'
    BY <1>2, <2>3, <2>5
  <2>7. files = {file, saved}
    BY <1>4, <2>1, <2>2, <2>4
  <2>8. \A x \in files : x # NoFile =>
          status' = "succeeded" /\ NoGapIsLost(x)' /\ EscalationsAreReal(x)'
    BY <1>3, <2>6, <2>7
  <2> QED
    BY <1>4, <2>8 DEF FilesAreTrue
<1>6. CASE files \subseteq {scratchpad, saved}
  <2>1. \A x \in files : x # NoFile =>
          status' = "succeeded" /\ NoGapIsLost(x)' /\ EscalationsAreReal(x)'
    BY <1>3, <1>6
  <2> QED
    BY <1>4, <2>1 DEF FilesAreTrue
<1>7. (Finalize /\ scratchpad' # scratchpad) \/ files \subseteq {scratchpad, saved}
  <2>1. CASE Finalize
    BY <1>4, <2>1 DEF Finalize
  <2>2. CASE End
    BY <1>4, <2>2 DEF End
  <2>3. CASE UNCHANGED <<scratchpad, saved>>
    BY <1>4, <2>3
  <2>4. Next => Finalize \/ End \/ UNCHANGED <<scratchpad, saved>>
    BY DEF Next, Service, Work, Publish, Agent, Rest, CallTool, Call, Answer, Refused, Submit,
           Resubmit, Poll, WaitReturns, PassGate, ReadSummary, ReadPage, Told, RequestFails, Verify, Raised, run, vars
  <2> QED
    BY <2>1, <2>2, <2>3, <2>4
<1> QED
  BY <1>5, <1>6, <1>7

-----------------------------------------------------------------------------
(***************************************************************************)
(* The theorems                                                            *)
(***************************************************************************)

\* Before the drawings are submitted nothing is read and nothing written.
LEMMA AgentInit == Init => AgentInv
<1> SUFFICES ASSUME Init PROVE AgentInv
  OBVIOUS
<1>1. /\ status = "queued" /\ rows = Projected(report) /\ answer = "none" /\ tool = "none"
      /\ page = 1 /\ gated = FALSE /\ fetched = Nothing
      /\ scratchpad = NoFile /\ saved = NoFile
  BY DEF Init, Job!Init
<1>2. DOMAIN Nothing = Fields
  BY DEF Nothing, Fields
<1> QED
  BY <1>1, <1>2 DEF AgentInv, JobIsPublished, RequestsAreGated, FetchIsFaithful, FilesAreTrue,
                    Terminal, Tools, Fetches

\* What the agent reads, keeps and writes follows the published job: the
\* inductive invariant.
THEOREM AgentInvariant == Spec => []AgentInv
<1>1. ASSUME AgentInv, [Next]_vars PROVE AgentInv'
  <2>1. CASE Next
    BY <1>1, <2>1, JobStep, GateStep, FetchStep, FilesStep DEF AgentInv
  <2>2. CASE UNCHANGED vars
    <3>1. UNCHANGED <<report, rows, status, manifest, answer, tool, page, todo, gated, fetched,
                      scratchpad, saved>>
      BY <2>2 DEF vars, job, fetch, run
    <3>2. JobIsPublished' /\ RequestsAreGated'
      BY <1>1, <3>1 DEF AgentInv, JobIsPublished, RequestsAreGated
    <3>3. FetchIsFaithful'
      BY <1>1, <3>1 DEF AgentInv, FetchIsFaithful
    <3>4. FilesAreTrue'
      <4>1. ASSUME NEW file, NoGapIsLost(file), EscalationsAreReal(file)
            PROVE  NoGapIsLost(file)' /\ EscalationsAreReal(file)'
        BY <3>1, <4>1, SameReport
      <4>2. {scratchpad, saved}' = {scratchpad, saved} /\ status' = status
        BY <3>1
      <4> QED
        BY <1>1, <4>1, <4>2, Zenon DEF AgentInv, FilesAreTrue
    <3> QED
      BY <3>2, <3>3, <3>4 DEF AgentInv
  <2> QED
    BY <1>1, <2>1, <2>2
<1> QED
  BY <1>1, AgentInit, PTL DEF Spec

\* fetch_all has every row of the published takeoff once, though each of its
\* requests gates and reads in two transactions (reconcile.py, query.py).
THEOREM ListingsAreWhole == Spec => []ListingIsWhole
<1>1. AgentInv => ListingIsWhole
  BY RestShapes DEF AgentInv, FetchIsFaithful, Fetches, ListingIsWhole
<1> QED
  BY <1>1, AgentInvariant, PTL

\* The saved report has every uncounted type, every room without an area, every
\* symbol of two sheets with its total and the number of unverified counts, has
\* gaps exactly if there is one of the first three, and names no schedule and no
\* mark that is not in the takeoff (reconcile.py, report_tools.py).
THEOREM ReportsAreTrue == Spec => []ReportIsTrue
<1>1. AgentInv => ReportIsTrue
  BY DEF AgentInv, FilesAreTrue, ReportIsTrue
<1> QED
  BY <1>1, AgentInvariant, PTL

\* A wait tells the truth about a job that is over, and gives up on no other
\* before its budget is used (tools.py, wait_for_takeoff).
THEOREM WaitsAreHonest == Spec => HonestWait
<1>1. AgentInv => (answer \in Terminal => status = answer)
  BY DEF AgentInv, JobIsPublished
<1>2. [Next]_vars =>
        [(answer' # answer /\ answer' \notin Terminal \cup {"none"}) => waited >= MaxWaits]_vars
  <2> SUFFICES ASSUME Next, answer' # answer, answer' \notin Terminal \cup {"none"}
               PROVE  waited >= MaxWaits
    OBVIOUS
  <2>1. WaitReturns
    BY DEF Next, Service, Work, Publish, Agent, Rest, CallTool, Call, Answer, Refused, Submit,
           Resubmit, Poll, PassGate, ReadSummary, ReadPage, Told, Finalize, RequestFails, Verify, End,
           Raised, run, vars
  <2> QED
    BY <2>1 DEF WaitReturns, WaitOver
<1> QED
  BY <1>1, <1>2, AgentInvariant, PTL DEF HonestWait, Spec
=============================================================================
