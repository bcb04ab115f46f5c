--------------------------- MODULE EnrichmentProofs ---------------------------
(***************************************************************************)
(* Theorems about Enrichment, for every value of its constants.            *)
(*                                                                         *)
(* Every step is one of five shapes: it sends a message, stores the        *)
(* placeholder of a sent message, fails to, loses the requests in flight,  *)
(* or leaves messages and waiting requests alone.  The inductive invariant *)
(* says, for each finding, that a message more than the forgotten ones has *)
(* a row or a request that is about to write it.                           *)
(***************************************************************************)
EXTENDS Enrichment, TLAPS

\* What an actor's job may look like.
GoodJob(a, j) ==
    /\ j \in Job
    /\ j.stage = "cves" <=> j.todo # {}
    /\ j.stage \in {"fetching", "storing", "enqueued"} => j.finding \in Findings
    /\ j.stage = "cves" /\ j.kind \notin {"cve", "batch"} => j.finding \in Findings
    /\ j.stage = "enqueued" => a \in Requests

Types ==
    /\ rows \in [Findings -> RowStatus]
    /\ cache \subseteq Cves
    /\ queue \in Seq(Findings)
    /\ job \in [Actors -> Job]
    /\ \A a \in Actors : GoodJob(a, job[a])
    /\ sent \in [Findings -> Nat]
    /\ forgotten \in [Findings -> Nat]
    /\ faults \in 0 .. MaxFaults

\* A request that sent the message of a finding is about to write its row.
Holds(r, f) == At(r, "enqueued") /\ job[r].finding = f

Kept(f) == rows[f] # "none" \/ \E r \in Requests : Holds(r, f)

\* A message beyond the forgotten ones has a row or a request that holds it.
Accounted(f) ==
    /\ sent[f] <= 1 + forgotten[f]
    /\ ~Kept(f) => sent[f] <= forgotten[f]

IInv == Types /\ \A f \in Findings : Accounted(f)

-----------------------------------------------------------------------------
(* The shapes of a step. *)

\* One row is written where there was none, or the table stays.
RowStep ==
    \/ UNCHANGED rows
    \/ \E f \in Findings, v \in RowStatus \ {"none"} : Contract!Write(f, v)

\* One actor that does not hold a message moves on, and does not take one.
Quiet(a) ==
    /\ ~At(a, "enqueued")
    /\ \E j \in Job : GoodJob(a, j) /\ j.stage # "enqueued" /\ Becomes(a, j)
    /\ RowStep
    /\ cache' \subseteq Cves
    /\ queue' \in Seq(Findings)
    /\ UNCHANGED <<sent, forgotten>>
    /\ faults' \in faults .. MaxFaults

\* A request sends the message of a finding without a row, and holds it.
Sends(r, f) ==
    /\ \A q \in Requests : ~At(q, "enqueued")
    /\ rows[f] = "none"
    /\ \E j \in Job : GoodJob(r, j) /\ j.stage = "enqueued" /\ j.finding = f /\ Becomes(r, j)
    /\ sent' = [sent EXCEPT ![f] = @ + 1]
    /\ queue' \in Seq(Findings)
    /\ UNCHANGED <<rows, cache, forgotten, faults>>

\* A request writes the row of the message that it holds, if there is none.
Settles(r) ==
    /\ At(r, "enqueued")
    /\ \E j \in Job : GoodJob(r, j) /\ j.stage # "enqueued" /\ Becomes(r, j)
    /\ RowStep
    /\ rows'[job[r].finding] # "none"
    /\ UNCHANGED <<cache, queue, sent, forgotten, faults>>

\* A request fails to write it.
Forgets(r) ==
    /\ At(r, "enqueued")
    /\ \E j \in Job : GoodJob(r, j) /\ j.stage # "enqueued" /\ Becomes(r, j)
    /\ forgotten' = [forgotten EXCEPT ![job[r].finding] = @ + 1]
    /\ faults' \in faults .. MaxFaults
    /\ UNCHANGED <<rows, cache, queue, sent>>

LEMMA Names ==
    /\ \A stage \in {"idle", "fetching", "cves", "storing", "enqueued", "done", "lost"} :
            stage \in Stage
    /\ \A kind \in {"none", "enrich", "later", "read", "cve", "batch"} : kind \in Kind
  BY DEF Stage, Kind

\* A job that a request or a task starts with, and an answer given at once.
LEMMA StartedType ==
    ASSUME NEW stage \in Stage, NEW kind \in Kind, NEW f \in Findings \cup {NoFinding},
           NEW todo \in SUBSET Cves
    PROVE  LET j == Started(stage, kind, f, todo)
           IN  j \in Job /\ j.stage = stage /\ j.kind = kind /\ j.finding = f /\ j.todo = todo
  BY DEF Started, Job

LEMMA AnsweredType ==
    ASSUME NEW kind \in Kind, NEW f \in Findings \cup {NoFinding},
           NEW status \in {0, 200, 404, 500}, NEW a
    PROVE  LET j == Answered(kind, f, status)
           IN  j \in Job /\ GoodJob(a, j) /\ j.stage # "enqueued"
  <1> DEFINE j == Answered(kind, f, status)
  <1>1. "done" \in Stage
    BY Names
  <1>2. j \in Job
    BY <1>1 DEF Answered, Job
  <1>3. j.stage = "done" /\ j.todo = {}
    BY DEF Answered
  <1> HIDE DEF j
  <1>4. GoodJob(a, j) /\ j.stage # "enqueued"
    BY <1>2, <1>3 DEF GoodJob
  <1> QED
    BY <1>2, <1>4 DEF j

LEMMA IdleIsGood ==
    ASSUME NEW a
    PROVE  IdleJob \in Job /\ GoodJob(a, IdleJob) /\ IdleJob.stage = "idle"
  <1>1. "idle" \in Stage /\ "none" \in Kind
    BY Names
  <1>2. IdleJob \in Job /\ IdleJob.stage = "idle" /\ IdleJob.todo = {}
    BY <1>1, StartedType DEF IdleJob
  <1> QED
    BY <1>2 DEF GoodJob

\* The end of a job is a good job that holds nothing.
LEMMA EndIsQuiet ==
    ASSUME Types, NEW a \in Actors, NEW status \in {0, 200, 404, 500}, End(a, status)
    PROVE  \E j \in Job : GoodJob(a, j) /\ j.stage # "enqueued" /\ Becomes(a, j)
  <1>1. CASE a \in Workers
    <2> DEFINE j == IdleJob
    <2>1. j \in Job /\ GoodJob(a, j) /\ j.stage # "enqueued"
      BY IdleIsGood
    <2>2. Becomes(a, j)
      BY <1>1 DEF End, Becomes
    <2> HIDE DEF j
    <2> QED
      BY <2>1, <2>2
  <1>2. CASE a \notin Workers
    <2> DEFINE j == [job[a] EXCEPT !.stage = "done", !.status = status, !.todo = {}]
    <2>1. job[a] \in Job
      BY DEF Types
    <2>2. "done" \in Stage
      BY Names
    <2>3. j \in Job
      BY <2>1, <2>2, ZenonT(60) DEF Job
    <2>4. j.stage = "done"
      BY <2>1 DEF Job
    <2>5. j.todo = {}
      BY <2>1 DEF Job
    <2>6. Becomes(a, j)
      BY <1>2 DEF End
    <2> HIDE DEF j
    <2>7. GoodJob(a, j)
      BY <2>3, <2>4, <2>5 DEF GoodJob
    <2> QED
      BY <2>3, <2>4, <2>6, <2>7
  <1> QED
    BY <1>1, <1>2

LEMMA ValidateType == ModelValidate \in {0, 200, 404, 500}
  BY DEF ModelValidate

\* An insert writes one row where there was none, and ends the job.
LEMMA InsertShape ==
    ASSUME Types, NEW a \in Actors, NEW f \in Findings, NEW v \in RowStatus \ {"none"},
           Insert(a, f, v)
    PROVE  /\ RowStep
           /\ rows'[f] # "none"
           /\ \E j \in Job : GoodJob(a, j) /\ j.stage # "enqueued" /\ Becomes(a, j)
  <1>1. CASE rows[f] = "none"
    <2>1. rows' = [rows EXCEPT ![f] = v] /\ End(a, ModelValidate)
      BY <1>1 DEF Insert
    <2>2. Contract!Write(f, v)
      BY <1>1, <2>1 DEF Contract!Write
    <2>3. rows'[f] = v
      BY <2>1 DEF Types
    <2> QED
      BY <2>1, <2>2, <2>3, EndIsQuiet, ValidateType DEF RowStep
  <1>2. CASE rows[f] # "none"
    BY <1>2, EndIsQuiet DEF Insert, RowStep
  <1> QED
    BY <1>1, <1>2

\* What follows a CVE: the job ends, waits for the next one, or may store.
LEMMA AfterCveShape ==
    ASSUME Types, NEW a \in Actors, NEW c \in Cves, NEW found \in BOOLEAN,
           NEW broken \in BOOLEAN, Awaits(a, c), AfterCve(a, c, found, broken)
    PROVE  \E j \in Job : GoodJob(a, j) /\ j.stage # "enqueued" /\ Becomes(a, j)
  <1> DEFINE left == job[a].todo \ {c}
  <1>1. job[a] \in Job /\ GoodJob(a, job[a]) /\ job[a].stage = "cves"
    BY DEF Types, Awaits, At
  <1>2. left \in SUBSET Cves
    BY <1>1 DEF Job
  <1>3. CASE job[a].kind = "cve"
    <2>1. End(a, IF found THEN ModelValidate ELSE 404)
      BY <1>3 DEF AfterCve
    <2> QED
      BY <2>1, EndIsQuiet, ValidateType
  <1>4. CASE job[a].kind = "batch"
    <2>1. BatchGoesOn(a, left, found, broken)
      BY <1>4 DEF AfterCve
    <2>2. CASE End(a, ModelValidate) \/ End(a, 200) \/ End(a, 500)
      BY <2>2, EndIsQuiet, ValidateType
    <2>3. CASE left # {} /\ Becomes(a, [job[a] EXCEPT !.todo = left])
      <3> DEFINE j == [job[a] EXCEPT !.todo = left]
      <3>1. j \in Job /\ j.stage = "cves" /\ j.kind = "batch" /\ j.todo # {}
        BY <1>1, <1>2, <1>4, <2>3 DEF Job
      <3>2. GoodJob(a, j)
        BY <3>1 DEF GoodJob
      <3> QED
        BY <2>3, <3>1, <3>2
    <2> QED
      BY <2>1, <2>2, <2>3 DEF BatchGoesOn
  <1>5. CASE job[a].kind \notin {"cve", "batch"}
    <2> DEFINE next == IF left = {} THEN "storing" ELSE "cves"
               j == [job[a] EXCEPT !.todo = left, !.broken = broken, !.stage = next]
    <2>1. Becomes(a, j)
      BY <1>5 DEF AfterCve
    <2>2. next \in Stage /\ next # "enqueued" /\ (next = "cves" <=> left # {})
          /\ next \in {"storing", "cves"}
      BY DEF Stage
    <2> HIDE DEF next
    <2>3. j \in Job /\ j.stage = next /\ j.todo = left /\ j.finding = job[a].finding
      <3> DEFINE old == job[a]
      <3>1. old \in Job
        BY <1>1
      <3> HIDE DEF old, left
      <3>2. j = [old EXCEPT !.todo = left, !.broken = broken, !.stage = next]
        BY DEF old
      <3> HIDE DEF j
      <3>3. j \in Job
        BY <1>2, <2>2, <3>1, <3>2, ZenonT(60) DEF Job
      <3>4. j.stage = next /\ j.todo = left
        BY <3>1, <3>2 DEF Job
      <3>5. j.finding = old.finding
        BY <3>1, <3>2 DEF Job
      <3> QED
        BY <3>3, <3>4, <3>5 DEF old
    <2>4. GoodJob(a, j)
      BY <1>1, <1>5, <2>2, <2>3 DEF GoodJob
    <2> HIDE DEF j
    <2> QED
      BY <2>1, <2>2, <2>3, <2>4
  <1> QED
    BY <1>3, <1>4, <1>5

\* An idle request takes a good job that holds nothing.
LEMMA IdleIsQuiet ==
    ASSUME Types, NEW a \in Actors, NEW j \in Job, At(a, "idle"), Becomes(a, j),
           GoodJob(a, j), j.stage # "enqueued", queue' \in Seq(Findings),
           UNCHANGED <<rows, cache, sent, forgotten, faults>>
    PROVE  Quiet(a)
  BY DEF Types, Quiet, RowStep, At, GoodJob

LEMMA ArrivalShape ==
    ASSUME Types, NEW r \in Requests, Arrival(r)
    PROVE  Quiet(r) \/ \E f \in Findings : Sends(r, f)
  <1>0. r \in Actors /\ queue \in Seq(Findings)
    BY DEF Actors, Types
  <1>1. ASSUME NEW j, j \in Job, j.stage = "enqueued", j.finding \in Findings, j.todo = {}
        PROVE  GoodJob(r, j)
    BY <1>1 DEF GoodJob
  <1>2. ASSUME NEW j, j \in Job, j.stage = "fetching", j.finding \in Findings, j.todo = {}
        PROVE  GoodJob(r, j)
    BY <1>2 DEF GoodJob
  <1>3. ASSUME NEW j, j \in Job, j.stage = "cves", j.kind \in {"cve", "batch"}, j.todo # {}
        PROVE  GoodJob(r, j)
    BY <1>3 DEF GoodJob
  <1>4. ASSUME NEW f \in Findings, CreateSync(r, f) PROVE Quiet(r)
    <2>1. CASE rows[f] = "none"
      <3> DEFINE j == Started("fetching", "enrich", f, {})
      <3>1. GoodJob(r, j) /\ j \in Job /\ j.stage # "enqueued"
        BY <1>2, StartedType, Names
      <3>2. Becomes(r, j)
        BY <1>4, <2>1 DEF CreateSync
      <3> HIDE DEF j
      <3> QED
        BY <1>0, <1>4, <3>1, <3>2, IdleIsQuiet DEF CreateSync
    <2>2. CASE rows[f] # "none"
      <3>1. Becomes(r, Answered("enrich", f, ModelValidate))
        BY <1>4, <2>2 DEF CreateSync
      <3> QED
        BY <1>0, <1>4, <3>1, IdleIsQuiet, AnsweredType, ValidateType, Names DEF CreateSync
    <2> QED
      BY <2>1, <2>2
  <1>5. ASSUME NEW f \in Findings, CreateAsync(r, f) PROVE Quiet(r) \/ Sends(r, f)
    <2>1. CASE rows[f] = "none"
      <3> DEFINE j == Started("enqueued", "later", f, {})
      <3>1. GoodJob(r, j) /\ j \in Job /\ j.stage = "enqueued" /\ j.finding = f
        BY <1>1, StartedType, Names
      <3>2. Becomes(r, j) /\ queue' \in Seq(Findings)
        BY <1>0, <1>5, <2>1 DEF CreateAsync
      <3> HIDE DEF j
      <3> QED
        BY <1>5, <2>1, <3>1, <3>2 DEF CreateAsync, Sends, LoopFree, At
    <2>2. CASE rows[f] # "none"
      <3>1. Becomes(r, Answered("later", f, ModelValidate))
        BY <1>5, <2>2 DEF CreateAsync
      <3> QED
        BY <1>0, <1>5, <2>2, <3>1, IdleIsQuiet, AnsweredType, ValidateType, Names
           DEF CreateAsync
    <2> QED
      BY <2>1, <2>2
  <1>6. ASSUME NEW f \in Findings, QueueDown(r, f) PROVE Quiet(r)
    BY <1>0, <1>6, IdleIsQuiet, AnsweredType, Names DEF QueueDown
  <1>7. ASSUME NEW f \in Findings, Read(r, f) PROVE Quiet(r)
    <2> DEFINE status == IF rows[f] = "none" THEN 404 ELSE ModelValidate
    <2>1. status \in {0, 200, 404, 500} /\ Becomes(r, Answered("read", f, status))
      BY <1>7, ValidateType DEF Read
    <2> HIDE DEF status
    <2> QED
      BY <1>0, <1>7, <2>1, IdleIsQuiet, AnsweredType, Names DEF Read
  <1>8. ASSUME NEW c \in Cves, GetCve(r, c) PROVE Quiet(r)
    <2>1. CASE c \in cache
      <3>1. Becomes(r, Answered("cve", NoFinding, ModelValidate))
        BY <1>8, <2>1 DEF GetCve
      <3> QED
        BY <1>0, <1>8, <3>1, IdleIsQuiet, AnsweredType, ValidateType, Names DEF GetCve
    <2>2. CASE c \notin cache
      <3> DEFINE j == Started("cves", "cve", NoFinding, {c})
      <3>1. GoodJob(r, j) /\ j \in Job /\ j.stage # "enqueued"
        BY <1>3, StartedType, Names
      <3>2. Becomes(r, j)
        BY <1>8, <2>2 DEF GetCve
      <3> HIDE DEF j
      <3> QED
        BY <1>0, <1>8, <3>1, <3>2, IdleIsQuiet DEF GetCve
    <2> QED
      BY <2>1, <2>2
  <1>9. ASSUME NEW cves \in (SUBSET Cves) \ {{}}, BatchLookup(r, cves) PROVE Quiet(r)
    <2>1. CASE First(cves) \in cache
      <3>1. Becomes(r, Answered("batch", NoFinding, ModelValidate))
        BY <1>9, <2>1 DEF BatchLookup
      <3> QED
        BY <1>0, <1>9, <3>1, IdleIsQuiet, AnsweredType, ValidateType, Names DEF BatchLookup
    <2>2. CASE First(cves) \notin cache
      <3> DEFINE j == Started("cves", "batch", NoFinding, cves)
      <3>0. cves # {} /\ cves \in SUBSET Cves /\ "cves" \in Stage /\ "batch" \in Kind
        <4>1. cves # {} /\ cves \in SUBSET Cves
          BY <1>9
        <4> QED
          BY <4>1, Names
      <3>1. GoodJob(r, j) /\ j \in Job /\ j.stage # "enqueued"
        BY <1>3, <3>0, StartedType
      <3>2. Becomes(r, j)
        BY <1>9, <2>2 DEF BatchLookup
      <3> HIDE DEF j
      <3> QED
        BY <1>0, <1>9, <3>1, <3>2, IdleIsQuiet DEF BatchLookup
    <2> QED
      BY <2>1, <2>2
  <1> QED
    BY <1>4, <1>5, <1>6, <1>7, <1>8, <1>9 DEF Arrival

\* What an actor does with its job leaves the messages alone.
LEMMA WorkShape ==
    ASSUME Types, NEW a \in Actors, Work(a)
    PROVE  Quiet(a)
  <1> DEFINE Next1 == \E j \in Job : GoodJob(a, j) /\ j.stage # "enqueued" /\ Becomes(a, j)
  <1>0. /\ job[a] \in Job /\ GoodJob(a, job[a]) /\ queue \in Seq(Findings)
        /\ cache \subseteq Cves /\ faults \in 0 .. MaxFaults /\ MaxFaults \in Nat
    BY EnrichmentAssumption DEF Types
  <1>1. CASE FindingArrives(a)
    <2> DEFINE next == IF CvesOf[job[a].finding] = {} THEN "storing" ELSE "cves"
               j == [job[a] EXCEPT !.stage = next, !.todo = CvesOf[job[a].finding]]
    <2>0. next \in Stage /\ next \in {"storing", "cves"}
          /\ (next = "cves" <=> CvesOf[job[a].finding] # {})
      BY Names
    <2> HIDE DEF next
    <2>1. At(a, "fetching") /\ Becomes(a, j)
      BY <1>1 DEF FindingArrives, next
    <2>2. job[a].finding \in Findings
      BY <1>0, <2>1 DEF GoodJob, At
    <2>3. CvesOf[job[a].finding] \in SUBSET Cves
      BY <2>2, EnrichmentAssumption
    <2>4. j \in Job /\ j.stage = next /\ j.todo = CvesOf[job[a].finding]
          /\ j.finding = job[a].finding
      BY <1>0, <2>3, <2>0, ZenonT(60) DEF Job
    <2>5. GoodJob(a, j) /\ j.stage # "enqueued"
      BY <2>0, <2>2, <2>4 DEF GoodJob
    <2> HIDE DEF j
    <2> QED
      BY <1>0, <1>1, <2>1, <2>4, <2>5 DEF FindingArrives, Quiet, RowStep, At
  <1>2. CASE FindingMissing(a)
    <2>1. job[a].finding \in Findings
      BY <1>0, <1>2 DEF GoodJob, At, FindingMissing
    <2>2. Next1 /\ RowStep
      BY <1>2, <2>1, InsertShape DEF FindingMissing, RowStatus
    <2> QED
      BY <1>0, <1>2, <2>2 DEF FindingMissing, Quiet, At
  <1>3. CASE FindingUnreadable(a)
    <2>1. Next1
      BY <1>3, EndIsQuiet DEF FindingUnreadable
    <2> QED
      BY <1>0, <1>3, <2>1 DEF FindingUnreadable, Quiet, At, RowStep
  <1>4. ASSUME NEW c \in Cves, NvdKnows(a, c) PROVE Quiet(a)
    <2> DEFINE inserted == ~job[a].broken /\ c \notin cache
    <2>1. inserted \in BOOLEAN
      BY SMT
    <2>8. (~inserted) \in BOOLEAN
      BY SMT
    <2>2. AfterCve(a, c, inserted, ~inserted) /\ Awaits(a, c)
      BY <1>4 DEF NvdKnows
    <2> HIDE DEF inserted
    <2>3. Next1
      BY <2>1, <2>8, <2>2, AfterCveShape
    <2>4. cache' \subseteq Cves
      BY <1>0, <1>4 DEF NvdKnows
    <2> QED
      BY <1>0, <1>4, <2>2, <2>3, <2>4 DEF NvdKnows, Awaits, Quiet, At, RowStep
  <1>5. ASSUME NEW c \in Cves, NvdFails(a, c) PROVE Quiet(a)
    <2>1. job[a].broken \in BOOLEAN /\ FALSE \in BOOLEAN
      BY <1>0 DEF Job
    <2>2. Next1
      BY <1>5, <2>1, AfterCveShape DEF NvdFails
    <2> QED
      BY <1>0, <1>5, <2>2 DEF NvdFails, Awaits, Quiet, At, RowStep
  <1>6. CASE Store(a)
    <2>1. job[a].finding \in Findings
      BY <1>0, <1>6 DEF GoodJob, At, Store
    <2>2. Next1 /\ RowStep
      BY <1>6, <2>1, InsertShape, EndIsQuiet DEF Store, RowStatus, RowStep
    <2> QED
      BY <1>0, <1>6, <2>2 DEF Store, Quiet, At
  <1> QED
    BY <1>1, <1>2, <1>3, <1>4, <1>5, <1>6 DEF Work

\* A worker takes a message and works on it, or dies.
LEMMA WorkerShape ==
    ASSUME Types, NEW w \in Workers, Take(w) \/ WorkerCrash(w)
    PROVE  Quiet(w)
  <1>0. w \in Actors /\ queue \in Seq(Findings) /\ faults \in 0 .. MaxFaults
        /\ MaxFaults \in Nat /\ cache \subseteq Cves
    BY EnrichmentAssumption DEF Actors, Types
  <1>1. CASE Take(w)
    <2>1. queue # <<>> /\ Head(queue) \in Findings /\ queue' \in Seq(Findings)
      BY <1>0, <1>1 DEF Take
    <2>2. CASE rows[Head(queue)] = "none"
      <3> DEFINE j == Started("fetching", "enrich", Head(queue), {})
      <3>1. j \in Job /\ j.stage = "fetching" /\ j.finding \in Findings /\ j.todo = {}
        BY <2>1, StartedType, Names
      <3>2. Becomes(w, j)
        BY <1>1, <2>2 DEF Take
      <3> HIDE DEF j
      <3>3. GoodJob(w, j)
        BY <3>1 DEF GoodJob
      <3> QED
        BY <1>0, <1>1, <2>1, <3>1, <3>2, <3>3 DEF Take, Quiet, RowStep, At
    <2>3. CASE rows[Head(queue)] # "none"
      <3> DEFINE j == IdleJob
      <3>1. j \in Job /\ GoodJob(w, j) /\ j.stage # "enqueued"
        BY IdleIsGood
      <3>2. Becomes(w, j)
        BY <1>1, <2>3 DEF Take
      <3> HIDE DEF j
      <3> QED
        BY <1>0, <1>1, <2>1, <3>1, <3>2 DEF Take, Quiet, RowStep, At
    <2> QED
      BY <2>2, <2>3
  <1>2. CASE WorkerCrash(w)
    <2> DEFINE j == IdleJob
    <2>1. j \in Job /\ GoodJob(w, j) /\ j.stage # "enqueued"
      BY IdleIsGood
    <2>2. Becomes(w, j)
      BY <1>2 DEF WorkerCrash
    <2> HIDE DEF j
    <2>3. ~At(w, "enqueued")
      BY <1>0, EnrichmentAssumption DEF Types, GoodJob, At
    <2> QED
      BY <1>0, <1>2, <2>1, <2>2, <2>3 DEF WorkerCrash, Quiet, RowStep
  <1> QED
    BY <1>1, <1>2

\* Placeholder settles the message that its request holds.
LEMMA PlaceholderShape ==
    ASSUME Types, NEW r \in Requests, Placeholder(r)
    PROVE  Settles(r)
  <1>1. r \in Actors /\ At(r, "enqueued")
    BY DEF Actors, Placeholder
  <1>2. job[r].finding \in Findings
    BY <1>1 DEF Types, GoodJob, At
  <1>3. Insert(r, job[r].finding, "pending") /\ "pending" \in RowStatus \ {"none"}
    BY DEF Placeholder, RowStatus
  <1> QED
    BY <1>1, <1>2, <1>3, InsertShape DEF Placeholder, Settles

\* A commit that fails ends the job, and forgets the message that it holds, if any.
LEMMA FaultShape ==
    ASSUME Types, NEW a \in Actors,
           CommitFails(a) \/ \E c \in Cves : NvdUnstored(a, c)
    PROVE  Quiet(a) \/ (a \in Requests /\ Forgets(a))
  <1>0. /\ job[a] \in Job /\ GoodJob(a, job[a]) /\ queue \in Seq(Findings)
        /\ cache \subseteq Cves /\ faults \in 0 .. MaxFaults /\ MaxFaults \in Nat
    BY EnrichmentAssumption DEF Types
  <1>1. ASSUME faults < MaxFaults, faults' = faults + 1
        PROVE  faults' \in faults .. MaxFaults
    BY <1>0, <1>1
  <1>2. CASE CommitFails(a)
    <2>1. \E j \in Job : GoodJob(a, j) /\ j.stage # "enqueued" /\ Becomes(a, j)
      BY <1>2, EndIsQuiet DEF CommitFails
    <2>2. faults' \in faults .. MaxFaults
      BY <1>1, <1>2, Zenon DEF CommitFails
    <2>3. CASE At(a, "enqueued")
      <3>1. a \in Requests
        BY <1>0, <2>3 DEF GoodJob, At
      <3> QED
        BY <1>2, <2>1, <2>2, <2>3, <3>1 DEF CommitFails, Forgets
    <2>4. CASE ~At(a, "enqueued")
      BY <1>0, <1>2, <2>1, <2>2, <2>4 DEF CommitFails, Quiet, RowStep
    <2> QED
      BY <2>3, <2>4
  <1>3. ASSUME NEW c \in Cves, NvdUnstored(a, c) PROVE Quiet(a)
    <2>1. TRUE \in BOOLEAN /\ FALSE \in BOOLEAN
      OBVIOUS
    <2>2. \E j \in Job : GoodJob(a, j) /\ j.stage # "enqueued" /\ Becomes(a, j)
      BY <1>3, <2>1, AfterCveShape DEF NvdUnstored
    <2>3. faults' \in faults .. MaxFaults
      BY <1>1, <1>3, Zenon DEF NvdUnstored
    <2> QED
      BY <1>0, <1>3, <2>2, <2>3 DEF NvdUnstored, Awaits, Quiet, At, RowStep
  <1> QED
    BY <1>2, <1>3

\* Every step has one of the five shapes.
LEMMA StepShape ==
    ASSUME Types, Next
    PROVE  \/ \E a \in Actors : Quiet(a)
           \/ \E r \in Requests, f \in Findings : Sends(r, f)
           \/ \E r \in Requests : Settles(r)
           \/ \E r \in Requests : Forgets(r)
           \/ ApiCrash
  <1>1. Requests \subseteq Actors /\ Workers \subseteq Actors
    BY DEF Actors
  <1>2. ASSUME NEW r \in Requests, Arrival(r)
        PROVE  (\E a \in Actors : Quiet(a)) \/ \E f \in Findings : Sends(r, f)
    BY <1>1, <1>2, ArrivalShape
  <1>3. ASSUME NEW r \in Requests, Placeholder(r) PROVE Settles(r)
    BY <1>3, PlaceholderShape
  <1>4. ASSUME NEW w \in Workers, Take(w) \/ WorkerCrash(w)
        PROVE  \E a \in Actors : Quiet(a)
    BY <1>1, <1>4, WorkerShape
  <1>5. ASSUME NEW a \in Actors, Work(a) PROVE Quiet(a)
    BY <1>5, WorkShape
  <1>6. ASSUME NEW a \in Actors, CommitFails(a) \/ \E c \in Cves : NvdUnstored(a, c)
        PROVE  Quiet(a) \/ (a \in Requests /\ Forgets(a))
    BY <1>6, FaultShape
  <1> QED
    BY <1>2, <1>3, <1>4, <1>5, <1>6 DEF Next

-----------------------------------------------------------------------------
(* The invariant. *)

LEMMA TypesInit == Init => Types
  <1> SUFFICES ASSUME Init PROVE Types
    OBVIOUS
  <1>1. job \in [Actors -> Job] /\ \A a \in Actors : GoodJob(a, job[a])
    BY IdleIsGood DEF Init
  <1> QED
    BY <1>1, EnrichmentAssumption DEF Init, Types, RowStatus

\* A row is written, or the table stays: it keeps its type, and what it has.
LEMMA RowStepKeeps ==
    ASSUME Types, RowStep
    PROVE  /\ rows' \in [Findings -> RowStatus]
           /\ \A f \in Findings : rows[f] # "none" => rows'[f] # "none"
  BY DEF Types, RowStep, Contract!Write

\* The job of one actor changes.
LEMMA BecomesKeeps ==
    ASSUME Types, NEW a \in Actors, NEW j \in Job, GoodJob(a, j), Becomes(a, j)
    PROVE  /\ job' \in [Actors -> Job]
           /\ \A b \in Actors : GoodJob(b, job'[b])
           /\ job'[a] = j
           /\ \A b \in Actors \ {a} : job'[b] = job[b]
  BY DEF Types, Becomes

LEMMA TypesStep == Types /\ [Next]_vars => Types'
  <1> SUFFICES ASSUME Types, [Next]_vars PROVE Types'
    OBVIOUS
  <1>0. faults \in 0 .. MaxFaults /\ MaxFaults \in Nat
    BY EnrichmentAssumption DEF Types
  <1>1. ASSUME NEW a \in Actors, Quiet(a) PROVE Types'
    <2>1. PICK j \in Job : GoodJob(a, j) /\ Becomes(a, j)
      BY <1>1 DEF Quiet
    <2>2. rows' \in [Findings -> RowStatus]
      BY <1>1, RowStepKeeps DEF Quiet
    <2>3. job' \in [Actors -> Job] /\ \A b \in Actors : GoodJob(b, job'[b])
      BY <2>1, BecomesKeeps
    <2>4. faults' \in 0 .. MaxFaults
      BY <1>0, <1>1 DEF Quiet
    <2> QED
      BY <1>1, <2>2, <2>3, <2>4 DEF Types, Quiet, GoodJob
  <1>2. ASSUME NEW r \in Requests, NEW f \in Findings, Sends(r, f) PROVE Types'
    <2>1. PICK j \in Job : GoodJob(r, j) /\ Becomes(r, j)
      BY <1>2 DEF Sends
    <2>2. job' \in [Actors -> Job] /\ \A b \in Actors : GoodJob(b, job'[b])
      BY <2>1, BecomesKeeps DEF Actors
    <2>3. sent' \in [Findings -> Nat]
      BY <1>2 DEF Sends, Types
    <2> QED
      BY <1>2, <2>2, <2>3 DEF Types, Sends, GoodJob
  <1>3. ASSUME NEW r \in Requests, Settles(r) PROVE Types'
    <2>1. PICK j \in Job : GoodJob(r, j) /\ Becomes(r, j)
      BY <1>3 DEF Settles
    <2>2. job' \in [Actors -> Job] /\ \A b \in Actors : GoodJob(b, job'[b])
      BY <2>1, BecomesKeeps DEF Actors
    <2>3. rows' \in [Findings -> RowStatus]
      BY <1>3, RowStepKeeps DEF Settles
    <2> QED
      BY <1>3, <2>2, <2>3 DEF Types, Settles, GoodJob
  <1>4. CASE ApiCrash
    <2>1. ASSUME NEW a \in Actors PROVE job'[a] \in Job /\ GoodJob(a, job'[a])
      <3>1. job[a] \in Job /\ GoodJob(a, job[a])
        BY DEF Types
      <3>2. CASE job'[a] = job[a]
        BY <3>1, <3>2
      <3>3. CASE job'[a] = [job[a] EXCEPT !.stage = "lost", !.todo = {}]
        <4>1. "lost" \in Stage
          BY Names
        <4>2. job'[a] \in Job
          <5> DEFINE j == [job[a] EXCEPT !.stage = "lost", !.todo = {}]
          <5>1. j \in Job
            BY <3>1, <4>1, ZenonT(60) DEF Job
          <5> QED
            BY <3>3, <5>1
        <4>3. job'[a].stage = "lost"
          BY <3>1, <3>3 DEF Job
        <4>4. job'[a].todo = {}
          BY <3>1, <3>3 DEF Job
        <4> QED
          BY <4>2, <4>3, <4>4 DEF GoodJob
      <3> QED
        BY <1>4, <3>2, <3>3 DEF ApiCrash
    <2>2. job' \in [Actors -> Job]
      BY <1>4, <2>1 DEF ApiCrash
    <2>3. faults' \in 0 .. MaxFaults
      <3>1. faults < MaxFaults /\ faults' = faults + 1
        BY <1>4, Zenon DEF ApiCrash
      <3> QED
        BY <1>0, <3>1
    <2>4. forgotten' \in [Findings -> Nat]
      <3>1. forgotten \in [Findings -> Nat]
        BY DEF Types
      <3>2. \A f \in Findings : forgotten[f] + (IF Pending(f) THEN 1 ELSE 0) \in Nat
        BY <3>1
      <3>3. forgotten' = [f \in Findings |-> forgotten[f] + IF Pending(f) THEN 1 ELSE 0]
        BY <1>4 DEF ApiCrash
      <3> QED
        BY <3>2, <3>3
    <2> QED
      BY <1>4, <2>1, <2>2, <2>3, <2>4 DEF Types, ApiCrash, GoodJob
  <1>5. CASE UNCHANGED vars
    BY <1>5 DEF vars, Types, GoodJob
  <1>6. ASSUME NEW r \in Requests, Forgets(r) PROVE Types'
    <2>1. PICK j \in Job : GoodJob(r, j) /\ Becomes(r, j)
      BY <1>6 DEF Forgets
    <2>2. job' \in [Actors -> Job] /\ \A b \in Actors : GoodJob(b, job'[b])
      BY <2>1, BecomesKeeps DEF Actors
    <2>3. forgotten' \in [Findings -> Nat]
      <3>1. forgotten \in [Findings -> Nat] /\ \A f \in Findings : forgotten[f] \in Nat
        BY DEF Types
      <3>2. PICK g : forgotten' = [forgotten EXCEPT ![g] = @ + 1]
        BY <1>6 DEF Forgets
      <3>3. /\ forgotten' = [f \in Findings |-> forgotten'[f]]
            /\ \A f \in Findings : forgotten'[f] = IF f = g THEN forgotten[f] + 1
                                                 ELSE forgotten[f]
        BY <3>1, <3>2
      <3>4. \A f \in Findings : forgotten'[f] \in Nat
        BY <3>1, <3>3
      <3> QED
        BY <3>3, <3>4
    <2>4. faults' \in 0 .. MaxFaults
      BY <1>0, <1>6 DEF Forgets
    <2> QED
      BY <1>6, <2>2, <2>3, <2>4 DEF Types, Forgets, GoodJob
  <1> QED
    BY <1>1, <1>2, <1>3, <1>4, <1>5, <1>6, StepShape

LEMMA AccountedInit == Init => \A f \in Findings : Accounted(f)
  BY EnrichmentAssumption DEF Init, Accounted

\* A finding that is kept stays kept while its holder does not settle.
LEMMA QuietKeeps ==
    ASSUME Types, NEW a \in Actors, Quiet(a), NEW f \in Findings, Kept(f)
    PROVE  Kept(f)'
  <1>1. PICK j \in Job : GoodJob(a, j) /\ Becomes(a, j)
    BY DEF Quiet
  <1>2. CASE rows[f] # "none"
    BY <1>2, RowStepKeeps DEF Quiet, Kept
  <1>3. ASSUME NEW r \in Requests, Holds(r, f) PROVE Kept(f)'
    <2>1. r \in Actors \ {a}
      BY <1>3 DEF Holds, Quiet, At, Actors
    <2>2. job'[r] = job[r]
      BY <1>1, <2>1, BecomesKeeps
    <2> QED
      BY <1>3, <2>2 DEF Holds, Kept, At
  <1> QED
    BY <1>2, <1>3 DEF Kept

LEMMA AccountedStep ==
    ASSUME Types, [Next]_vars, NEW f \in Findings, Accounted(f)
    PROVE  Accounted(f)'
  <1>0. /\ sent \in [Findings -> Nat] /\ sent[f] \in Nat
        /\ forgotten \in [Findings -> Nat] /\ forgotten[f] \in Nat
    BY DEF Types
  <1>1. ASSUME NEW a \in Actors, Quiet(a) PROVE Accounted(f)'
    <2>1. Kept(f) => Kept(f)'
      BY <1>1, QuietKeeps
    <2>2. sent'[f] = sent[f] /\ forgotten'[f] = forgotten[f]
      BY <1>1 DEF Quiet
    <2> QED
      BY <1>0, <2>1, <2>2 DEF Accounted
  <1>2. ASSUME NEW r \in Requests, NEW g \in Findings, Sends(r, g) PROVE Accounted(f)'
    <2>1. PICK j \in Job : GoodJob(r, j) /\ Becomes(r, j) /\ j.stage = "enqueued"
                            /\ j.finding = g
      BY <1>2 DEF Sends
    <2>2. /\ job'[r] = j
          /\ \A b \in Actors \ {r} : job'[b] = job[b]
      BY <2>1, BecomesKeeps DEF Actors
    <2>3. (\A q \in Requests : ~At(q, "enqueued")) /\ rows[g] = "none" /\ rows' = rows
          /\ forgotten' = forgotten
          /\ sent' = [sent EXCEPT ![g] = @ + 1]
      BY <1>2 DEF Sends
    <2>4. CASE f = g
      <3>1. Kept(f)'
        BY <2>1, <2>2, <2>4 DEF Kept, Holds, At
      <3>2. ~Kept(f)
        BY <2>3, <2>4 DEF Kept, Holds
      <3> QED
        BY <1>0, <2>3, <2>4, <3>1, <3>2 DEF Accounted
    <2>5. CASE f # g
      <3>1. Kept(f) => Kept(f)'
        BY <2>2, <2>3 DEF Kept, Holds, At, Actors
      <3> QED
        BY <1>0, <2>3, <2>5, <3>1 DEF Accounted
    <2> QED
      BY <2>4, <2>5
  <1>3. ASSUME NEW r \in Requests, Settles(r) PROVE Accounted(f)'
    <2>1. PICK j \in Job : GoodJob(r, j) /\ Becomes(r, j)
      BY <1>3 DEF Settles
    <2>2. \A b \in Actors \ {r} : job'[b] = job[b]
      BY <2>1, BecomesKeeps DEF Actors
    <2>3. rows[f] # "none" => rows'[f] # "none"
      BY <1>3, RowStepKeeps DEF Settles
    <2>4. Kept(f) => Kept(f)'
      <3>1. CASE Holds(r, f)
        BY <1>3, <3>1 DEF Settles, Holds, Kept
      <3>2. ASSUME NEW q \in Requests \ {r}, Holds(q, f) PROVE Kept(f)'
        BY <2>2, <3>2 DEF Holds, Kept, At, Actors
      <3> QED
        BY <2>3, <3>1, <3>2 DEF Kept
    <2> QED
      BY <1>3, <2>4 DEF Settles, Accounted
  <1>4. CASE ApiCrash
    <2>1. sent' = sent /\ rows' = rows
          /\ forgotten'[f] = forgotten[f] + IF Pending(f) THEN 1 ELSE 0
      BY <1>4 DEF ApiCrash
    <2>2. CASE Pending(f)
      BY <1>0, <2>1, <2>2 DEF Accounted
    <2>3. CASE ~Pending(f)
      <3>1. Kept(f) => Kept(f)'
        BY <2>1, <2>3 DEF Kept, Holds, Pending
      <3> QED
        BY <1>0, <2>1, <2>3, <3>1 DEF Accounted
    <2> QED
      BY <2>2, <2>3
  <1>5. CASE UNCHANGED vars
    BY <1>5 DEF vars, Accounted, Kept, Holds, At
  <1>6. ASSUME NEW r \in Requests, Forgets(r) PROVE Accounted(f)'
    <2>1. PICK j \in Job : GoodJob(r, j) /\ Becomes(r, j)
      BY <1>6 DEF Forgets
    <2>2. \A b \in Actors \ {r} : job'[b] = job[b]
      BY <2>1, BecomesKeeps DEF Actors
    <2>3. /\ At(r, "enqueued") /\ rows' = rows /\ sent' = sent
          /\ forgotten' = [forgotten EXCEPT ![job[r].finding] = @ + 1]
      BY <1>6 DEF Forgets
    <2>4. CASE job[r].finding = f
      BY <1>0, <2>3, <2>4 DEF Accounted
    <2>5. CASE job[r].finding # f
      <3>1. Kept(f) => Kept(f)'
        <4>1. ASSUME NEW q \in Requests, Holds(q, f) PROVE Holds(q, f)'
          BY <2>2, <2>5, <4>1 DEF Holds, At, Actors
        <4> QED
          BY <2>3, <4>1 DEF Kept
      <3> QED
        BY <1>0, <2>3, <2>5, <3>1 DEF Accounted
    <2> QED
      BY <2>4, <2>5
  <1> QED
    BY <1>1, <1>2, <1>3, <1>4, <1>5, <1>6, StepShape

\* The inductive invariant holds in every reachable state.
THEOREM Invariant == Spec => []IInv
  <1>1. Init => IInv
    BY TypesInit, AccountedInit DEF IInv
  <1>2. IInv /\ [Next]_vars => IInv'
    BY TypesStep, AccountedStep DEF IInv
  <1> QED
    BY <1>1, <1>2, PTL DEF Spec

\* The rows, the queue and every job have their types: a job that looks up CVEs
\* has one left to look up, so none waits for nothing.
THEOREM TypeCorrect == Spec => []TypeOK
  <1>1. IInv => TypeOK
    BY DEF IInv, Types, TypeOK, GoodJob, At
  <1> QED
    BY <1>1, Invariant, PTL

\* However many clients ask for a finding at the same time, it is queued once, and
\* what was queued leaves a row: except for each placeholder that a failed commit
\* or a crash kept out.
THEOREM QueueAndTableAgree == Spec => []QueueMatchesTable
  <1>1. IInv => QueueMatchesTable
    <2>1. ASSUME IInv, NEW f \in Findings, sent[f] > forgotten[f] PROVE Kept(f)
      BY <2>1 DEF IInv, Accounted, Types
    <2> QED
      BY <2>1 DEF IInv, Accounted, Kept, Holds, Pending, QueueMatchesTable, QueuedOnce,
                  QueuedLeavesRow
  <1> QED
    BY <1>1, Invariant, PTL

\* The table implements WriteOnce: every step of the API, the workers and their
\* faults writes one row where there was none, or none at all.
THEOREM RowsImplementWriteOnce == Spec => RowsAreWrittenOnce
  <1>1. Init => Contract!Init
    BY DEF Init, Contract!Init
  <1>2. IInv /\ [Next]_vars => [Contract!Next]_rows
    <2> SUFFICES ASSUME IInv, Next PROVE RowStep
      BY DEF vars, RowStep, Contract!Next
    <2>1. Types
      BY DEF IInv
    <2> QED
      BY <2>1, StepShape DEF Quiet, Sends, Settles, Forgets, ApiCrash, RowStep
  <1> QED
    BY <1>1, <1>2, Invariant, PTL DEF Spec, RowsAreWrittenOnce, Contract!Spec

===============================================================================
