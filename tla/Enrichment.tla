------------------------------ MODULE Enrichment -----------------------------
(***************************************************************************)
(* Finding enrichment and the CVE cache of the threat-intel service        *)
(* (_archive/planned-services/threat-intel-service): the API, which is one *)
(* asyncio event loop, the Celery queue in Redis, the worker processes and *)
(* the two tables they share.                                              *)
(*                                                                         *)
(* A job is one execution of a handler or of a task, with a session of its *)
(* own.  Handlers of the API interleave only where they await; workers are *)
(* other processes and run between any two statements.  add() and commit() *)
(* of one row are one step: the unique keys make them so.                  *)
(***************************************************************************)
EXTENDS Integers, Sequences

CONSTANTS
    Requests,       \* requests to the API, each sent once
    Workers,        \* Celery worker processes
    Findings,       \* (source_service, source_finding_id)
    Cves,
    CvesOf,         \* extract_cve_ids of a finding's data
    NoFinding,
    MaxFaults       \* bound: crashes, and commits that fail for no reason of ours

ASSUME EnrichmentAssumption ==
    /\ Requests \cap Workers = {}
    /\ CvesOf \in [Findings -> SUBSET Cves]
    /\ NoFinding \notin Findings
    /\ MaxFaults \in Nat

VARIABLES
    rows,           \* finding_enrichments: its status, by finding
    cache,          \* cve_entries: the CVEs that have a row
    queue,          \* the Redis list of enrich_finding tasks
    job,            \* the job of every request and worker
    sent,           \* history: messages sent, by finding
    forgotten,      \* history: those whose placeholder a fault kept out
    faults          \* faults so far

vars == <<rows, cache, queue, job, sent, forgotten, faults>>

Actors == Requests \cup Workers

RowStatus == {"none", "pending", "not_found", "completed"}

\* fetching: awaits the finding; cves: awaits NVD; storing: past the last
\* await of enrich_finding; enqueued: past delay(), before the placeholder.
Stage == {"idle", "fetching", "cves", "storing", "enqueued", "done", "lost"}
Kind  == {"none", "enrich", "later", "read", "cve", "batch"}

Job == [stage : Stage, kind : Kind, finding : Findings \cup {NoFinding},
        todo : SUBSET Cves, broken : BOOLEAN, status : {0, 200, 404, 500}]

\* A job that works on a finding, or looks up CVEs; the session is new.
Started(stage, kind, f, todo) ==
    [stage |-> stage, kind |-> kind, finding |-> f, todo |-> todo, broken |-> FALSE,
     status |-> 0]

\* A request that is answered at once.
Answered(kind, f, status) ==
    [stage |-> "done", kind |-> kind, finding |-> f, todo |-> {}, broken |-> FALSE,
     status |-> status]

IdleJob == Started("idle", "none", NoFinding, {})

At(a, stage) == job[a].stage = stage

\* The response models declare the timestamps of a row as str, its columns are
\* DateTime: pydantic refuses the value and the handler fails.
TimestampField  == "str"
TimestampColumn == "datetime"
ModelValidate   == IF TimestampField = TimestampColumn THEN 200 ELSE 500

Becomes(a, j) == job' = [job EXCEPT ![a] = j]

\* A task returns or raises; a handler answers.
End(a, status) ==
    Becomes(a, IF a \in Workers THEN IdleJob
               ELSE [job[a] EXCEPT !.stage = "done", !.status = status, !.todo = {}])

\* Faulty variant: the handlers run in a thread pool.
LoopFreeAlways(a) == TRUE

\* No other handler of the API is between two awaits.
LoopFree(a) ==
    a \in Requests =>
        \A r \in Requests \ {a} : job[r].stage \notin {"enqueued", "storing"}

Init ==
    /\ rows = [f \in Findings |-> "none"]
    /\ cache = {}
    /\ queue = <<>>
    /\ job = [a \in Actors |-> IdleJob]
    /\ sent = [f \in Findings |-> 0]
    /\ forgotten = [f \in Findings |-> 0]
    /\ faults = 0

\* Faulty variant: the row replaces the one that is there.
InsertUpsert(a, f, status) ==
    /\ rows' = [rows EXCEPT ![f] = status]
    /\ End(a, ModelValidate)

\* db.add(), db.commit() of a finding's row and what the handler then does with
\* it.  The unique key refuses a second row and the exception is not caught.
Insert(a, f, status) ==
    IF rows[f] = "none"
    THEN rows' = [rows EXCEPT ![f] = status] /\ End(a, ModelValidate)
    ELSE End(a, 500) /\ UNCHANGED rows

\* create_enrichment with sync=True.
CreateSync(r, f) ==
    /\ LoopFree(r) /\ At(r, "idle")
    /\ Becomes(r, IF rows[f] = "none"
                  THEN Started("fetching", "enrich", f, {})
                  ELSE Answered("enrich", f, ModelValidate))
    /\ UNCHANGED <<rows, cache, queue, sent, forgotten, faults>>

\* create_enrichment with sync=False, up to delay().
CreateAsync(r, f) ==
    /\ LoopFree(r) /\ At(r, "idle")
    /\ IF rows[f] = "none"
       THEN /\ queue' = Append(queue, f)
            /\ sent' = [sent EXCEPT ![f] = @ + 1]
            /\ Becomes(r, Started("enqueued", "later", f, {}))
       ELSE /\ Becomes(r, Answered("later", f, ModelValidate))
            /\ UNCHANGED <<queue, sent>>
    /\ UNCHANGED <<rows, cache, forgotten, faults>>

\* delay() raises: Redis is unreachable and has not taken the message.
QueueDown(r, f) ==
    /\ LoopFree(r) /\ At(r, "idle") /\ rows[f] = "none"
    /\ Becomes(r, Answered("later", f, 500))
    /\ UNCHANGED <<rows, cache, queue, sent, forgotten, faults>>

\* The placeholder record of create_enrichment.
Placeholder(r) ==
    /\ At(r, "enqueued")
    /\ Insert(r, job[r].finding, "pending")
    /\ UNCHANGED <<cache, queue, sent, forgotten, faults>>

\* get_enrichment
Read(r, f) ==
    /\ LoopFree(r) /\ At(r, "idle")
    /\ Becomes(r, Answered("read", f, IF rows[f] = "none" THEN 404 ELSE ModelValidate))
    /\ UNCHANGED <<rows, cache, queue, sent, forgotten, faults>>

\* get_cve, up to its await.
GetCve(r, c) ==
    /\ LoopFree(r) /\ At(r, "idle")
    /\ Becomes(r, IF c \in cache
                  THEN Answered("cve", NoFinding, ModelValidate)
                  ELSE Started("cves", "cve", NoFinding, {c}))
    /\ UNCHANGED <<rows, cache, queue, sent, forgotten, faults>>

\* A batch is looked up in the order of the request, any order will do.
First(cves) == CHOOSE c \in cves : TRUE

\* batch_lookup_cves, up to its first await: a cached CVE that comes first ends it
\* at once, since its response does not validate.
BatchLookup(r, cves) ==
    /\ LoopFree(r) /\ At(r, "idle")
    /\ Becomes(r, IF First(cves) \in cache
                  THEN Answered("batch", NoFinding, ModelValidate)
                  ELSE Started("cves", "batch", NoFinding, cves))
    /\ UNCHANGED <<rows, cache, queue, sent, forgotten, faults>>

\* A worker takes a message, which is acknowledged before the task runs, and
\* enrich_finding returns at once if the finding has a row.
Take(w) ==
    /\ At(w, "idle") /\ queue # <<>>
    /\ queue' = Tail(queue)
    /\ LET f == Head(queue)
       IN  Becomes(w, IF rows[f] = "none" THEN Started("fetching", "enrich", f, {})
                      ELSE IdleJob)
    /\ UNCHANGED <<rows, cache, sent, forgotten, faults>>

\* fetch_finding_from_service returns the finding.
FindingArrives(a) ==
    LET cves == CvesOf[job[a].finding]
    IN  /\ LoopFree(a) /\ At(a, "fetching")
        /\ Becomes(a, [job[a] EXCEPT !.stage = IF cves = {} THEN "storing" ELSE "cves",
                                     !.todo = cves])
        /\ UNCHANGED <<rows, cache, queue, sent, forgotten, faults>>

\* It returns None: an unknown service, a timeout, any HTTP error.
FindingMissing(a) ==
    /\ LoopFree(a) /\ At(a, "fetching")
    /\ Insert(a, job[a].finding, "not_found")
    /\ UNCHANGED <<cache, queue, sent, forgotten, faults>>

\* It raises, or the extraction from its data does: an answer that is not JSON,
\* a field that is not a string.  So does the commit of a not_found row.
FindingUnreadable(a) ==
    /\ LoopFree(a) /\ At(a, "fetching")
    /\ End(a, 500)
    /\ UNCHANGED <<rows, cache, queue, sent, forgotten, faults>>

\* Faulty variant: the loop does not notice that it was the last CVE.
AfterCveStuck(a, c, found, broken) ==
    LET left == job[a].todo \ {c}
    IN  IF job[a].kind = "cve"
        THEN End(a, IF found THEN ModelValidate ELSE 404)
        ELSE Becomes(a, [job[a] EXCEPT !.todo = left, !.broken = broken])

\* What a batch does after a CVE: the first one it has fails the validation and
\* ends it, and so does the query of the next one on a broken session.
BatchGoesOn(r, left, found, broken) ==
    IF found THEN End(r, ModelValidate)
    ELSE IF left = {} THEN End(r, 200)
    ELSE IF broken THEN End(r, 500)
    ELSE IF First(left) \in cache THEN End(r, ModelValidate)
    ELSE Becomes(r, [job[r] EXCEPT !.todo = left])

\* fetch_cve_from_nvd returned: get_cve answers, the other two go on.
AfterCve(a, c, found, broken) ==
    LET left == job[a].todo \ {c}
    IN  CASE job[a].kind = "cve" -> End(a, IF found THEN ModelValidate ELSE 404)
          [] job[a].kind = "batch" -> BatchGoesOn(a, left, found, broken)
          [] OTHER -> Becomes(a, [job[a] EXCEPT !.todo = left, !.broken = broken,
                                      !.stage = IF left = {} THEN "storing" ELSE "cves"])

\* The CVE that a job awaits; enrich_finding takes those of a set, in any order.
Awaits(a, c) ==
    /\ At(a, "cves") /\ c \in job[a].todo
    /\ job[a].kind = "batch" => c = First(job[a].todo)

\* NVD has the CVE: its row is inserted.  A second row of the same CVE is
\* refused; the exception is logged and dropped without a rollback, so every
\* later statement of this session fails as well.
NvdKnows(a, c) ==
    LET inserted == ~job[a].broken /\ c \notin cache
    IN  /\ LoopFree(a) /\ Awaits(a, c)
        /\ cache' = IF inserted THEN cache \cup {c} ELSE cache
        /\ AfterCve(a, c, inserted, ~inserted)
        /\ UNCHANGED <<rows, queue, sent, forgotten, faults>>

\* A fault of the database keeps the row of the CVE out, with the same effect on
\* the session.
NvdUnstored(a, c) ==
    /\ LoopFree(a) /\ Awaits(a, c) /\ faults < MaxFaults
    /\ AfterCve(a, c, FALSE, TRUE)
    /\ faults' = faults + 1
    /\ UNCHANGED <<rows, cache, queue, sent, forgotten>>

\* NVD does not have it, is unreachable or too slow, or answers nonsense.
NvdFails(a, c) ==
    /\ LoopFree(a) /\ Awaits(a, c)
    /\ AfterCve(a, c, FALSE, job[a].broken)
    /\ UNCHANGED <<rows, cache, queue, sent, forgotten, faults>>

\* Faulty variant: a refused insert is tried again.
StoreRetrying(a) ==
    /\ At(a, "storing")
    /\ rows[job[a].finding] = "none"
    /\ IF job[a].broken
       THEN End(a, 500) /\ UNCHANGED rows
       ELSE Insert(a, job[a].finding, "completed")
    /\ UNCHANGED <<cache, queue, sent, forgotten, faults>>

\* The rest of enrich_finding: the queries and the insert raise on a session
\* that a dropped exception left unusable.
Store(a) ==
    /\ At(a, "storing")
    /\ IF job[a].broken
       THEN End(a, 500) /\ UNCHANGED rows
       ELSE Insert(a, job[a].finding, "completed")
    /\ UNCHANGED <<cache, queue, sent, forgotten, faults>>

\* A request of the finding is between delay() and the placeholder.
Pending(f) == \E r \in Requests : At(r, "enqueued") /\ job[r].finding = f

\* The commit of a row fails for another reason than its key: the database is gone,
\* or the source_service of the request is longer than its column.
CommitFails(a) ==
    /\ At(a, "enqueued") \/ At(a, "storing")
    /\ faults < MaxFaults
    /\ End(a, 500)
    /\ faults' = faults + 1
    /\ forgotten' = IF At(a, "enqueued") THEN [forgotten EXCEPT ![job[a].finding] = @ + 1]
                    ELSE forgotten
    /\ UNCHANGED <<rows, cache, queue, sent>>

\* The process dies with its session; the message was acknowledged.
WorkerCrash(w) ==
    /\ faults < MaxFaults /\ ~At(w, "idle")
    /\ Becomes(w, IdleJob)
    /\ faults' = faults + 1
    /\ UNCHANGED <<rows, cache, queue, sent, forgotten>>

\* All requests in flight are lost.
ApiCrash ==
    /\ faults < MaxFaults
    /\ job' = [a \in Actors |->
                  IF a \in Requests /\ job[a].stage \notin {"idle", "done", "lost"}
                  THEN [job[a] EXCEPT !.stage = "lost", !.todo = {}] ELSE job[a]]
    /\ faults' = faults + 1
    /\ forgotten' = [f \in Findings |-> forgotten[f] + IF Pending(f) THEN 1 ELSE 0]
    /\ UNCHANGED <<rows, cache, queue, sent>>

Arrival(r) ==
    \/ \E f \in Findings : CreateSync(r, f) \/ CreateAsync(r, f) \/ QueueDown(r, f)
                           \/ Read(r, f)
    \/ \E c \in Cves : GetCve(r, c)
    \/ \E cves \in (SUBSET Cves) \ {{}} : BatchLookup(r, cves)

\* What an actor does with the job it has.
Work(a) ==
    \/ FindingArrives(a) \/ FindingMissing(a) \/ FindingUnreadable(a)
    \/ \E c \in Cves : NvdKnows(a, c) \/ NvdFails(a, c)
    \/ Store(a)

Next ==
    \/ \E r \in Requests : Arrival(r) \/ Placeholder(r)
    \/ \E w \in Workers : Take(w) \/ WorkerCrash(w)
    \/ \E a \in Actors : Work(a) \/ CommitFails(a) \/ \E c \in Cves : NvdUnstored(a, c)
    \/ ApiCrash

\* httpx gives every call a timeout, the loop runs what is ready and the
\* workers poll the queue.
Fairness ==
    /\ \A a \in Actors : WF_vars(Work(a))
    /\ \A r \in Requests : WF_vars(Placeholder(r))
    /\ \A w \in Workers : WF_vars(Take(w))

Spec == Init /\ [][Next]_vars /\ Fairness

(***************************************************************************)
(* Properties                                                              *)
(***************************************************************************)
TypeOK ==
    /\ rows \in [Findings -> RowStatus]
    /\ cache \subseteq Cves
    /\ queue \in Seq(Findings)
    /\ job \in [Actors -> Job]
    /\ \A a \in Actors : At(a, "cves") <=> job[a].todo # {}
    /\ sent \in [Findings -> Nat]
    /\ forgotten \in [Findings -> Nat]
    /\ faults \in 0 .. MaxFaults

Contract == INSTANCE WriteOnce WITH Keys <- Findings, Values <- RowStatus \ {"none"},
                                    Absent <- "none"

\* Whatever a reader was told of a finding stays true: no placeholder replaces
\* the result of a faster worker, no result the one of another.
RowsAreWrittenOnce == Contract!Spec

\* A finding is queued once, however many clients ask for it at the same time:
\* no await separates the check from the placeholder.  Only a placeholder that a
\* fault kept out lets the next request queue it again.
QueuedOnce == \A f \in Findings : sent[f] <= 1 + forgotten[f]

\* A finding that was queued, and not forgotten, has a row, if only a pending one,
\* as soon as the request is over.
QueuedLeavesRow ==
    \A f \in Findings : sent[f] > forgotten[f] => rows[f] # "none" \/ Pending(f)

\* The queue and the table go together: one message for a finding, and a row that
\* keeps later requests from sending another, save for each placeholder whose
\* commit failed or that a crash prevented.
QueueMatchesTable == QueuedOnce /\ QueuedLeavesRow

\* Every request and every task ends, and the queue drains.
WorkDrains ==
    /\ <>[](queue = <<>>)
    /\ \A a \in Actors : <>[](job[a].stage \in {"idle", "done", "lost"})

\* enrichment.py:53, "If sync=False, enrichment is queued as background task".
\* The placeholder makes the worker believe that the finding is done.
PendingIsCompleted ==
    \A f \in Findings :
        rows[f] = "pending" ~> rows[f] \in {"not_found", "completed"}

\* services/enrichment.py:29, "5. Store enrichment data": the last step of a job
\* leaves the finding with a row.  A CVE that is already cached prevents it.
EnrichmentIsStored ==
    [][ \A a \in Actors : Store(a) => rows'[job[a].finding] # "none" ]_vars

=============================================================================
