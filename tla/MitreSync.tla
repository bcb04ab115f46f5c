------------------------------ MODULE MitreSync ------------------------------
(***************************************************************************)
(* The weekly synchronisation of the MITRE ATT&CK techniques into the      *)
(* threat-intel database (services/mitre_sync.py, run by the Celery task   *)
(* of workers/tasks.py).                                                   *)
(*                                                                         *)
(* Beat sends one message a week, whether or not the last one was taken;   *)
(* each worker process runs what it takes in one transaction: a download,  *)
(* a SELECT per technique of the file, and a commit of everything that     *)
(* differs from what was read.  PostgreSQL shows to every SELECT what is   *)
(* committed by then, and a commit writes only the columns that the        *)
(* session changed.                                                        *)
(***************************************************************************)
EXTENDS Integers, Sequences

CONSTANTS
    Techniques,     \* technique ids
    Columns, Values,
    Releases,       \* the files that MITRE publishes, in order
    Workers,        \* Celery worker processes
    Absent, Unread,
    MaxSends,       \* bound: messages of beat
    MaxCrashes      \* bound: crashes of a worker

Row == [Columns -> Values]

\* A release is a function from the techniques it lists to their data: the file
\* lists a technique at most once.
File(r)   == Releases[r]
Listed(r) == DOMAIN File(r)
Published == 1 .. Len(Releases)

ASSUME MitreSyncAssumption ==
    /\ Len(Releases) \in Nat \ {0}
    /\ \A r \in Published : Listed(r) \subseteq Techniques /\ File(r) \in [Listed(r) -> Row]
    /\ Absent \notin Row /\ Unread \notin Row /\ Absent # Unread
    /\ MaxSends \in Nat /\ MaxCrashes \in Nat

VARIABLES
    table,          \* mitre_attack_techniques, by technique_id
    queue,          \* messages of beat that no worker has taken
    task,           \* what each worker process is doing
    latest,         \* the release that MITRE serves
    stored,         \* history: the release of the last successful sync
    overtaken,      \* history: workers whose sync was overtaken, by the commit
                    \* of another release since their download
    mixed,          \* history: an overtaken sync has been committed
    sends, crashes

vars == <<table, queue, task, latest, stored, overtaken, mixed, sends, crashes>>

\* release: the file that was downloaded; seen: the rows as they were read.
Task == [stage : {"idle", "downloading", "reading"}, release : Published \cup {0},
         seen : [Techniques -> Row \cup {Absent, Unread}]]

Nothing == [t \in Techniques |-> Unread]

IdleTask == [stage |-> "idle", release |-> 0, seen |-> Nothing]

Becomes(w, x) == task' = [task EXCEPT ![w] = x]

Init ==
    /\ table = [t \in Techniques |-> Absent]
    /\ queue = 0
    /\ task = [w \in Workers |-> IdleTask]
    /\ latest = 1
    /\ stored = 0
    /\ overtaken = {}
    /\ mixed = FALSE
    /\ sends = 0
    /\ crashes = 0

\* MITRE publishes the next release.
Publish ==
    /\ latest + 1 \in Published
    /\ latest' = latest + 1
    /\ UNCHANGED <<table, queue, task, stored, overtaken, mixed, sends, crashes>>

\* beat_schedule: another week has passed.
Send ==
    /\ sends < MaxSends
    /\ sends' = sends + 1
    /\ queue' = queue + 1
    /\ UNCHANGED <<table, task, latest, stored, overtaken, mixed, crashes>>

\* The worker takes a message, acknowledged before the task runs.
Take(w) ==
    /\ task[w].stage = "idle" /\ queue > 0
    /\ queue' = queue - 1
    /\ Becomes(w, [IdleTask EXCEPT !.stage = "downloading"])
    /\ UNCHANGED <<table, latest, stored, overtaken, mixed, sends, crashes>>

\* The file of the newest release.
Served == {latest}

\* The file arrives.
Download(w) ==
    /\ task[w].stage = "downloading"
    /\ \E r \in Served : Becomes(w, [IdleTask EXCEPT !.stage = "reading", !.release = r])
    /\ overtaken' = overtaken \ {w}
    /\ UNCHANGED <<table, queue, latest, stored, mixed, sends, crashes>>

\* The SELECT of one technique of the file.
Select(w, t) ==
    /\ task[w].stage = "reading" /\ task[w].seen[t] = Unread
    /\ t \in Listed(task[w].release)
    /\ Becomes(w, [task[w] EXCEPT !.seen[t] = table[t]])
    /\ UNCHANGED <<table, queue, latest, stored, overtaken, mixed, sends, crashes>>

AllRead(w) ==
    /\ task[w].stage = "reading"
    /\ \A t \in Listed(task[w].release) : task[w].seen[t] # Unread

\* Faulty variants: a sync replaces the table; a row that is there is left as it
\* is.
WrittenReplacing(w, t) ==
    IF t \in Listed(task[w].release) THEN File(task[w].release)[t] ELSE Absent

WrittenNewOnly(w, t) ==
    IF table[t] = Absent /\ t \in Listed(task[w].release)
    THEN File(task[w].release)[t] ELSE table[t]

\* What the commit makes of a row: inserted when the SELECT found none, else
\* the columns that differ from what the SELECT found are overwritten.
Written(w, t) ==
    LET seen == task[w].seen[t]
        file == File(task[w].release)
    IN  IF seen = Unread THEN table[t]
        ELSE IF seen = Absent THEN file[t]
        ELSE [c \in Columns |-> IF seen[c] = file[t][c] THEN table[t][c] ELSE file[t][c]]

\* technique_id is unique: a row that was absent must still be.
Unique(w) ==
    \A t \in Techniques : task[w].seen[t] = Absent => table[t] = Absent

\* Faulty variant: a commit for every technique.
CommitEach(w) ==
    /\ task[w].stage = "reading"
    /\ \E t \in Techniques :
        /\ task[w].seen[t] # Unread
        /\ task[w].seen[t] = Absent => table[t] = Absent
        /\ table' = [table EXCEPT ![t] = Written(w, t)]
    /\ UNCHANGED <<queue, task, latest, stored, overtaken, mixed, sends, crashes>>

Commit(w) ==
    /\ AllRead(w) /\ Unique(w)
    /\ table' = [t \in Techniques |-> Written(w, t)]
    /\ stored' = task[w].release
    /\ overtaken' = overtaken \cup {v \in Workers : task[v].release \notin {0, task[w].release}}
    /\ mixed' = (mixed \/ w \in overtaken)
    /\ Becomes(w, IdleTask)
    /\ UNCHANGED <<queue, latest, sends, crashes>>

\* Faulty variant: a sync that fails is tried again at once, for ever.
FailRetrying(w) ==
    /\ task[w].stage # "idle"
    /\ Becomes(w, [IdleTask EXCEPT !.stage = "downloading"])
    /\ UNCHANGED <<table, queue, latest, stored, overtaken, mixed, sends, crashes>>

\* Faulty variant: what was downloaded is kept for the next sync.
FailKeeping(w) ==
    /\ task[w].stage # "idle"
    /\ Becomes(w, [task[w] EXCEPT !.stage = "idle"])
    /\ UNCHANGED <<table, queue, latest, stored, overtaken, mixed, sends, crashes>>

\* An HTTP error or a timeout, a file that is not the JSON it should be, a
\* database error, the unique key: everything is rolled back, the task reports
\* that it has synced 0 techniques, with success.
Fail(w) ==
    /\ task[w].stage # "idle"
    /\ Becomes(w, IdleTask)
    /\ UNCHANGED <<table, queue, latest, stored, overtaken, mixed, sends, crashes>>

\* The worker process dies; PostgreSQL rolls back and the message is gone.
WorkerCrash(w) ==
    /\ crashes < MaxCrashes /\ task[w].stage # "idle"
    /\ Becomes(w, IdleTask)
    /\ crashes' = crashes + 1
    /\ UNCHANGED <<table, queue, latest, stored, overtaken, mixed, sends>>

Work(w) == Download(w) \/ (\E t \in Techniques : Select(w, t)) \/ Commit(w) \/ Fail(w)

Next ==
    \/ Publish \/ Send
    \/ \E w \in Workers : Take(w) \/ Work(w) \/ WorkerCrash(w)

\* The workers poll Redis; a timeout of 60 seconds bounds the download, the
\* file bounds the loop.
Fairness == \A w \in Workers : WF_vars(Take(w)) /\ WF_vars(Work(w))

Spec == Init /\ [][Next]_vars /\ Fairness

(***************************************************************************)
(* Properties                                                              *)
(***************************************************************************)
TypeOK ==
    /\ table \in [Techniques -> Row \cup {Absent}]
    /\ queue \in 0 .. MaxSends
    /\ task \in [Workers -> Task]
    /\ \A w \in Workers : (task[w].release = 0) <=> (task[w].stage # "reading")
    /\ latest \in Published
    /\ stored \in 0 .. latest
    /\ overtaken \subseteq Workers
    /\ mixed \in BOOLEAN
    /\ sends \in 0 .. MaxSends
    /\ crashes \in 0 .. MaxCrashes

Present == {t \in Techniques : table[t] # Absent}

\* All or nothing: whatever fails, dies or overlaps, the techniques in the table
\* are those of some releases, none of them loaded in part.
WholeReleases ==
    \E S \in SUBSET Published : Present = UNION {Listed(r) : r \in S}

\* As long as no overtaken sync was committed, the table is what the last sync
\* wants it to be, and a retired technique is as some release described it.
LastSyncWins ==
    ~mixed =>
        /\ stored > 0 => \A t \in Listed(stored) : table[t] = File(stored)[t]
        /\ \A t \in Present : \E r \in Published : t \in Listed(r) /\ table[t] = File(r)[t]

\* Rows that two releases were mixed in are healed by the next sync that is not
\* overtaken, also when it overlaps a sync of the same release.
SyncHeals ==
    [][ \A w \in Workers \ overtaken :
            Commit(w) => \A t \in Listed(stored') : table'[t] = File(stored')[t] ]_vars

\* A sync never goes back: a technique id that an enrichment has stored
\* (services/enrichment.py:77) stays resolvable, and only an overtaken sync takes
\* the table back to an older release.
SyncsOnlyAdvance ==
    [][ /\ \A t \in Present : table'[t] # Absent
        /\ mixed' \/ stored' >= stored ]_vars

\* Every message is taken and every sync ends.
SyncsEnd ==
    /\ <>[](queue = 0)
    /\ \A w \in Workers : <>[](task[w].stage = "idle")

=============================================================================
