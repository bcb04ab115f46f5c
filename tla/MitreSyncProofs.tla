--------------------------- MODULE MitreSyncProofs ----------------------------
(***************************************************************************)
(* Theorems about MitreSync, for every value of its constants.             *)
(*                                                                         *)
(* The inductive invariant says what a sync knows of the rows it has read. *)
(* A row that it has seen is still there.  As long as no other release was *)
(* committed since its download, a column that it will not write, because  *)
(* it looked right, is still right, and the release is no older than the   *)
(* one that is stored.                                                     *)
(***************************************************************************)
EXTENDS MitreSync, TLAPS

Reads(w, t) == task[w].seen[t] # Unread

Types ==
    /\ TypeOK
    /\ queue <= sends
    /\ \A w \in Workers : task[w].release <= latest

\* A sync has read only techniques of its file.
SeenIsListed ==
    \A w \in Workers, t \in Techniques :
        Reads(w, t) => task[w].stage = "reading" /\ t \in Listed(task[w].release)

\* Rows do not vanish.
SeenIsPresent ==
    \A w \in Workers, t \in Techniques : task[w].seen[t] \in Row => table[t] # Absent

\* A column that the commit will leave alone holds what the file says.
LeftAloneIsRight ==
    \A w \in Workers \ overtaken, t \in Techniques, c \in Columns :
        task[w].seen[t] \in Row /\ task[w].seen[t][c] = File(task[w].release)[t][c]
            => table[t][c] = File(task[w].release)[t][c]

NoOlderRelease ==
    \A w \in Workers \ overtaken : task[w].release # 0 => task[w].release >= stored

IInv ==
    /\ Types /\ SeenIsListed /\ SeenIsPresent /\ LeftAloneIsRight /\ NoOlderRelease
    /\ WholeReleases /\ LastSyncWins

-----------------------------------------------------------------------------
(* The shapes of a step. *)

\* A worker takes a message, downloads, fails or dies: it has read nothing.
Fresh(w) ==
    /\ \E x \in Task :
        /\ x.seen = Nothing /\ x.release \in {0, latest}
        /\ (x.release = 0) <=> (x.stage # "reading")
        /\ Becomes(w, x)
    /\ overtaken' \in {overtaken, overtaken \ {w}}
    /\ queue' \in 0 .. sends
    /\ crashes' \in 0 .. MaxCrashes
    /\ UNCHANGED <<table, latest, stored, mixed, sends>>

\* Nobody's sync moves.
Outside ==
    /\ latest' \in Published /\ latest <= latest'
    /\ sends' \in 0 .. MaxSends /\ queue' \in 0 .. sends'
    /\ UNCHANGED <<table, task, stored, overtaken, mixed, crashes>>

LEMMA NothingType == Nothing \in [Techniques -> Row \cup {Absent, Unread}]
  BY DEF Nothing

LEMMA IdleType ==
    /\ IdleTask \in Task /\ IdleTask.stage = "idle" /\ IdleTask.release = 0
    /\ IdleTask.seen = Nothing
  BY NothingType DEF IdleTask, Task

LEMMA StepShape ==
    ASSUME Types, Next
    PROVE  \/ Outside
           \/ \E w \in Workers : Fresh(w)
           \/ \E w \in Workers, t \in Techniques : Select(w, t)
           \/ \E w \in Workers : Commit(w)
  <1>0. /\ queue \in 0 .. sends /\ sends \in 0 .. MaxSends /\ crashes \in 0 .. MaxCrashes
        /\ latest \in Published /\ MaxSends \in Nat /\ MaxCrashes \in Nat
    BY MitreSyncAssumption DEF Types, TypeOK
  <1>00. latest \in Nat
    BY <1>0, MitreSyncAssumption DEF Published
  <1>1. CASE Publish
    BY <1>0, <1>00, <1>1 DEF Publish, Outside
  <1>2. CASE Send
    BY <1>0, <1>00, <1>2 DEF Send, Outside
  <1>3. ASSUME NEW w \in Workers, Take(w) PROVE Fresh(w)
    <2> DEFINE x == [IdleTask EXCEPT !.stage = "downloading"]
    <2>1. /\ x \in Task /\ x.stage = "downloading" /\ x.release = 0 /\ x.seen = Nothing
      BY IdleType DEF Task
    <2>2. Becomes(w, x)
      BY <1>3 DEF Take
    <2> HIDE DEF x
    <2> QED
      BY <1>0, <1>3, <2>1, <2>2 DEF Take, Fresh
  <1>4. ASSUME NEW w \in Workers, Download(w) PROVE Fresh(w)
    <2> DEFINE x == [IdleTask EXCEPT !.stage = "reading", !.release = latest]
    <2>1. x \in Task /\ x.stage = "reading" /\ x.release = latest /\ x.seen = Nothing
      BY <1>0, IdleType DEF Task
    <2>2. Becomes(w, x)
      BY <1>4 DEF Download, Served
    <2> HIDE DEF x
    <2>3. latest # 0
      BY <1>0 DEF Published
    <2> QED
      BY <1>0, <1>4, <2>1, <2>2, <2>3 DEF Download, Fresh
  <1>5. ASSUME NEW w \in Workers, Fail(w) \/ WorkerCrash(w) PROVE Fresh(w)
    <2> DEFINE x == IdleTask
    <2>1. x \in Task /\ x.stage = "idle" /\ x.release = 0 /\ x.seen = Nothing
      BY IdleType
    <2>2. Becomes(w, x)
      BY <1>5 DEF Fail, WorkerCrash
    <2> HIDE DEF x
    <2> QED
      BY <1>0, <1>5, <2>1, <2>2 DEF Fail, WorkerCrash, Fresh
  <1> QED
    BY <1>1, <1>2, <1>3, <1>4, <1>5 DEF Next, Work

\* What becomes of the tasks when one of them changes.
LEMMA BecomesKeeps ==
    ASSUME Types, NEW w \in Workers, NEW x \in Task, Becomes(w, x)
    PROVE  /\ task' \in [Workers -> Task]
           /\ task'[w] = x
           /\ \A v \in Workers \ {w} : task'[v] = task[v]
  BY DEF Types, TypeOK, Becomes

\* A SELECT adds one row, or its absence, to what the worker has seen.
LEMMA SelectShape ==
    ASSUME Types, NEW w \in Workers, NEW t \in Techniques, Select(w, t)
    PROVE  \E x \in Task :
              /\ x.stage = "reading" /\ x.release = task[w].release
              /\ x.seen = [task[w].seen EXCEPT ![t] = table[t]]
              /\ x.seen[t] = table[t]
              /\ \A u \in Techniques \ {t} : x.seen[u] = task[w].seen[u]
              /\ Becomes(w, x)
  <1> DEFINE seen == [task[w].seen EXCEPT ![t] = table[t]]
             x == [task[w] EXCEPT !.seen = seen]
  <1>1. task[w] \in Task /\ table[t] \in Row \cup {Absent}
    BY DEF Types, TypeOK
  <1>2. task[w].seen \in [Techniques -> Row \cup {Absent, Unread}]
    BY <1>1 DEF Task
  <1>3. /\ seen \in [Techniques -> Row \cup {Absent, Unread}]
        /\ seen[t] = table[t]
        /\ \A u \in Techniques \ {t} : seen[u] = task[w].seen[u]
    BY <1>1, <1>2
  <1>4. Becomes(w, x)
    BY DEF Select
  <1> HIDE DEF seen
  <1>5. x \in Task /\ x.stage = task[w].stage /\ x.release = task[w].release /\ x.seen = seen
    BY <1>1, <1>3 DEF Task
  <1>6. task[w].stage = "reading"
    BY DEF Select
  <1> HIDE DEF x
  <1> QED
    BY <1>3, <1>4, <1>5, <1>6 DEF seen

LEMMA ReleaseType ==
    ASSUME NEW r \in Published
    PROVE  /\ r \in Nat \ {0}
           /\ Listed(r) \subseteq Techniques
           /\ \A t \in Listed(r) : File(r)[t] \in Row
  BY MitreSyncAssumption DEF Published

\* A commit leaves what its file does not list.  A listed technique has a row
\* then, each column of it from the file or left alone, because it looked right.
LEMMA CommitShape ==
    ASSUME IInv, NEW w \in Workers, Commit(w)
    PROVE  /\ task[w].release \in Published
           /\ task[w].release <= latest
           /\ table' \in [Techniques -> Row \cup {Absent}]
           /\ \A t \in Techniques \ Listed(task[w].release) : table'[t] = table[t]
           /\ \A t \in Listed(task[w].release) :
                /\ table'[t] \in Row
                /\ \A c \in Columns :
                      \/ table'[t][c] = File(task[w].release)[t][c]
                      \/ /\ table'[t][c] = table[t][c]
                         /\ task[w].seen[t] \in Row
                         /\ task[w].seen[t][c] = File(task[w].release)[t][c]
  <1> DEFINE r == task[w].release
             seen == task[w].seen
  <1>1. task[w] \in Task /\ task[w].stage = "reading"
    BY DEF IInv, Types, TypeOK, Commit, AllRead
  <1>2. seen \in [Techniques -> Row \cup {Absent, Unread}]
    BY <1>1 DEF Task
  <1>3. r \in Published /\ r <= latest
    <2>1. r \in Published \cup {0} /\ r # 0
      BY <1>1 DEF IInv, Types, TypeOK, Task
    <2> QED
      BY <2>1 DEF IInv, Types
  <1>4. table' = [t \in Techniques |-> Written(w, t)]
    BY DEF Commit
  <1>5. \A t \in Techniques : table[t] \in Row \cup {Absent}
    BY DEF IInv, Types, TypeOK
  <1>6. ASSUME NEW t \in Techniques, t \notin Listed(r) PROVE table'[t] = table[t]
    <2>1. seen[t] = Unread
      BY <1>6 DEF IInv, SeenIsListed, Reads
    <2> QED
      BY <1>4, <2>1 DEF Written
  <1>7. ASSUME NEW t \in Listed(r)
        PROVE  /\ t \in Techniques
               /\ table'[t] \in Row
               /\ \A c \in Columns :
                     \/ table'[t][c] = File(r)[t][c]
                     \/ /\ table'[t][c] = table[t][c]
                        /\ seen[t] \in Row
                        /\ seen[t][c] = File(r)[t][c]
    <2>1. t \in Techniques /\ File(r)[t] \in Row
      BY <1>3, ReleaseType
    <2>2. seen[t] # Unread
      BY <1>7 DEF Commit, AllRead
    <2>3. table'[t] = Written(w, t)
      BY <1>4, <2>1
    <2>4. CASE seen[t] = Absent
      <3>1. table'[t] = File(r)[t]
        BY <2>2, <2>3, <2>4 DEF Written
      <3> QED
        BY <2>1, <3>1
    <2>5. CASE seen[t] # Absent
      <3>1. seen[t] \in Row
        BY <1>2, <2>1, <2>2, <2>5
      <3>2. table[t] \in Row
        BY <1>5, <2>1, <3>1 DEF IInv, SeenIsPresent
      <3>3. table'[t] = [c \in Columns |-> IF seen[t][c] = File(r)[t][c] THEN table[t][c]
                                          ELSE File(r)[t][c]]
        BY <2>2, <2>3, <2>5 DEF Written
      <3>4. ASSUME NEW c \in Columns
            PROVE  table[t][c] \in Values /\ File(r)[t][c] \in Values
        BY <2>1, <3>2 DEF Row
      <3>5. table'[t] \in Row
        BY <3>3, <3>4 DEF Row
      <3>6. ASSUME NEW c \in Columns
            PROVE  table'[t][c] = IF seen[t][c] = File(r)[t][c] THEN table[t][c]
                                  ELSE File(r)[t][c]
        BY <3>3
      <3> QED
        BY <2>1, <3>1, <3>5, <3>6
    <2> QED
      BY <2>4, <2>5
  <1>8. table' \in [Techniques -> Row \cup {Absent}]
    <2>1. ASSUME NEW t \in Techniques PROVE table'[t] \in Row \cup {Absent}
      BY <1>5, <1>6, <1>7
    <2> QED
      BY <1>4, <2>1
  <1> QED
    BY <1>3, <1>6, <1>7, <1>8

\* Rows are never deleted.
LEMMA CommitKeepsRows ==
    ASSUME IInv, NEW w \in Workers, Commit(w), NEW t \in Techniques
    PROVE  table'[t] # Absent <=> (table[t] # Absent \/ t \in Listed(task[w].release))
  <1>1. CASE t \in Listed(task[w].release)
    BY <1>1, CommitShape, MitreSyncAssumption
  <1>2. CASE t \notin Listed(task[w].release)
    BY <1>2, CommitShape
  <1> QED
    BY <1>1, <1>2

\* A sync that was not overtaken leaves every listed technique as the file says.
LEMMA CommitIsRight ==
    ASSUME IInv, NEW w \in Workers \ overtaken, Commit(w),
           NEW t \in Listed(task[w].release)
    PROVE  table'[t] = File(task[w].release)[t]
  <1> DEFINE r == task[w].release
  <1>1. r \in Published /\ table'[t] \in Row /\ t \in Techniques
    BY CommitShape, ReleaseType
  <1>2. File(r)[t] \in Row
    BY <1>1, ReleaseType
  <1>3. ASSUME NEW c \in Columns PROVE table'[t][c] = File(r)[t][c]
    BY <1>1, CommitShape DEF IInv, LeftAloneIsRight
  <1> QED
    BY <1>1, <1>2, <1>3 DEF Row

-----------------------------------------------------------------------------
(* The invariant. *)

LEMMA InitInv == Init => IInv
  <1> SUFFICES ASSUME Init PROVE IInv
    OBVIOUS
  <1>1. \A w \in Workers : task[w] = IdleTask
    BY DEF Init
  <1>2. \A t \in Techniques : Nothing[t] = Unread
    BY DEF Nothing
  <1>3. Types
    <2>1. 1 \in Published
      BY MitreSyncAssumption DEF Published
    <2>2. task \in [Workers -> Task]
      BY IdleType DEF Init
    <2>3. \A w \in Workers : (task[w].release = 0) <=> (task[w].stage # "reading")
      BY <1>1, IdleType
    <2>4. /\ table \in [Techniques -> Row \cup {Absent}] /\ queue = 0 /\ latest = 1
          /\ stored = 0 /\ overtaken = {} /\ mixed = FALSE /\ sends = 0 /\ crashes = 0
      BY DEF Init
    <2>5. \A w \in Workers : task[w].release <= latest
      BY <1>1, <2>4, IdleType
    <2>6. mixed \in BOOLEAN /\ overtaken \subseteq Workers
      BY <2>4
    <2>7. /\ queue \in 0 .. MaxSends /\ latest \in Published /\ stored \in 0 .. latest
          /\ sends \in 0 .. MaxSends /\ crashes \in 0 .. MaxCrashes
      BY <2>1, <2>4, MitreSyncAssumption
    <2>8. TypeOK
      BY <2>2, <2>3, <2>4, <2>6, <2>7 DEF TypeOK
    <2> QED
      BY <2>4, <2>5, <2>8 DEF Types
  <1>4. SeenIsListed /\ SeenIsPresent /\ LeftAloneIsRight /\ NoOlderRelease
    <2>1. \A w \in Workers, t \in Techniques :
            task[w].seen[t] = Unread /\ task[w].release = 0
      BY <1>1, <1>2, IdleType
    <2>2. NoOlderRelease
      BY <1>1, IdleType DEF NoOlderRelease
    <2> QED
      BY <2>1, <2>2, MitreSyncAssumption
         DEF SeenIsListed, SeenIsPresent, LeftAloneIsRight, Reads
  <1>5. Present = {}
    BY DEF Init, Present
  <1>6. WholeReleases
    <2>1. UNION {Listed(r) : r \in {}} = {}
      OBVIOUS
    <2>2. {} \in SUBSET Published
      OBVIOUS
    <2> QED
      BY <1>5, <2>1, <2>2 DEF WholeReleases
  <1>7. LastSyncWins
    BY <1>5 DEF Init, LastSyncWins
  <1> QED
    BY <1>3, <1>4, <1>6, <1>7 DEF IInv

\* A worker that has read nothing has nothing to be wrong about.
LEMMA FreshKeeps ==
    ASSUME IInv, NEW w \in Workers, Fresh(w)
    PROVE  IInv'
  <1>0. Types /\ TypeOK
    BY DEF IInv, Types
  <1>1. PICK x \in Task : /\ x.seen = Nothing /\ x.release \in {0, latest}
                          /\ (x.release = 0) <=> (x.stage # "reading")
                          /\ Becomes(w, x)
    BY DEF Fresh
  <1>2. /\ task' \in [Workers -> Task]
        /\ task'[w] = x
        /\ \A v \in Workers \ {w} : task'[v] = task[v]
    BY <1>0, <1>1, BecomesKeeps
  <1>3. /\ UNCHANGED <<table, latest, stored, mixed, sends>>
        /\ overtaken' \subseteq overtaken
        /\ \A v \in Workers \ {w} : v \in overtaken <=> v \in overtaken'
        /\ queue' \in 0 .. sends
        /\ crashes' \in 0 .. MaxCrashes
    BY DEF Fresh
  <1>4. latest \in Nat /\ stored \in 0 .. latest /\ sends \in 0 .. MaxSends /\ MaxSends \in Nat
    BY <1>0, MitreSyncAssumption DEF TypeOK, Published
  <1>5. \A t \in Techniques : task'[w].seen[t] = Unread
    BY <1>1, <1>2 DEF Nothing
  <1>6. Types'
    <2>1. TypeOK'
      BY <1>0, <1>1, <1>2, <1>3, <1>4 DEF TypeOK
    <2>2. \A v \in Workers : task'[v].release <= latest'
      BY <1>0, <1>1, <1>2, <1>3, <1>4 DEF Types
    <2> QED
      BY <1>3, <2>1, <2>2, <1>4 DEF Types
  <1>7. SeenIsListed'
    BY <1>2, <1>5 DEF IInv, SeenIsListed, Reads
  <1>8. SeenIsPresent'
    BY <1>2, <1>3, <1>5, MitreSyncAssumption DEF IInv, SeenIsPresent
  <1>9. LeftAloneIsRight'
    BY <1>2, <1>3, <1>5, MitreSyncAssumption DEF IInv, LeftAloneIsRight
  <1>10. NoOlderRelease'
    BY <1>1, <1>2, <1>3, <1>4 DEF IInv, NoOlderRelease
  <1>11. WholeReleases' /\ LastSyncWins'
    BY <1>3 DEF IInv, WholeReleases, LastSyncWins, Present
  <1> QED
    BY <1>6, <1>7, <1>8, <1>9, <1>10, <1>11 DEF IInv

\* A row that is being read is right when it is left alone: it was read just now.
LEMMA SelectKeeps ==
    ASSUME IInv, NEW w \in Workers, NEW t \in Techniques, Select(w, t)
    PROVE  IInv'
  <1>0. Types /\ TypeOK
    BY DEF IInv, Types
  <1>1. PICK x \in Task : /\ x.stage = "reading" /\ x.release = task[w].release
                          /\ x.seen[t] = table[t]
                          /\ \A u \in Techniques \ {t} : x.seen[u] = task[w].seen[u]
                          /\ Becomes(w, x)
    BY <1>0, SelectShape
  <1>2. /\ task' \in [Workers -> Task]
        /\ task'[w] = x
        /\ \A v \in Workers \ {w} : task'[v] = task[v]
    BY <1>0, <1>1, BecomesKeeps
  <1>3. /\ UNCHANGED <<table, queue, latest, stored, overtaken, mixed, sends, crashes>>
        /\ task[w].stage = "reading" /\ t \in Listed(task[w].release)
    BY DEF Select
  <1>4. Types'
    <2>1. \A v \in Workers : /\ (task'[v].release = 0) <=> (task'[v].stage # "reading")
                             /\ task'[v].release <= latest
      BY <1>0, <1>1, <1>2, <1>3 DEF Types, TypeOK
    <2> QED
      BY <1>0, <1>2, <1>3, <2>1 DEF Types, TypeOK
  <1>5. SeenIsListed'
    BY <1>1, <1>2, <1>3 DEF IInv, SeenIsListed, Reads
  <1>6. SeenIsPresent'
    BY <1>1, <1>2, <1>3, MitreSyncAssumption DEF IInv, SeenIsPresent
  <1>7. LeftAloneIsRight'
    BY <1>1, <1>2, <1>3 DEF IInv, LeftAloneIsRight
  <1>8. NoOlderRelease'
    BY <1>1, <1>2, <1>3 DEF IInv, NoOlderRelease
  <1>9. WholeReleases' /\ LastSyncWins'
    BY <1>3 DEF IInv, WholeReleases, LastSyncWins, Present
  <1> QED
    BY <1>4, <1>5, <1>6, <1>7, <1>8, <1>9 DEF IInv

\* The other syncs of the same release see their columns written as they want
\* them; those of another release are overtaken.
LEMMA CommitKeeps ==
    ASSUME IInv, NEW w \in Workers, Commit(w)
    PROVE  IInv'
  <1> DEFINE r == task[w].release
  <1>0. /\ Types /\ TypeOK /\ r \in Published /\ r <= latest
        /\ table' \in [Techniques -> Row \cup {Absent}]
    BY CommitShape DEF IInv, Types
  <1>1. /\ task' \in [Workers -> Task]
        /\ task'[w] = IdleTask
        /\ \A v \in Workers \ {w} : task'[v] = task[v]
    BY <1>0, IdleType, BecomesKeeps DEF Commit
  <1>2. /\ stored' = r
        /\ overtaken' = overtaken \cup {v \in Workers : task[v].release \notin {0, r}}
        /\ mixed' = (mixed \/ w \in overtaken)
        /\ UNCHANGED <<queue, latest, sends, crashes>>
    BY DEF Commit
  <1>3. \A t \in Techniques : task'[w].seen[t] = Unread /\ task'[w].release = 0
    BY <1>1, IdleType DEF Nothing
  <1>4. r \in Nat \ {0} /\ Listed(r) \subseteq Techniques
    BY <1>0, ReleaseType
  <1>5. Types'
    <2>1. \A v \in Workers : /\ (task'[v].release = 0) <=> (task'[v].stage # "reading")
                             /\ task'[v].release <= latest
      BY <1>0, <1>1, <1>4, IdleType, MitreSyncAssumption DEF Types, TypeOK, Published
    <2>2. stored' \in 0 .. latest
      BY <1>0, <1>2, <1>4, MitreSyncAssumption DEF TypeOK, Published
    <2>3. mixed' \in BOOLEAN
      BY <1>2
    <2>4. overtaken' \subseteq Workers
      BY <1>0, <1>2 DEF TypeOK
    <2> QED
      BY <1>0, <1>1, <1>2, <2>1, <2>2, <2>3, <2>4 DEF Types, TypeOK
  <1>6. SeenIsListed'
    BY <1>1, <1>3 DEF IInv, SeenIsListed, Reads
  <1>7. SeenIsPresent'
    BY <1>1, <1>3, CommitKeepsRows, MitreSyncAssumption DEF IInv, SeenIsPresent
  <1>8. LeftAloneIsRight'
    <2> SUFFICES ASSUME NEW v \in Workers \ overtaken', NEW t \in Techniques, NEW c \in Columns,
                        task'[v].seen[t] \in Row,
                        task'[v].seen[t][c] = File(task'[v].release)[t][c]
                 PROVE  table'[t][c] = File(task'[v].release)[t][c]
      BY DEF LeftAloneIsRight
    <2>1. v # w /\ v \notin overtaken /\ task'[v] = task[v]
      BY <1>1, <1>2, <1>3, MitreSyncAssumption
    <2>2. task[v].stage = "reading" /\ task[v].release # 0
      BY <1>0, <2>1, MitreSyncAssumption DEF IInv, SeenIsListed, Reads, TypeOK
    <2>3. task[v].release = r
      BY <1>2, <2>2
    <2>4. table[t][c] = File(r)[t][c]
      BY <2>1, <2>3 DEF IInv, LeftAloneIsRight
    <2>5. CASE t \in Listed(r)
      BY <2>1, <2>3, <2>4, <2>5, CommitShape
    <2>6. CASE t \notin Listed(r)
      BY <2>1, <2>3, <2>4, <2>6, CommitShape
    <2> QED
      BY <2>5, <2>6
  <1>9. NoOlderRelease'
    BY <1>1, <1>2, <1>3, <1>4, IdleType DEF NoOlderRelease
  <1>10. Present' = Present \cup Listed(r)
    BY <1>4, CommitKeepsRows DEF Present
  <1>11. WholeReleases'
    <2>1. PICK S \in SUBSET Published : Present = UNION {Listed(q) : q \in S}
      BY DEF IInv, WholeReleases
    <2>2. Present' = UNION {Listed(q) : q \in S \cup {r}}
      BY <1>10, <2>1
    <2>3. S \cup {r} \in SUBSET Published
      BY <1>0, <2>1
    <2> QED
      BY <2>2, <2>3 DEF WholeReleases
  <1>12. LastSyncWins'
    <2> SUFFICES ASSUME ~mixed'
                 PROVE  /\ \A t \in Listed(r) : table'[t] = File(r)[t]
                        /\ \A t \in Present' : \E q \in Published :
                                t \in Listed(q) /\ table'[t] = File(q)[t]
      BY <1>2 DEF LastSyncWins
    <2>1. ~mixed /\ w \in Workers \ overtaken
      BY <1>2
    <2>2. \A t \in Listed(r) : table'[t] = File(r)[t]
      BY <2>1, CommitIsRight
    <2>3. ASSUME NEW t \in Present', t \notin Listed(r)
          PROVE  \E q \in Published : t \in Listed(q) /\ table'[t] = File(q)[t]
      <3>1. t \in Present /\ t \in Techniques
        BY <1>10, <2>3 DEF Present
      <3>2. table'[t] = table[t]
        BY <2>3, <3>1, CommitShape
      <3> QED
        BY <2>1, <3>1, <3>2 DEF IInv, LastSyncWins
    <2> QED
      BY <1>0, <2>2, <2>3
  <1> QED
    BY <1>5, <1>6, <1>7, <1>8, <1>9, <1>11, <1>12 DEF IInv

LEMMA OutsideKeeps == IInv /\ Outside => IInv'
  <1> SUFFICES ASSUME IInv, Outside PROVE IInv'
    OBVIOUS
  <1>1. latest \in Nat /\ latest' \in Nat /\ latest <= latest'
    BY MitreSyncAssumption DEF IInv, Types, TypeOK, Outside, Published
  <1>2. Types'
    <2>1. stored' \in 0 .. latest'
      BY <1>1 DEF IInv, Types, TypeOK, Outside
    <2>2. ASSUME NEW v \in Workers PROVE task'[v].release <= latest'
      <3>1. task[v].release \in Nat /\ task[v].release <= latest /\ task' = task
        BY MitreSyncAssumption DEF IInv, Types, TypeOK, Task, Published, Outside
      <3> QED
        BY <1>1, <3>1
    <2>3. /\ queue' \in 0 .. MaxSends /\ queue' <= sends' /\ sends' \in 0 .. MaxSends
          /\ latest' \in Published
      BY MitreSyncAssumption DEF Outside
    <2>4. TypeOK'
      BY <2>1, <2>3 DEF IInv, Types, TypeOK, Outside
    <2> QED
      BY <2>2, <2>3, <2>4 DEF Types
  <1> QED
    BY <1>2 DEF IInv, Outside, SeenIsListed, SeenIsPresent, LeftAloneIsRight, NoOlderRelease,
                Reads, WholeReleases, LastSyncWins, Present

LEMMA InvStep == IInv /\ [Next]_vars => IInv'
  <1> SUFFICES ASSUME IInv, [Next]_vars PROVE IInv'
    OBVIOUS
  <1>1. CASE Next
    <2>1. Types
      BY DEF IInv
    <2> QED
      BY <1>1, <2>1, StepShape, OutsideKeeps, FreshKeeps, SelectKeeps, CommitKeeps
  <1>2. CASE UNCHANGED vars
    BY <1>2 DEF vars, IInv, Types, TypeOK, SeenIsListed, SeenIsPresent, LeftAloneIsRight,
                NoOlderRelease, Reads, WholeReleases, LastSyncWins, Present
  <1> QED
    BY <1>1, <1>2

\* The inductive invariant holds in every reachable state.
THEOREM Invariant == Spec => []IInv
  BY InitInv, InvStep, PTL DEF Spec

\* The table, the tasks and the histories have their types, and a task has a
\* release exactly while it reads.
THEOREM TypeCorrect == Spec => []TypeOK
  <1>1. IInv => TypeOK
    BY DEF IInv, Types
  <1> QED
    BY <1>1, Invariant, PTL

\* However syncs fail, die or overlap, the table holds whole releases.
THEOREM SyncsAreAtomic == Spec => []WholeReleases
  <1>1. IInv => WholeReleases
    BY DEF IInv
  <1> QED
    BY <1>1, Invariant, PTL

\* Unless an overtaken sync was committed, the table is what the last sync wants.
THEOREM LastSyncStands == Spec => []LastSyncWins
  <1>1. IInv => LastSyncWins
    BY DEF IInv
  <1> QED
    BY <1>1, Invariant, PTL

\* One sync that is not overtaken repairs every technique that it lists.
THEOREM MixedRowsHeal == Spec => SyncHeals
  <1>1. IInv /\ [Next]_vars =>
            [\A w \in Workers \ overtaken :
                Commit(w) => \A t \in Listed(stored') : table'[t] = File(stored')[t]]_vars
    <2> SUFFICES ASSUME IInv, NEW w \in Workers \ overtaken, Commit(w),
                        NEW t \in Listed(stored')
                 PROVE  table'[t] = File(stored')[t]
      OBVIOUS
    <2>1. stored' = task[w].release
      BY DEF Commit
    <2> QED
      BY <2>1, CommitIsRight
  <1> QED
    BY <1>1, Invariant, PTL DEF Spec, SyncHeals

\* No sync deletes a technique, and none that was not overtaken stores an older
\* release than the one it finds.
THEOREM SyncsNeverRegress == Spec => SyncsOnlyAdvance
  <1>1. IInv /\ [Next]_vars =>
            [/\ \A t \in Present : table'[t] # Absent
             /\ mixed' \/ stored' >= stored]_vars
    <2> SUFFICES ASSUME IInv, Next
                 PROVE  /\ \A t \in Present : table'[t] # Absent
                        /\ mixed' \/ stored' >= stored
      OBVIOUS
    <2>1. Types /\ stored \in Int
      BY MitreSyncAssumption DEF IInv, Types, TypeOK, Published
    <2>2. CASE table' = table /\ stored' = stored
      BY <2>1, <2>2 DEF Present
    <2>3. ASSUME NEW w \in Workers, Commit(w)
          PROVE  /\ \A t \in Present : table'[t] # Absent
                 /\ mixed' \/ stored' >= stored
      <3>1. \A t \in Present : table'[t] # Absent
        BY <2>3, CommitKeepsRows DEF Present
      <3>2. mixed' \/ stored' >= stored
        BY <2>3, CommitShape, ReleaseType DEF IInv, NoOlderRelease, Commit
      <3> QED
        BY <3>1, <3>2
    <2> QED
      BY <2>1, <2>2, <2>3, StepShape DEF Outside, Fresh, Select
  <1> QED
    BY <1>1, Invariant, PTL DEF Spec, SyncsOnlyAdvance

===============================================================================
