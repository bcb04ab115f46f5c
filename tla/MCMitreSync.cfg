\* Three releases, two worker processes, three messages and a crash.
SPECIFICATION Spec
CONSTANTS
    t1 = t1
    t2 = t2
    t3 = t3
    name = name
    tactics = tactics
    Techniques = {t1, t2, t3}
    Columns = {name, tactics}
    Values = {1, 2}
    Releases <- MCReleases
    Workers = {w1, w2}
    Absent = Absent
    Unread = Unread
    MaxSends = 3
    MaxCrashes = 1
INVARIANTS
    TypeOK
    WholeReleases
    LastSyncWins
PROPERTIES
    SyncHeals
    SyncsOnlyAdvance
    SyncsEnd
CHECK_DEADLOCK FALSE
