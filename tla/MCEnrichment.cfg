\* Three requests, one worker, two findings that share a CVE, one fault.
SPECIFICATION Spec
CONSTANTS
    f1 = f1
    f2 = f2
    c1 = c1
    c2 = c2
    Requests = {r1, r2, r3}
    Workers = {w1}
    Findings = {f1, f2}
    Cves = {c1, c2}
    CvesOf <- MCCvesOf
    NoFinding = NoFinding
    MaxFaults = 1
INVARIANTS
    TypeOK
    QueueMatchesTable
PROPERTIES
    RowsAreWrittenOnce
    WorkDrains
CHECK_DEADLOCK FALSE
