\* enrichment.py:53; TLC refutes it.
SPECIFICATION Spec
CONSTANTS
    f1 = f1
    f2 = f2
    c1 = c1
    c2 = c2
    Requests = {r1}
    Workers = {w1}
    Findings = {f1}
    Cves = {c1, c2}
    CvesOf <- MCNoCves
    NoFinding = NoFinding
    MaxFaults = 0
PROPERTIES
    PendingIsCompleted
CHECK_DEADLOCK FALSE
