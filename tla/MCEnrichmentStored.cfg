\* services/enrichment.py:29; TLC refutes it.
SPECIFICATION Spec
CONSTANTS
    f1 = f1
    f2 = f2
    c1 = c1
    c2 = c2
    Requests = {r1, r2}
    Workers = {w1}
    Findings = {f1, f2}
    Cves = {c1, c2}
    CvesOf <- MCCvesOf
    NoFinding = NoFinding
    MaxFaults = 0
PROPERTIES
    EnrichmentIsStored
CHECK_DEADLOCK FALSE
