\* The claim of gatewayControls.ts:31; TLC refutes it.
SPECIFICATION Spec
CONSTANTS
    AuditCap = 1
    Users = {u1}
    Families = {f1, f2}
    Jtis = {j1, j2, j3}
    RefreshTtl = 1
    Second = 2
    MaxNow = 1
    MaxDrift = 0
    MaxBoots = 0
    AppEnv = "production"
    NoToken = NoToken
    NoFamily = NoFamily
SYMMETRY IdSymmetry
INVARIANTS
    ReuseLogsOutEverywhere
CHECK_DEADLOCK FALSE
