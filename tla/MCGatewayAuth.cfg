\* Rotation, replay, logout, clock and restart, with JWT_SECRET set and without.
SPECIFICATION Spec
CONSTANTS
    AuditCap = 2
    Users = {u1}
    Families = {f1, f2}
    Jtis = {j1, j2, j3}
    RefreshTtl = 1
    Second = 2
    MaxNow = 3
    MaxDrift = 2
    MaxBoots = 1
    AppEnv = "local"
    NoToken = NoToken
    NoFamily = NoFamily
SYMMETRY IdSymmetry
INVARIANTS
    TypeOK
    SingleLive
    RevokedFamilyDead
    ReuseKillsFamily
    StoreIsConsistent
    AlarmOnlyOnOwnTokens
    RevokedFamiliesAudited
PROPERTIES
    FalseReuseOnlyAtExpiry
    LogoutEndsFamily
    ContractSpec
CHECK_DEADLOCK FALSE
