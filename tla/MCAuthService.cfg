\* Three requests in the thread pool and one crash.
SPECIFICATION Spec
CONSTANTS
    alice = alice
    bob = bob
    p = p
    q = q
    admin = admin
    analyst = analyst
    j1 = j1
    j2 = j2
    Requests = {r1, r2, r3}
    Ids = {1, 2, 3}
    Names = {alice, bob}
    Passwords = {p, q}
    Roles = {admin, analyst}
    Admin = admin
    Jtis = {j1, j2}
    Seed <- MCSeed
    SeedTokens <- MCSeedTokens
    Keep = Keep
    NoRow = NoRow
    NoToken = NoToken
    MaxCrashes = 1
SYMMETRY RequestSymmetry
INVARIANTS
    TypeOK
    NamesAreUnique
    TrailMatchesEffects
    LoginIsSnapshot
PROPERTIES
    DeactivationSticks
CHECK_DEADLOCK FALSE
