\* Two services whose clocks are off by a tick, a token lifetime and more.
SPECIFICATION Spec
CONSTANTS
    admin = admin
    auditor = auditor
    read = read
    update = update
    any = any
    Resources = {users}
    Actions = {read, update}
    Wildcard = any
    Services = {auth, other}
    Auth = auth
    Roles = {admin, auditor}
    Grants <- MCGrants
    NoRole = NoRole
    NoLogin = NoLogin
    Ttl = 3
    Second = 2
    MaxSkew = 1
    MaxDelay = 1
    MaxNow = 11
    MaxTokens = 1
INVARIANTS
    TypeOK
    AuthorityIsRecent
    TokensLastTheirTtl
CHECK_DEADLOCK FALSE
