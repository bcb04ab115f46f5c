\* Two concurrent requests of one client with a quota of one in two ticks.
SPECIFICATION Spec
CONSTANTS
    Clients = {c1}
    RateLimitMax = 1
    Window = 2
    MaxHits = 2
    AuditCap = 2
    Resources = {"audit", "services", "scans", "network"}
    Actions = {"read"}
    Wildcard = "*"
    Requests = {r1, r2}
    Tokens <- MCTokens
    Services = {"scanner", "network"}
    Allowed = {"scanner"}
    PermissionOf <- MCPermissionOf
    UpstreamStatuses = {200, 403, 429}
    MaxNow = 3
    NoToken = NoToken
INVARIANTS
    TrailExplainsOutcomes
    OnlyAuthorizedInFlight
    InProgressWithinQuota
PROPERTIES
    AnswerIsFinal
    RequestsAreAnswered
CHECK_DEADLOCK FALSE
