------------------------------- MODULE Gateway -------------------------------
(***************************************************************************)
(* A request's way through the gateway (apps/gateway/src/app.ts and        *)
(* proxy.ts): the onRequest hooks, authentication, permission, the audit   *)
(* event and the proxied call.  Every point where a handler awaits is a    *)
(* step boundary, so requests interleave there; they share the buckets of  *)
(* the rate limiter, the audit trail and the clock.                        *)
(*                                                                         *)
(* The /auth routes, which change the token store, are in GatewayAuth.  An *)
(* access token is what verifyAccessToken reads from it: its type, the     *)
(* permissions it was issued with and its expiry.                          *)
(***************************************************************************)
EXTENDS FixedWindow, AuditLog, Rbac, FiniteSets

CONSTANTS
    Requests,          \* the requests of a run, each sent once
    Tokens,            \* the bearer tokens clients may present
    Services,          \* config.services
    Allowed,           \* the services whose host is in config.upstreamAllowlist
    PermissionOf,      \* the permission each protected route asks for
    UpstreamStatuses,  \* the statuses services answer with; any is relayed
    NoToken            \* no Authorization header

LocalRoutes     == {"healthz", "me", "audit", "services"}
ProtectedRoutes == {"audit", "services"} \cup Services
Routes          == LocalRoutes \cup Services

ASSUME GatewayAssumption ==
    /\ Services \cap LocalRoutes = {}
    /\ Allowed \subseteq Services
    /\ PermissionOf \in [ProtectedRoutes -> [resource : Resources, action : Actions]]
    /\ Tokens \subseteq [type : {"access", "refresh"}, grants : SUBSET Permission,
                         exp : Nat]
    /\ NoToken \notin Tokens
    /\ UpstreamStatuses \subseteq 200 .. 599

VARIABLES
    events,            \* AuditLog.events
    req                \* the state of every request

vars == <<buckets, now, events, req>>

\* received: past the hooks; authorized: past requirePermission; upstream: in
\* fetch(); body: in response.text().
Stage  == {"idle", "received", "authorized", "upstream", "body", "done"}
Status == {0, 200, 204, 401, 403, 429, 500, 502} \cup UpstreamStatuses

\* by: whose answer it is; a service may answer 403 or 429 as the gateway does.
Request == [stage : Stage, client : Clients, route : Routes,
            token : Tokens \cup {NoToken}, status : Status,
            by : {"gateway", "upstream"}]

At(r, stage) == req[r].stage = stage

Event(action, r) == [action |-> action, request |-> r]

AuditEvent == [action : {"gateway.rate_limit_exceeded",
                         "gateway.permission_denied", "gateway.proxy"},
               request : Requests]

\* The request moves on, is answered, or gets the status copied from the upstream.
Move(r, stage)    == req' = [req EXCEPT ![r].stage = stage]
Answer(r, status) == req' = [req EXCEPT ![r].stage = "done", ![r].status = status]
Relay(r)          == req' = [req EXCEPT ![r].stage = "done", ![r].by = "upstream"]

\* verifyAccessToken
VerifyAccessToken(token) ==
    /\ token # NoToken
    /\ token.type = "access"
    /\ now < token.exp

\* requirePermission's test, for the route of the request.
Permitted(r) ==
    LET needed == PermissionOf[req[r].route]
    IN  HasPermission(req[r].token.grants, needed.resource, needed.action)

Init ==
    /\ buckets = [c \in {} |-> 0]
    /\ now = 0
    /\ events = <<>>
    /\ req \in [Requests -> {q \in Request :
                    q.stage = "idle" /\ q.status = 0 /\ q.by = "gateway"}]

\* A CORS preflight: the hook of @fastify/cors, registered before the others,
\* answers it and ends the chain; it is not counted.
Preflight(r) ==
    /\ At(r, "idle")
    /\ Answer(r, 204)
    /\ UNCHANGED <<buckets, now, events>>

\* The exempt paths of the rate limiter.
OnProbe(r) ==
    /\ At(r, "idle") /\ req[r].route = "healthz"
    /\ Move(r, "received")
    /\ UNCHANGED <<buckets, now, events>>

\* The onRequest hook of the rate limiter.
OnRequest(r) ==
    LET client == req[r].client
    IN  /\ At(r, "idle") /\ req[r].route # "healthz"
        /\ Count(client)
        /\ IF OverLimit(buckets'[client])
           THEN /\ events' = Emit(events, Event("gateway.rate_limit_exceeded", r))
                /\ Answer(r, 429)
           ELSE Move(r, "received") /\ UNCHANGED events
        /\ UNCHANGED now

\* A body that Fastify cannot parse is neither an AuthError nor a ZodError: the
\* error handler answers 500 before any handler of the route runs.  The local
\* routes are GETs, whose bodies are not read.
BodyRejected(r) ==
    /\ At(r, "received") /\ req[r].route \in Services
    /\ Answer(r, 500)
    /\ UNCHANGED <<buckets, now, events>>

Probe(r) ==
    /\ At(r, "received") /\ req[r].route = "healthz"
    /\ Answer(r, 200)
    /\ UNCHANGED <<buckets, now, events>>

\* requireAuth throws: no token, a token of another type, an expired one.
Unauthorized(r) ==
    /\ At(r, "received") /\ req[r].route # "healthz"
    /\ ~VerifyAccessToken(req[r].token)
    /\ Answer(r, 401)
    /\ UNCHANGED <<buckets, now, events>>

\* /auth/me asks for a token and no permission.
Me(r) ==
    /\ At(r, "received") /\ req[r].route = "me"
    /\ VerifyAccessToken(req[r].token)
    /\ Answer(r, 200)
    /\ UNCHANGED <<buckets, now, events>>

\* Faulty variant: the refusal leaves no event.
DeniedUnaudited(r) ==
    /\ At(r, "received") /\ req[r].route \in ProtectedRoutes
    /\ VerifyAccessToken(req[r].token)
    /\ ~Permitted(r)
    /\ Answer(r, 403)
    /\ UNCHANGED <<buckets, now, events>>

\* Faulty variant: the refusal is recorded but no reply is sent.
DeniedUnsent(r) ==
    /\ At(r, "received") /\ req[r].route \in ProtectedRoutes
    /\ VerifyAccessToken(req[r].token)
    /\ ~Permitted(r)
    /\ events' = Emit(events, Event("gateway.permission_denied", r))
    /\ UNCHANGED <<buckets, now, req>>

\* requirePermission refuses; the proxy handler then returns on reply.sent.
Denied(r) ==
    /\ At(r, "received") /\ req[r].route \in ProtectedRoutes
    /\ VerifyAccessToken(req[r].token)
    /\ ~Permitted(r)
    /\ events' = Emit(events, Event("gateway.permission_denied", r))
    /\ Answer(r, 403)
    /\ UNCHANGED <<buckets, now>>

\* Faulty variant: authentication without the permission check.
PermitAny(r) ==
    /\ At(r, "received") /\ req[r].route \in ProtectedRoutes
    /\ VerifyAccessToken(req[r].token)
    /\ Move(r, "authorized")
    /\ UNCHANGED <<buckets, now, events>>

\* requirePermission lets the request pass.
Permit(r) ==
    /\ At(r, "received") /\ req[r].route \in ProtectedRoutes
    /\ VerifyAccessToken(req[r].token)
    /\ Permitted(r)
    /\ Move(r, "authorized")
    /\ UNCHANGED <<buckets, now, events>>

\* /admin/audit-events and /gateway/services answer from memory.
AnswerLocally(r) ==
    /\ At(r, "authorized") /\ req[r].route \notin Services
    /\ Answer(r, 200)
    /\ UNCHANGED <<buckets, now, events>>

\* Faulty variant: the proxy handler does not return on reply.sent.
ForwardAfterDenial(r) ==
    /\ At(r, "authorized") \/ req[r].status = 403
    /\ req[r].route \in Services
    /\ events' = Emit(events, Event("gateway.proxy", r))
    /\ IF req[r].route \in Allowed THEN Move(r, "upstream") ELSE Answer(r, 502)
    /\ UNCHANGED <<buckets, now>>

\* The proxy handler: the event first, then the allowlist, then fetch().
Forward(r) ==
    /\ At(r, "authorized") /\ req[r].route \in Services
    /\ events' = Emit(events, Event("gateway.proxy", r))
    /\ IF req[r].route \in Allowed THEN Move(r, "upstream") ELSE Answer(r, 502)
    /\ UNCHANGED <<buckets, now>>

\* fetch() resolves: status and headers are copied to the reply.
UpstreamResponds(r, status) ==
    /\ At(r, "upstream")
    /\ req' = [req EXCEPT ![r].stage = "body", ![r].status = status]
    /\ UNCHANGED <<buckets, now, events>>

\* fetch() rejects: unreachable host, reset connection, its own timeout; or the
\* status is none that Fastify sends.
UpstreamFails(r) ==
    /\ At(r, "upstream")
    /\ Answer(r, 500)
    /\ UNCHANGED <<buckets, now, events>>

\* response.text() resolves and, if it calls itself JSON, parses.
BodyArrives(r) ==
    /\ At(r, "body")
    /\ Relay(r)
    /\ UNCHANGED <<buckets, now, events>>

\* response.text() rejects or JSON.parse throws: the error handler overrides
\* the status that was copied.
BodyBroken(r) ==
    /\ At(r, "body")
    /\ Answer(r, 500)
    /\ UNCHANGED <<buckets, now, events>>

Tick ==
    /\ now < MaxNow
    /\ now' = now + 1
    /\ UNCHANGED <<buckets, events, req>>

Handlers(r) ==
    \/ BodyRejected(r) \/ Probe(r) \/ Unauthorized(r) \/ Me(r)
    \/ Denied(r) \/ Permit(r) \/ AnswerLocally(r) \/ Forward(r)

Upstream(r) ==
    \/ \E status \in UpstreamStatuses : UpstreamResponds(r, status)
    \/ UpstreamFails(r) \/ BodyArrives(r) \/ BodyBroken(r)

Next ==
    \/ \E r \in Requests :
            Preflight(r) \/ OnProbe(r) \/ OnRequest(r) \/ Handlers(r) \/ Upstream(r)
    \/ Tick

\* The event loop runs what is ready; fetch() settles because undici bounds the
\* time to the headers and between two chunks of the body.
Spec == /\ Init /\ [][Next]_vars
        /\ \A r \in Requests : WF_vars(Handlers(r)) /\ WF_vars(Upstream(r))

(***************************************************************************)
(* Properties                                                              *)
(***************************************************************************)
TypeOK ==
    /\ DOMAIN buckets \subseteq Clients
    /\ \A c \in DOMAIN buckets : buckets[c] \in Bucket
    /\ now \in 0 .. MaxNow
    /\ events \in Seq(AuditEvent)
    /\ Len(events) <= AuditCap
    /\ req \in [Requests -> Request]

\* The gateway itself answered with the status.
Refused(r, status) ==
    At(r, "done") /\ req[r].status = status /\ req[r].by = "gateway"

\* A proxy attempt: a call in flight, an answer relayed, a host not allowlisted.
Attempted(r) ==
    \/ At(r, "upstream") \/ At(r, "body")
    \/ At(r, "done") /\ req[r].by = "upstream"
    \/ Refused(r, 502)

\* The event is in the trail, or newer events of other requests fill the trail.
InTrail(action, r) ==
    \/ Recorded(events, Event(action, r))
    \/ AtCapacity(events) /\ \A i \in DOMAIN events : events[i].request # r

\* What was refused and what was attempted has its event, whatever the
\* interleaving and whatever statuses services answer with: "rate-limit,
\* permission denial, and proxy attempts are recorded" (gatewayControls.ts:81).
OutcomesAreRecorded ==
    \A r \in Requests :
        /\ Refused(r, 429) => InTrail("gateway.rate_limit_exceeded", r)
        /\ Refused(r, 403) => InTrail("gateway.permission_denied", r)
        /\ Attempted(r) => InTrail("gateway.proxy", r)

\* And the events tell of outcomes: of an attempt, also that it failed.
EventsTellOutcomes ==
    \A i \in DOMAIN events :
        LET e == events[i]
        IN  /\ e.action = "gateway.rate_limit_exceeded" => Refused(e.request, 429)
            /\ e.action = "gateway.permission_denied" => Refused(e.request, 403)
            /\ e.action = "gateway.proxy" =>
                    Attempted(e.request) \/ Refused(e.request, 500)

\* The audit trail and the answers explain each other, until the trail is full
\* and beyond: a service's own 403 or 429 leaves a proxy event and no refusal.
TrailExplainsOutcomes == OutcomesAreRecorded /\ EventsTellOutcomes

\* A call in flight to a service was made with an access token that carries the
\* permission the core's check would also ask for, and goes to an allowlisted
\* host.
OnlyAuthorizedInFlight ==
    \A r \in Requests :
        At(r, "upstream") \/ At(r, "body") =>
            /\ req[r].token # NoToken
            /\ req[r].token.type = "access"
            /\ CoreHasPermission(req[r].token.grants,
                                 PermissionOf[req[r].route].resource,
                                 PermissionOf[req[r].route].action)
            /\ req[r].route \in Allowed

\* The requests of a client that passed the limiter and are not answered yet.
InProgress(c) ==
    {r \in Requests :
        /\ req[r].client = c
        /\ req[r].route # "healthz"
        /\ req[r].stage \in {"received", "authorized", "upstream", "body"}}

\* However slow the services are, the requests that a client has in progress
\* grow by at most one quota per window; probes do not count.
InProgressWithinQuota ==
    \A c \in Clients :
        Cardinality(InProgress(c)) <= RateLimitMax * (now \div Window + 1)

\* An answer is sent once: no late upstream response or error replaces it.
AnswerIsFinal ==
    [][ \A r \in Requests : At(r, "done") => req'[r] = req[r] ]_vars

\* Every request past the hooks is answered.
RequestsAreAnswered ==
    \A r \in Requests : ~At(r, "idle") ~> At(r, "done")

=============================================================================
