---------------------------- MODULE GatewayProofs ----------------------------
(***************************************************************************)
(* Theorems about Gateway, for any number of requests, tokens, services    *)
(* and grants, and any interleaving.                                       *)
(*                                                                         *)
(* What is in flight is authorized because a request that requirePermission *)
(* let pass stays what it was (Cleared); the trail explains a status        *)
(* because an event is emitted in the step that sets it, and emit() forgets *)
(* nothing before the trail is full (EmitRemembers).                       *)
(***************************************************************************)
EXTENDS Gateway, RateLimit, AuditLogProofs, FiniteSetTheorems, TLAPS

\* Whatever a caller is granted, the gateway and the shared core decide alike: one
\* membership test per shape of grant, or one pattern over all grants.
THEOREM SameDecision ==
    ASSUME NEW G \in SUBSET Permission, NEW r \in Resources, NEW a \in Actions
    PROVE  HasPermission(G, r, a) <=> CoreHasPermission(G, r, a)
  <1>1. ASSUME HasPermission(G, r, a) PROVE CoreHasPermission(G, r, a)
    <2>1. PICK p \in G : p.resource \in {Wildcard, r} /\ p.action \in {Wildcard, a}
      BY <1>1 DEF HasPermission
    <2>2. p = [resource |-> p.resource, action |-> p.action]
      BY DEF Permission
    <2> QED
      BY <2>1, <2>2 DEF CoreHasPermission, Granted
  <1>2. ASSUME CoreHasPermission(G, r, a) PROVE HasPermission(G, r, a)
    BY <1>2 DEF CoreHasPermission, Granted, HasPermission
  <1> QED
    BY <1>1, <1>2

\* Past requirePermission a request carries an access token that grants the
\* permission of its route, and only an allowlisted service is called.
Cleared(r) ==
    /\ req[r].stage \in {"authorized", "upstream", "body"} =>
        /\ req[r].route \in ProtectedRoutes
        /\ req[r].token # NoToken
        /\ req[r].token.type = "access"
        /\ Permitted(r)
    /\ req[r].stage \in {"upstream", "body"} => req[r].route \in Allowed

\* What the trail owes a request: its event, short of a full trail.
Noted(action, r) == Recorded(events, Event(action, r)) \/ AtCapacity(events)
Accounted(r) ==
    /\ Refused(r, 429) => Noted("gateway.rate_limit_exceeded", r)
    /\ Refused(r, 403) => Noted("gateway.permission_denied", r)
    /\ Attempted(r) => Noted("gateway.proxy", r)

\* What an event says of its request.
Tells(e) ==
    /\ e.action = "gateway.rate_limit_exceeded" => Refused(e.request, 429)
    /\ e.action = "gateway.permission_denied" => Refused(e.request, 403)
    /\ e.action = "gateway.proxy" => Attempted(e.request) \/ Refused(e.request, 500)

\* Until it is answered the answer is nobody's but the gateway's.
Unanswered(r) == ~At(r, "done") => req[r].by = "gateway"

IInv ==
    /\ TypeOK
    /\ \A r \in Requests : Cleared(r) /\ Unanswered(r) /\ Accounted(r)
    /\ \A i \in DOMAIN events : Tells(events[i])

\* The bucket that the hook stores is one.
LEMMA CountType ==
    ASSUME TypeOK, NEW c \in Clients, Count(c)
    PROVE  /\ DOMAIN buckets' \subseteq Clients
           /\ \A d \in DOMAIN buckets' : buckets'[d] \in Bucket
  <1>1. Counted(c) \in Bucket
    BY FixedWindowAssumption DEF Count, Counted, Open, Bucket, TypeOK
  <1> QED
    BY <1>1 DEF Count, TypeOK

\* A step as the trail and the permissions see it: nothing happens to requests;
\* or one of them moves.  Before the upstream it moves in silence, is let pass by
\* requirePermission, or leaves its event; after that it settles.
Entering(r) == req[r].stage \in {"idle", "received", "authorized"}
Calling(r)  == req[r].stage \in {"upstream", "body"}
Silent(r, stage, status, by) ==
    /\ events' = events /\ Entering(r) /\ by = req[r].by
    /\ \/ stage = "received"
       \/ stage = "done" /\ status \notin {403, 429, 502}
Passes(r, stage, status, by) ==
    /\ events' = events /\ Entering(r) /\ by = req[r].by
    /\ stage = "authorized"
    /\ req[r].route \in ProtectedRoutes
    /\ VerifyAccessToken(req[r].token) /\ Permitted(r)
Settles(r, stage, status, by) ==
    /\ events' = events /\ Calling(r)
    /\ \/ stage = "body" /\ by = req[r].by
       \/ stage = "done" /\ by = "upstream"
       \/ stage = "done" /\ by = req[r].by /\ status = 500
Records(r, stage, status, by, action) ==
    /\ events' = Emit(events, Event(action, r)) /\ Entering(r) /\ by = req[r].by
    /\ \/ stage = "done" /\ status = 429 /\ action = "gateway.rate_limit_exceeded"
       \/ stage = "done" /\ status = 403 /\ action = "gateway.permission_denied"
       \/ stage = "done" /\ status = 502 /\ action = "gateway.proxy"
       \/ /\ stage = "upstream" /\ action = "gateway.proxy"
          /\ At(r, "authorized") /\ req[r].route \in Allowed
Recording(r, stage, status, by) ==
    \E action \in {"gateway.rate_limit_exceeded", "gateway.permission_denied",
                   "gateway.proxy"} : Records(r, stage, status, by, action)
Becomes(r, stage, status, by) ==
    \/ req' = [req EXCEPT ![r].stage = stage] /\ status = req[r].status /\ by = req[r].by
    \/ req' = [req EXCEPT ![r].stage = stage, ![r].status = status] /\ by = req[r].by
    \/ req' = [req EXCEPT ![r].stage = stage, ![r].by = by] /\ status = req[r].status
Moves(r, stage, status, by) ==
    /\ Becomes(r, stage, status, by)
    /\ \/ Silent(r, stage, status, by)
       \/ Passes(r, stage, status, by)
       \/ Settles(r, stage, status, by)
       \/ Recording(r, stage, status, by)
Parties == {"gateway", "upstream"}

\* A request that moves was not answered; it keeps all else of it, and the other
\* requests stay.
LEMMA MoveType ==
    ASSUME TypeOK, NEW r \in Requests, NEW stage \in Stage, NEW status \in Status,
           NEW by \in Parties, Moves(r, stage, status, by)
    PROVE  /\ ~At(r, "done")
           /\ req' \in [Requests -> Request]
           /\ \A q \in Requests \ {r} : req'[q] = req[q]
           /\ req'[r].stage = stage /\ req'[r].status = status /\ req'[r].by = by
           /\ req'[r].route = req[r].route
           /\ req'[r].token = req[r].token
  <1>1. ~At(r, "done")
    BY DEF Moves, Silent, Passes, Settles, Recording, Records, Entering, Calling, At
  <1>2. Becomes(r, stage, status, by)
    BY DEF Moves
  <1> QED
    BY <1>1, <1>2 DEF Becomes, TypeOK, Request, Parties

\* Every action of Next but the clock is such a move.
LEMMA StepShape ==
    ASSUME TypeOK, [Next]_vars
    PROVE  \/ UNCHANGED <<req, events>>
           \/ \E r \in Requests, stage \in Stage, status \in Status, by \in Parties :
                Moves(r, stage, status, by)
  <1> USE DEF Silent, Passes, Settles, Recording, Records, Becomes, Moves, Entering,
              Calling, Move, Answer, Relay, Stage, Status, At
  <1>1. ASSUME NEW r \in Requests, Preflight(r)
        PROVE  Moves(r, "done", 204, req[r].by)
    BY <1>1 DEF Preflight
  <1>2. ASSUME NEW r \in Requests, OnProbe(r)
        PROVE  Moves(r, "received", req[r].status, req[r].by)
    BY <1>2 DEF OnProbe
  <1>3. ASSUME NEW r \in Requests, OnRequest(r)
        PROVE  \/ Moves(r, "received", req[r].status, req[r].by)
               \/ Moves(r, "done", 429, req[r].by)
    BY <1>3 DEF OnRequest
  <1>4. ASSUME NEW r \in Requests, BodyRejected(r)
        PROVE  Moves(r, "done", 500, req[r].by)
    BY <1>4 DEF BodyRejected
  <1>5. ASSUME NEW r \in Requests, Probe(r) \/ Me(r) \/ AnswerLocally(r)
        PROVE  Moves(r, "done", 200, req[r].by)
    BY <1>5 DEF Probe, Me, AnswerLocally
  <1>6. ASSUME NEW r \in Requests, Unauthorized(r)
        PROVE  Moves(r, "done", 401, req[r].by)
    BY <1>6 DEF Unauthorized
  <1>7. ASSUME NEW r \in Requests, Denied(r)
        PROVE  Moves(r, "done", 403, req[r].by)
    BY <1>7 DEF Denied
  <1>8. ASSUME NEW r \in Requests, Permit(r)
        PROVE  Moves(r, "authorized", req[r].status, req[r].by)
    BY <1>8 DEF Permit
  <1>9. ASSUME NEW r \in Requests, Forward(r)
        PROVE  \/ Moves(r, "upstream", req[r].status, req[r].by)
               \/ Moves(r, "done", 502, req[r].by)
    BY <1>9 DEF Forward
  <1>10. ASSUME NEW r \in Requests, NEW status \in UpstreamStatuses,
                UpstreamResponds(r, status)
         PROVE  Moves(r, "body", status, req[r].by)
    BY <1>10 DEF UpstreamResponds
  <1>11. ASSUME NEW r \in Requests, UpstreamFails(r) \/ BodyBroken(r)
         PROVE  Moves(r, "done", 500, req[r].by)
    BY <1>11 DEF UpstreamFails, BodyBroken
  <1>12. ASSUME NEW r \in Requests, BodyArrives(r)
         PROVE  Moves(r, "done", req[r].status, "upstream")
    BY <1>12 DEF BodyArrives
  <1> HIDE DEF Silent, Passes, Settles, Recording, Records, Becomes, Moves, Entering,
               Calling, Move, Answer, Relay, At
  <1>13. ASSUME NEW r \in Requests PROVE req[r].status \in Status /\ req[r].by \in Parties
    BY DEF TypeOK, Request, Parties
  <1>14. /\ "upstream" \in Parties
         /\ "received" \in Stage /\ "authorized" \in Stage /\ "upstream" \in Stage
         /\ "body" \in Stage /\ "done" \in Stage
         /\ 200 \in Status /\ 204 \in Status /\ 401 \in Status /\ 403 \in Status
         /\ 429 \in Status /\ 500 \in Status /\ 502 \in Status
         /\ \A status \in UpstreamStatuses : status \in Status
    BY DEF Parties
  <1> HIDE DEF Stage, Status
  <1> DEFINE Moved(r) == \E stage \in Stage, status \in Status, by \in Parties :
                            Moves(r, stage, status, by)
  <1>15. CASE Tick \/ UNCHANGED vars
    BY <1>15 DEF Tick, vars
  <1>16. ASSUME NEW r \in Requests, Preflight(r) \/ OnProbe(r) \/ OnRequest(r)
         PROVE  Moved(r)
    BY <1>1, <1>2, <1>3, <1>13, <1>14, <1>16, ZenonT(60)
  <1>17. ASSUME NEW r \in Requests, Handlers(r)
         PROVE  Moved(r)
    <2>1. CASE BodyRejected(r) \/ Probe(r) \/ Me(r) \/ AnswerLocally(r)
      BY <1>4, <1>5, <1>13, <1>14, <2>1, ZenonT(60)
    <2>2. CASE Unauthorized(r) \/ Denied(r)
      BY <1>6, <1>7, <1>13, <1>14, <2>2, ZenonT(60)
    <2>3. CASE Permit(r) \/ Forward(r)
      BY <1>8, <1>9, <1>13, <1>14, <2>3, ZenonT(60)
    <2> HIDE DEF Moved
    <2> QED
      BY <1>17, <2>1, <2>2, <2>3 DEF Handlers
  <1>18. ASSUME NEW r \in Requests, Upstream(r)
         PROVE  Moved(r)
    BY <1>10, <1>11, <1>12, <1>13, <1>14, <1>18, ZenonT(60) DEF Upstream
  <1> HIDE DEF Moved
  <1>19. (\E r \in Requests : Moved(r)) \/ Tick \/ UNCHANGED vars
    BY <1>16, <1>17, <1>18 DEF Next
  <1> QED
    BY <1>15, <1>19 DEF Moved

LEMMA EventType ==
    ASSUME NEW r \in Requests,
           NEW action \in {"gateway.rate_limit_exceeded", "gateway.permission_denied",
                           "gateway.proxy"}
    PROVE  Event(action, r) \in AuditEvent
  BY DEF Event, AuditEvent

\* A step adds at most one event to the trail.
LEMMA TrailGrows ==
    ASSUME TypeOK, [Next]_vars
    PROVE  \/ events' = events
           \/ \E e \in AuditEvent : events' = Emit(events, e)
  <1>1. ASSUME NEW r \in Requests, NEW stage \in Stage, NEW status \in Status,
               NEW by \in Parties, Moves(r, stage, status, by)
        PROVE  \/ events' = events
               \/ \E e \in AuditEvent : events' = Emit(events, e)
    <2>1. CASE ~Recording(r, stage, status, by)
      BY <1>1, <2>1 DEF Moves, Silent, Passes, Settles
    <2>2. CASE Recording(r, stage, status, by)
      BY <2>2, EventType DEF Recording, Records
    <2> QED
      BY <1>1, <2>1, <2>2 DEF Moves
  <1> QED
    BY <1>1, StepShape

LEMMA TypeStep == TypeOK /\ [Next]_vars => TypeOK'
  <1> SUFFICES ASSUME TypeOK, [Next]_vars PROVE TypeOK'
    OBVIOUS
  <1>1. /\ DOMAIN buckets' \subseteq Clients
        /\ \A c \in DOMAIN buckets' : buckets'[c] \in Bucket
    <2>1. ASSUME NEW r \in Requests, OnRequest(r)
          PROVE  Count(req[r].client) /\ req[r].client \in Clients
      BY <2>1 DEF OnRequest, TypeOK, Request
    <2>2. (\E r \in Requests : OnRequest(r)) \/ buckets' = buckets
      BY DEF Next, vars, Preflight, OnProbe, Handlers, Upstream, BodyRejected, Probe,
             Unauthorized, Me, Denied, Permit, AnswerLocally, Forward,
             UpstreamResponds, UpstreamFails, BodyArrives, BodyBroken, Tick
    <2> QED
      BY <2>1, <2>2, CountType DEF TypeOK
  <1>2. now' \in 0 .. MaxNow
    <2>1. now' = now \/ Tick
      BY DEF Next, vars, Preflight, OnProbe, OnRequest, Handlers, Upstream, BodyRejected,
             Probe, Unauthorized, Me, Denied, Permit, AnswerLocally, Forward,
             UpstreamResponds, UpstreamFails, BodyArrives, BodyBroken
    <2> QED
      BY <2>1, FixedWindowAssumption DEF TypeOK, Tick
  <1>3. events' \in Seq(AuditEvent) /\ Len(events') <= AuditCap
    BY TrailGrows, EmitType DEF TypeOK
  <1>4. req' \in [Requests -> Request]
    <2>1. ASSUME NEW r \in Requests, NEW stage \in Stage, NEW status \in Status,
                 NEW by \in Parties, Moves(r, stage, status, by)
          PROVE  req' \in [Requests -> Request]
      BY <2>1, MoveType
    <2> QED
      BY <2>1, StepShape DEF TypeOK
  <1> QED
    BY <1>1, <1>2, <1>3, <1>4 DEF TypeOK

\* What was cleared stays cleared.
LEMMA ClearedStep ==
    ASSUME IInv, [Next]_vars, NEW q \in Requests
    PROVE  Cleared(q)'
  <1>1. TypeOK /\ Cleared(q)
    BY DEF IInv
  <1>2. CASE req' = req
    BY <1>1, <1>2 DEF Cleared, Permitted
  <1>3. ASSUME NEW r \in Requests, NEW stage \in Stage, NEW status \in Status,
               NEW by \in Parties, Moves(r, stage, status, by)
        PROVE  Cleared(q)'
    <2>1. /\ \A p \in Requests \ {r} : req'[p] = req[p]
          /\ req'[r].stage = stage
          /\ req'[r].route = req[r].route
          /\ req'[r].token = req[r].token
      BY <1>1, <1>3, MoveType
    <2>2. CASE q # r
      BY <1>1, <2>1, <2>2 DEF Cleared, Permitted
    <2>3. CASE q = r
      <3>1. Permitted(q)' <=> Permitted(q)
        BY <2>1, <2>3 DEF Permitted
      <3>2. CASE ~Passes(r, stage, status, by)
        BY <1>1, <1>3, <2>1, <2>3, <3>1, <3>2
           DEF Cleared, Moves, Silent, Settles, Recording, Records, Calling, At
      <3>3. CASE Passes(r, stage, status, by)
        BY <2>1, <2>3, <3>1, <3>3 DEF Cleared, Passes, VerifyAccessToken
      <3> QED
        BY <3>2, <3>3
    <2> QED
      BY <2>2, <2>3
  <1> QED
    BY <1>1, <1>2, <1>3, StepShape

\* emit() loses none of the events that explain something, short of a full trail.
LEMMA TrailKeeps ==
    ASSUME TypeOK, [Next]_vars,
           NEW action \in {"gateway.rate_limit_exceeded", "gateway.permission_denied",
                           "gateway.proxy"},
           NEW q \in Requests, Noted(action, q)
    PROVE  Noted(action, q)'
  <1>1. Event(action, q) \in AuditEvent
    BY EventType
  <1>2. ASSUME NEW e \in AuditEvent, events' = Emit(events, e)
        PROVE  Noted(action, q)'
    BY <1>1, <1>2, EmitRemembers DEF Noted, TypeOK, Event
  <1> QED
    BY <1>2, TrailGrows DEF Noted

\* The trail stays complete: an outcome has its event since the step that made it.
LEMMA AccountedStep ==
    ASSUME IInv, [Next]_vars, NEW q \in Requests
    PROVE  Accounted(q)' /\ Unanswered(q)'
  <1>1. TypeOK /\ Accounted(q) /\ Unanswered(q)
    BY DEF IInv
  <1>2. CASE req'[q] = req[q]
    BY <1>1, <1>2, TrailKeeps DEF Accounted, Unanswered, Refused, Attempted, At
  <1>3. ASSUME NEW stage \in Stage, NEW status \in Status, NEW by \in Parties,
               Moves(q, stage, status, by)
        PROVE  Accounted(q)' /\ Unanswered(q)'
    <2>1. /\ req'[q].stage = stage /\ req'[q].status = status /\ req'[q].by = by
          /\ ~At(q, "done")
      BY <1>1, <1>3, MoveType
    <2>2. CASE Silent(q, stage, status, by) \/ Passes(q, stage, status, by)
      BY <1>1, <2>1, <2>2
         DEF Silent, Passes, Accounted, Unanswered, Refused, Attempted, At
    <2>3. CASE Settles(q, stage, status, by)
      <3>1. Attempted(q)
        BY <2>3 DEF Settles, Calling, Attempted, At
      <3>2. Noted("gateway.proxy", q)'
        BY <1>1, <3>1, TrailKeeps DEF Accounted
      <3> QED
        BY <1>1, <2>1, <2>3, <3>2
           DEF Settles, Accounted, Unanswered, Refused, Attempted, At
    <2>4. CASE Recording(q, stage, status, by)
      <3>1. PICK action \in {"gateway.rate_limit_exceeded", "gateway.permission_denied",
                             "gateway.proxy"} : Records(q, stage, status, by, action)
        BY <2>4 DEF Recording
      <3>2. Noted(action, q)'
        <4>1. Event(action, q) \in AuditEvent
          BY EventType
        <4>2. Recorded(Emit(events, Event(action, q)), Event(action, q))
          BY <1>1, <4>1, EmitRemembers DEF TypeOK
        <4> QED
          BY <3>1, <4>2 DEF Records, Noted, Event
      <3> QED
        BY <1>1, <2>1, <3>1, <3>2
           DEF Records, Accounted, Unanswered, Refused, Attempted, At
    <2> QED
      BY <1>3, <2>2, <2>3, <2>4 DEF Moves
  <1>4. ASSUME NEW r \in Requests, NEW stage \in Stage, NEW status \in Status,
               NEW by \in Parties, Moves(r, stage, status, by), q # r
        PROVE  req'[q] = req[q]
    BY <1>1, <1>4, MoveType
  <1> QED
    BY <1>1, <1>2, <1>3, <1>4, StepShape

\* The trail stays true: a request that moves before its call has no event yet, and
\* a call that settles was an attempt.
LEMMA TellsStep ==
    ASSUME IInv, [Next]_vars, NEW i \in DOMAIN events'
    PROVE  Tells(events[i])'
  <1>1. /\ TypeOK /\ events \in Seq(AuditEvent) /\ events' \in Seq(AuditEvent)
        /\ \A j \in DOMAIN events : events[j] \in AuditEvent /\ Tells(events[j])
    BY TypeStep DEF IInv, TypeOK
  <1>2. ASSUME NEW e \in AuditEvent, Tells(e),
               req'[e.request] = req[e.request]
        PROVE  Tells(e)'
    BY <1>2 DEF Tells, Refused, Attempted, At
  \* Tells unfolds where the event is read from the trail of the next state.
  <1>3. ASSUME \A e \in AuditEvent : Recorded(events, e) => Tells(e)',
               Recorded(events, events'[i])
        PROVE  Tells(events[i])'
    BY <1>1, <1>3 DEF Tells, Refused, Attempted, At
  <1>4. CASE UNCHANGED <<req, events>>
    <2>1. Recorded(events, events'[i])
      BY <1>4 DEF Recorded
    <2>2. ASSUME NEW e \in AuditEvent, Recorded(events, e) PROVE Tells(e)'
      <3>1. Tells(e)
        BY <1>1, <2>2 DEF Recorded
      <3>2. e.request \in Requests
        BY DEF AuditEvent
      <3> QED
        BY <1>2, <1>4, <3>1
    <2> QED
      BY <1>3, <2>1, <2>2
  <1>5. ASSUME NEW r \in Requests, NEW stage \in Stage, NEW status \in Status,
               NEW by \in Parties, Moves(r, stage, status, by)
        PROVE  Tells(events[i])'
    <2>1. /\ \A q \in Requests \ {r} : req'[q] = req[q]
          /\ req'[r].stage = stage /\ req'[r].status = status /\ req'[r].by = by
          /\ ~At(r, "done")
      BY <1>1, <1>5, MoveType
    <2>2. Unanswered(r)
      BY DEF IInv
    <2>3. ASSUME NEW e \in AuditEvent, Tells(e)
          PROVE  Tells(e)'
      <3>1. e.request \in Requests
            /\ e.action \in {"gateway.rate_limit_exceeded", "gateway.permission_denied",
                              "gateway.proxy"}
        BY DEF AuditEvent
      <3>2. CASE e.request # r
        BY <1>2, <2>1, <2>3, <3>1, <3>2
      <3>3. CASE e.request = r
        <4>1. e.action = "gateway.proxy" /\ (At(r, "upstream") \/ At(r, "body"))
          BY <2>1, <2>3, <3>1, <3>3 DEF Tells, Refused, Attempted
        <4>2. Settles(r, stage, status, by)
          BY <1>5, <4>1 DEF Moves, Silent, Passes, Recording, Records, Entering, At
        <4>3. Attempted(r)' \/ Refused(r, 500)'
          BY <2>1, <2>2, <4>2 DEF Settles, Attempted, Refused, Unanswered, At
        <4> QED
          BY <3>3, <4>1, <4>3 DEF Tells
      <3> QED
        BY <3>2, <3>3
    <2>4. CASE events' = events
      <3>1. Recorded(events, events'[i])
        BY <2>4 DEF Recorded
      <3>2. ASSUME NEW e \in AuditEvent, Recorded(events, e) PROVE Tells(e)'
        BY <1>1, <2>3, <3>2 DEF Recorded
      <3> QED
        BY <1>3, <3>1, <3>2
    <2>5. CASE Recording(r, stage, status, by)
      <3>1. PICK action \in {"gateway.rate_limit_exceeded", "gateway.permission_denied",
                             "gateway.proxy"} : Records(r, stage, status, by, action)
        BY <2>5 DEF Recording
      <3> DEFINE new == Event(action, r)
      <3>2. new \in AuditEvent /\ new.action = action /\ new.request = r
        BY EventType DEF Event
      <3>3. events' = Emit(events, new)
        BY <3>1 DEF Records
      <3>4. Tells(new)'
        BY <2>1, <2>2, <3>1, <3>2
           DEF Records, Tells, Refused, Attempted, Unanswered, At
      <3> HIDE DEF new
      <3>5. events'[i] = new \/ Recorded(events, events'[i])
        BY <1>1, <3>2, <3>3, EmitAddsOne
      <3>6. CASE events'[i] = new
        BY <3>4, <3>6 DEF Tells, Refused, Attempted, At
      <3>7. CASE Recorded(events, events'[i])
        <4>1. ASSUME NEW e \in AuditEvent, Recorded(events, e) PROVE Tells(e)'
          BY <1>1, <2>3, <4>1 DEF Recorded
        <4> QED
          BY <1>3, <3>7, <4>1
      <3> QED
        BY <3>5, <3>6, <3>7
    <2> QED
      BY <1>5, <2>4, <2>5 DEF Moves, Silent, Passes, Settles
  <1> QED
    BY <1>1, <1>4, <1>5, StepShape

LEMMA Invariant == Spec => []IInv
  <1>1. Init => IInv
    <2> SUFFICES ASSUME Init PROVE IInv
      OBVIOUS
    <2>1. req \in [Requests -> Request]
          /\ \A r \in Requests : req[r].stage = "idle" /\ req[r].by = "gateway"
      BY DEF Init
    <2>2. TypeOK
      BY <2>1, FixedWindowAssumption, AuditCapAssumption DEF Init, TypeOK
    <2>3. DOMAIN events = {}
      BY DEF Init
    <2> QED
      BY <2>1, <2>2, <2>3
         DEF IInv, Cleared, Unanswered, Accounted, Refused, Attempted, At
  <1>2. IInv /\ [Next]_vars => IInv'
    <2> SUFFICES ASSUME IInv, [Next]_vars PROVE IInv'
      OBVIOUS
    <2>1. TypeOK'
      BY TypeStep DEF IInv
    <2> QED
      BY <2>1, ClearedStep, AccountedStep, TellsStep DEF IInv
  <1> QED
    BY <1>1, <1>2, PTL DEF Spec

\* The buckets, the trail and the requests keep their types.
THEOREM TypeCorrect == Spec => []TypeOK
  <1>1. IInv => TypeOK
    BY DEF IInv
  <1> QED
    BY <1>1, Invariant, PTL

\* No interleaving, refusal or slow upstream lets a call out that the caller has
\* no permission for, by the gateway's check or by the core's (app.ts, rbac.py).
THEOREM CallsAreAuthorized == Spec => []OnlyAuthorizedInFlight
  <1>1. IInv => OnlyAuthorizedInFlight
    <2> SUFFICES ASSUME IInv, NEW r \in Requests, At(r, "upstream") \/ At(r, "body")
                 PROVE  /\ req[r].token # NoToken
                        /\ req[r].token.type = "access"
                        /\ CoreHasPermission(req[r].token.grants,
                                             PermissionOf[req[r].route].resource,
                                             PermissionOf[req[r].route].action)
                        /\ req[r].route \in Allowed
      BY DEF OnlyAuthorizedInFlight
    <2>1. /\ req[r].route \in ProtectedRoutes \cap Allowed
          /\ req[r].token # NoToken
          /\ req[r].token.type = "access"
          /\ HasPermission(req[r].token.grants, PermissionOf[req[r].route].resource,
                           PermissionOf[req[r].route].action)
      BY DEF IInv, Cleared, At, Permitted
    <2>2. /\ req[r].token.grants \in SUBSET Permission
          /\ PermissionOf[req[r].route].resource \in Resources
          /\ PermissionOf[req[r].route].action \in Actions
      BY <2>1, GatewayAssumption DEF IInv, TypeOK, Request
    <2> QED
      BY <2>1, <2>2, SameDecision
  <1> QED
    BY <1>1, Invariant, PTL

\* The trail accounts for every refusal and every call, for any number of
\* interleaved requests, until it is full (emit).
THEOREM TrailIsComplete == Spec => []TrailExplainsOutcomes
  <1> SUFFICES IInv => TrailExplainsOutcomes
    BY Invariant, PTL
  <1> SUFFICES ASSUME IInv PROVE OutcomesAreRecorded /\ EventsTellOutcomes
    BY DEF TrailExplainsOutcomes
  <1>1. EventsTellOutcomes
    BY DEF IInv, EventsTellOutcomes, Tells
  <1>2. OutcomesAreRecorded
    <2>1. ASSUME NEW r \in Requests,
                 NEW action \in {"gateway.rate_limit_exceeded",
                                 "gateway.permission_denied", "gateway.proxy"},
                 Noted(action, r),
                 \A i \in DOMAIN events :
                    events[i].request = r => events[i].action = action
          PROVE  InTrail(action, r)
      <3>0. events \in Seq(AuditEvent)
        BY DEF IInv, TypeOK
      <3>1. ASSUME NEW i \in DOMAIN events, events[i].request = r
            PROVE  Recorded(events, Event(action, r))
        <4>0. events[i] \in AuditEvent
          BY <3>0
        <4>1. events[i] = [action |-> events[i].action, request |-> events[i].request]
          BY <4>0 DEF AuditEvent
        <4> QED
          BY <2>1, <3>1, <4>1 DEF Event, Recorded
      <3> QED
        BY <2>1, <3>1 DEF InTrail, Noted
    <2>2. ASSUME NEW r \in Requests
          PROVE  /\ Accounted(r)
                 /\ \A i \in DOMAIN events : Tells(events[i])
                 /\ \A i \in DOMAIN events : events[i].action \in
                        {"gateway.rate_limit_exceeded", "gateway.permission_denied",
                         "gateway.proxy"}
      <3>1. events \in Seq(AuditEvent)
        BY DEF IInv, TypeOK
      <3>2. \A i \in DOMAIN events : events[i] \in AuditEvent
        BY <3>1
      <3> QED
        BY <3>2 DEF IInv, AuditEvent
    <2>3. ASSUME NEW r \in Requests, Refused(r, 429)
          PROVE  InTrail("gateway.rate_limit_exceeded", r)
      BY <2>1, <2>2, <2>3 DEF Accounted, Tells, Refused, Attempted, At
    <2>4. ASSUME NEW r \in Requests, Refused(r, 403)
          PROVE  InTrail("gateway.permission_denied", r)
      BY <2>1, <2>2, <2>4 DEF Accounted, Tells, Refused, Attempted, At
    <2>5. ASSUME NEW r \in Requests, Attempted(r)
          PROVE  InTrail("gateway.proxy", r)
      BY <2>1, <2>2, <2>5 DEF Accounted, Tells, Refused, Attempted, At
    <2> QED
      BY <2>3, <2>4, <2>5 DEF OutcomesAreRecorded
  <1> QED
    BY <1>1, <1>2

\* Nothing that comes late, from an upstream or an error handler, replaces an
\* answer that was sent.
THEOREM AnswersAreFinal == Spec => AnswerIsFinal
  <1>1. IInv /\ [Next]_vars =>
            [\A r \in Requests : At(r, "done") => req'[r] = req[r]]_vars
    <2> SUFFICES ASSUME IInv, [Next]_vars, NEW q \in Requests, At(q, "done")
                 PROVE  req'[q] = req[q]
      OBVIOUS
    <2>1. TypeOK
      BY DEF IInv
    <2>2. ASSUME NEW r \in Requests, NEW stage \in Stage, NEW status \in Status,
                 NEW by \in Parties, Moves(r, stage, status, by)
          PROVE  req'[q] = req[q]
      <3>1. q # r
        BY <2>1, <2>2, MoveType
      <3> QED
        BY <2>1, <2>2, <3>1, MoveType
    <2> QED
      BY <2>1, <2>2, StepShape
  <1> QED
    BY <1>1, Invariant, PTL DEF Spec, AnswerIsFinal

-----------------------------------------------------------------------------
(* The quota of the requests in progress.                                  *)

\* Every bucket that was opened accounts for one quota at most, and a bucket
\* closes a window after it was opened: the client's k-th bucket closes at
\* k * Window or later.  What is in progress came through the k buckets.
QuotaInv(c) ==
    /\ IsFiniteSet(InProgress(c))
    /\ c \notin DOMAIN buckets => InProgress(c) = {}
    /\ c \in DOMAIN buckets =>
        LET b == buckets[c]
            k == b.resetAt \div Window
        IN  /\ Window <= b.resetAt /\ b.resetAt <= now + Window
            /\ Cardinality(InProgress(c)) <= k * RateLimitMax
            /\ Cardinality(InProgress(c)) <= (k - 1) * RateLimitMax + b.count

LEMMA DivType ==
    ASSUME NEW x \in Nat, NEW w \in Nat \ {0}
    PROVE  x \div w \in Nat
  BY SMTT(30)

LEMMA DivPositive ==
    ASSUME NEW x \in Nat, NEW w \in Nat \ {0}, w <= x
    PROVE  x \div w \in Nat \ {0}
  BY SMTT(30)

LEMMA DivAdd ==
    ASSUME NEW x \in Nat, NEW w \in Nat \ {0}
    PROVE  (x + w) \div w = x \div w + 1
  BY SMTT(30)

LEMMA DivMono ==
    ASSUME NEW x \in Nat, NEW y \in Nat, NEW w \in Nat \ {0}, x <= y
    PROVE  x \div w <= y \div w
  BY SMTT(30)

LEMMA TimesMono ==
    ASSUME NEW a \in Nat, NEW b \in Nat, NEW m \in Nat, a <= b
    PROVE  a * m \in Nat /\ a * m <= b * m
  BY SMTT(30)

\* Only the limiter's hook lets a request of the client in.
LEMMA OnlyHookAdmits ==
    ASSUME TypeOK, [Next]_vars
    PROVE  \/ \E r \in Requests : OnRequest(r)
           \/ /\ buckets' = buckets
              /\ now' \in {now, now + 1}
              /\ \A c : InProgress(c)' \subseteq InProgress(c)
  <1> DEFINE Admitted(q) ==
                /\ req[q].route # "healthz"
                /\ req[q].stage \in {"received", "authorized", "upstream", "body"}
             Quiet == /\ buckets' = buckets
                      /\ now' \in {now, now + 1}
                      /\ \A c : InProgress(c)' \subseteq InProgress(c)
  <1>1. ASSUME req' = req, buckets' = buckets, now' \in {now, now + 1}
        PROVE  Quiet
    BY <1>1 DEF InProgress
  <1>2. ASSUME NEW r \in Requests, NEW stage, NEW status,
               \/ req' = [req EXCEPT ![r].stage = stage]
               \/ req' = [req EXCEPT ![r].stage = stage, ![r].status = status]
               \/ req' = [req EXCEPT ![r].stage = stage, ![r].by = status],
               buckets' = buckets, now' = now,
               Admitted(r) \/ stage = "done" \/ req[r].route = "healthz"
        PROVE  Quiet
    <2>1. /\ \A q \in Requests \ {r} : req'[q] = req[q]
          /\ req'[r].client = req[r].client /\ req'[r].route = req[r].route
          /\ req'[r].stage = stage
      BY <1>2 DEF TypeOK, Request
    <2>2. ASSUME NEW c, NEW q \in InProgress(c)'
          PROVE  q \in InProgress(c)
      <3>1. CASE q = r
        BY <1>2, <2>1, <2>2, <3>1 DEF InProgress
      <3>2. CASE q # r
        BY <2>1, <2>2, <3>2 DEF InProgress
      <3> QED
        BY <3>1, <3>2
    <2> QED
      BY <1>2, <2>2
  <1> HIDE DEF Quiet
  <1>3. ASSUME NEW r \in Requests, Preflight(r) \/ OnProbe(r) \/ Handlers(r)
        PROVE  Quiet
    <2>1. buckets' = buckets /\ now' = now
      BY <1>3 DEF Preflight, OnProbe, Handlers, BodyRejected, Probe, Unauthorized, Me,
                  Denied, Permit, AnswerLocally, Forward
    <2>2. \/ req' = [req EXCEPT ![r].stage = "received"] /\ req[r].route = "healthz"
          \/ req' = [req EXCEPT ![r].stage = "authorized"] /\ Admitted(r)
          \/ req' = [req EXCEPT ![r].stage = "upstream"] /\ Admitted(r)
          \/ \E status : req' = [req EXCEPT ![r].stage = "done", ![r].status = status]
      BY <1>3, GatewayAssumption
         DEF Preflight, OnProbe, Handlers, BodyRejected, Probe, Unauthorized, Me, Denied,
             Permit, AnswerLocally, Forward, Move, Answer, At, ProtectedRoutes, LocalRoutes
    <2> HIDE DEF Admitted
    <2> QED
      BY <1>2, <2>1, <2>2
  <1>4. ASSUME NEW r \in Requests, Upstream(r)
        PROVE  Quiet
    BY <1>2, <1>4
       DEF Upstream, UpstreamResponds, UpstreamFails, BodyArrives, BodyBroken, Move,
           Answer, Relay, At
  <1>5. CASE Tick
    BY <1>1, <1>5 DEF Tick, Quiet
  <1>6. CASE UNCHANGED vars
    BY <1>1, <1>6 DEF vars, Quiet
  <1> QED
    BY <1>3, <1>4, <1>5, <1>6 DEF Next, Quiet

\* Where the bucket stays, the client's requests in progress only leave.
LEMMA QuotaKept ==
    ASSUME TypeOK, NEW c \in Clients, QuotaInv(c),
           c \in DOMAIN buckets' <=> c \in DOMAIN buckets,
           c \in DOMAIN buckets => buckets'[c] = buckets[c],
           now' \in {now, now + 1},
           InProgress(c)' \subseteq InProgress(c)
    PROVE  QuotaInv(c)'
  <1>1. /\ IsFiniteSet(InProgress(c)')
        /\ Cardinality(InProgress(c)') <= Cardinality(InProgress(c))
        /\ Cardinality(InProgress(c)') \in Nat
        /\ Cardinality(InProgress(c)) \in Nat
    BY FS_Subset, FS_CardinalityType DEF QuotaInv
  <1>2. CASE c \notin DOMAIN buckets
    BY <1>1, <1>2 DEF QuotaInv
  <1>3. CASE c \in DOMAIN buckets
    <2> DEFINE b == buckets[c]
               k == b.resetAt \div Window
    <2>1. /\ b.resetAt \in Nat /\ b.count \in Nat /\ now \in Nat
          /\ Window \in Nat \ {0} /\ RateLimitMax \in Nat
      BY <1>3, FixedWindowAssumption DEF TypeOK, Bucket
    <2>2. /\ Window <= b.resetAt /\ b.resetAt <= now + Window
          /\ Cardinality(InProgress(c)) <= k * RateLimitMax
          /\ Cardinality(InProgress(c)) <= (k - 1) * RateLimitMax + b.count
      BY <1>3 DEF QuotaInv
    <2>3. k \in Nat /\ k - 1 \in Nat
      <3>1. k \in Nat \ {0}
        BY <2>1, <2>2, DivPositive
      <3> QED
        BY <3>1
    <2>4. k * RateLimitMax \in Nat /\ (k - 1) * RateLimitMax \in Nat
      BY <2>1, <2>3
    <2> HIDE DEF k
    <2>5. /\ b.resetAt <= now' + Window
          /\ Cardinality(InProgress(c)') <= k * RateLimitMax
          /\ Cardinality(InProgress(c)') <= (k - 1) * RateLimitMax + b.count
      BY <1>1, <2>1, <2>2, <2>4
    <2> QED
      BY <1>1, <1>3, <2>2, <2>5 DEF QuotaInv, k
  <1> QED
    BY <1>2, <1>3

\* The hook lets one request in where the bucket has room, and opens a bucket only
\* after the previous one closed.
LEMMA QuotaSpent ==
    ASSUME TypeOK, NEW r \in Requests, OnRequest(r), NEW c \in Clients, QuotaInv(c)
    PROVE  QuotaInv(c)'
  <1> DEFINE n == Cardinality(InProgress(c))
             m == Cardinality(InProgress(c)')
             b == Counted(c)
             k == b.resetAt \div Window
  <1>1. /\ Window \in Nat \ {0} /\ RateLimitMax \in Nat /\ now \in Nat
        /\ \A d \in DOMAIN buckets :
              buckets[d].resetAt \in Nat /\ buckets[d].count \in Nat
    BY FixedWindowAssumption DEF TypeOK, Bucket
  <1>2. /\ now' = now
        /\ buckets' = [d \in DOMAIN buckets \cup {req[r].client} |->
                          IF d = req[r].client THEN Counted(req[r].client)
                                               ELSE buckets[d]]
    BY DEF OnRequest, Count
  <1>3. \E stage, status :
            /\ \/ req' = [req EXCEPT ![r].stage = stage]
               \/ req' = [req EXCEPT ![r].stage = stage, ![r].status = status]
            /\ \/ stage = "done"
               \/ stage = "received" /\ ~OverLimit(buckets'[req[r].client])
    BY DEF OnRequest, Move, Answer
  <1>4. \A d : \/ InProgress(d)' \subseteq InProgress(d)
               \/ /\ d = req[r].client
                  /\ InProgress(d)' = InProgress(d) \cup {r}
                  /\ ~OverLimit(buckets'[d])
    <2>1. PICK stage, status :
            /\ \/ req' = [req EXCEPT ![r].stage = stage]
               \/ req' = [req EXCEPT ![r].stage = stage, ![r].status = status]
            /\ \/ stage = "done"
               \/ stage = "received" /\ ~OverLimit(buckets'[req[r].client])
      BY <1>3
    <2>2. /\ \A q \in Requests \ {r} : req'[q] = req[q]
          /\ req'[r].client = req[r].client /\ req'[r].route = req[r].route
          /\ req'[r].stage = stage
          /\ req[r].stage = "idle" /\ req[r].route # "healthz"
      BY <2>1 DEF TypeOK, Request, OnRequest, At
    <2> SUFFICES ASSUME NEW d
                 PROVE  \/ InProgress(d)' \subseteq InProgress(d)
                        \/ /\ d = req[r].client
                           /\ InProgress(d)' = InProgress(d) \cup {r}
                           /\ ~OverLimit(buckets'[d])
      OBVIOUS
    <2>3. \A q \in Requests \ {r} : q \in InProgress(d)' <=> q \in InProgress(d)
      BY <2>2 DEF InProgress
    <2>4. InProgress(d)' \subseteq Requests /\ InProgress(d) \subseteq Requests
      BY DEF InProgress
    <2>5. CASE stage = "done" \/ d # req[r].client
      <3>1. r \notin InProgress(d)'
        BY <2>2, <2>5 DEF InProgress
      <3> QED
        BY <2>3, <2>4, <3>1
    <2>6. CASE stage = "received" /\ d = req[r].client
      <3>1. r \in InProgress(d)'
        BY <2>2, <2>6 DEF InProgress
      <3>2. InProgress(d)' = InProgress(d) \cup {r}
        BY <2>3, <2>4, <3>1
      <3> QED
        BY <2>1, <2>6, <3>2
    <2> QED
      BY <2>1, <2>5, <2>6
  <1>5. CASE c # req[r].client
    <2>1. /\ InProgress(c)' \subseteq InProgress(c)
          /\ c \in DOMAIN buckets' <=> c \in DOMAIN buckets
          /\ c \in DOMAIN buckets => buckets'[c] = buckets[c]
      BY <1>2, <1>4, <1>5
    <2> QED
      BY <1>2, <2>1, QuotaKept
  <1>6. CASE c = req[r].client
    <2>1. c \in DOMAIN buckets' /\ buckets'[c] = b
      BY <1>2, <1>6
    <2>2. IsFiniteSet(InProgress(c)') /\ n \in Nat /\ m \in Nat /\ m <= n + 1
      BY <1>4, FS_AddElement, FS_Subset, FS_CardinalityType DEF QuotaInv
    <2>3. m <= n \/ b.count <= RateLimitMax
      <3>1. CASE InProgress(c)' \subseteq InProgress(c)
        BY <3>1, FS_Subset DEF QuotaInv
      <3>2. CASE ~OverLimit(buckets'[c])
        <4>1. b.count \in Nat
          BY <1>1 DEF Counted, Open
        <4> QED
          BY <1>1, <2>1, <3>2, <4>1 DEF OverLimit
      <3> QED
        BY <1>4, <3>1, <3>2
    <2>4. CASE Open(c)
      <3> DEFINE old == buckets[c]
      <3>1. /\ c \in DOMAIN buckets
            /\ b.resetAt = old.resetAt /\ b.count = old.count + 1
        BY <1>1, <2>4 DEF Counted, Open, TypeOK, Bucket
      <3>2. /\ Window <= b.resetAt /\ b.resetAt <= now + Window
            /\ n <= k * RateLimitMax
            /\ n <= (k - 1) * RateLimitMax + old.count
        BY <3>1 DEF QuotaInv
      <3>3. k \in Nat /\ k - 1 \in Nat /\ old.count \in Nat
        <4>1. b.resetAt \in Nat /\ old.count \in Nat
          BY <1>1, <3>1
        <4>2. k \in Nat \ {0}
          BY <1>1, <3>2, <4>1, DivPositive
        <4> QED
          BY <4>1, <4>2
      <3>4. /\ k * RateLimitMax \in Nat /\ (k - 1) * RateLimitMax \in Nat
            /\ k * RateLimitMax = (k - 1) * RateLimitMax + RateLimitMax
        BY <1>1, <3>3
      <3> HIDE DEF k, n, m, b, old
      <3>5. /\ m <= k * RateLimitMax
            /\ m <= (k - 1) * RateLimitMax + b.count
        BY <1>1, <2>2, <2>3, <3>1, <3>2, <3>3, <3>4
      <3> QED
        BY <1>2, <2>1, <2>2, <3>2, <3>5 DEF QuotaInv, k, m
    <2>5. CASE ~Open(c)
      <3>1. b.resetAt = now + Window /\ b.count = 1
        BY <2>5 DEF Counted
      <3> DEFINE j == now \div Window
      <3>2. j \in Nat /\ k = j + 1
        BY <1>1, <3>1, DivType, DivAdd
      <3>3. /\ j * RateLimitMax \in Nat
            /\ k * RateLimitMax = j * RateLimitMax + RateLimitMax
        BY <1>1, <3>2
      <3>4. n <= j * RateLimitMax
        <4>1. CASE c \notin DOMAIN buckets
          BY <4>1, <3>3, FS_EmptySet DEF QuotaInv
        <4>2. CASE c \in DOMAIN buckets
          <5> DEFINE i == buckets[c].resetAt \div Window
          <5>1. buckets[c].resetAt \in Nat /\ buckets[c].resetAt <= now
            BY <1>1, <2>5, <4>2 DEF Open
          <5>2. i \in Nat /\ i <= j
            BY <1>1, <5>1, DivMono, DivType
          <5>3. n <= i * RateLimitMax
            BY <4>2 DEF QuotaInv
          <5> HIDE DEF i, j, n
          <5>4. i * RateLimitMax \in Nat /\ i * RateLimitMax <= j * RateLimitMax
            BY <1>1, <3>2, <5>2, TimesMono
          <5> QED
            BY <2>2, <3>3, <5>3, <5>4
        <4> QED
          BY <4>1, <4>2
      <3> HIDE DEF k, n, m, b, j
      <3>5. /\ m <= k * RateLimitMax
            /\ m <= (k - 1) * RateLimitMax + b.count
        BY <1>1, <2>2, <2>3, <3>1, <3>2, <3>3, <3>4
      <3>6. Window <= b.resetAt /\ b.resetAt <= now + Window
        BY <1>1, <3>1
      <3> QED
        BY <1>2, <2>1, <2>2, <3>5, <3>6 DEF QuotaInv, k, m
    <2> QED
      BY <2>4, <2>5
  <1> QED
    BY <1>5, <1>6

\* However slow the services are, a client has one quota per elapsed window in
\* progress at most, for any number of requests, clients and services.
THEOREM ProgressIsBounded == Spec => []InProgressWithinQuota
  <1> DEFINE Quotas == \A c \in Clients : QuotaInv(c)
  <1>1. Init => Quotas
    <2> SUFFICES ASSUME Init, NEW c \in Clients PROVE QuotaInv(c)
      OBVIOUS
    <2>1. InProgress(c) = {}
      BY DEF Init, InProgress
    <2> QED
      BY <2>1, FS_EmptySet DEF Init, QuotaInv
  <1>2. TypeOK /\ Quotas /\ [Next]_vars => Quotas'
    BY OnlyHookAdmits, QuotaKept, QuotaSpent
  <1>3. TypeOK /\ Quotas => InProgressWithinQuota
    <2> SUFFICES ASSUME TypeOK, NEW c \in Clients, QuotaInv(c)
                 PROVE  Cardinality(InProgress(c)) <= RateLimitMax * (now \div Window + 1)
      BY DEF InProgressWithinQuota
    <2> DEFINE j == now \div Window
               n == Cardinality(InProgress(c))
    <2>0. Window \in Nat \ {0} /\ RateLimitMax \in Nat /\ now \in Nat
      BY FixedWindowAssumption DEF TypeOK
    <2>1. /\ j \in Nat /\ (now + Window) \div Window = j + 1
          /\ n \in Nat
      BY <2>0, DivType, DivAdd, FS_CardinalityType DEF QuotaInv
    <2>2. CASE c \notin DOMAIN buckets
      <3>1. n = 0
        BY <2>2, FS_EmptySet DEF QuotaInv
      <3> HIDE DEF j, n
      <3>2. RateLimitMax * (j + 1) \in Nat
        BY <2>0, <2>1
      <3> QED
        BY <3>1, <3>2 DEF j, n
    <2>3. CASE c \in DOMAIN buckets
      <3> DEFINE k == buckets[c].resetAt \div Window
      <3>1. /\ buckets[c].resetAt \in Nat /\ buckets[c].resetAt <= now + Window
            /\ n <= k * RateLimitMax
        BY <2>3 DEF QuotaInv, TypeOK, Bucket
      <3>2. k \in Nat /\ k <= j + 1
        <4>1. now + Window \in Nat
          BY <2>0
        <4>2. k <= (now + Window) \div Window
          BY <2>0, <3>1, <4>1, DivMono
        <4> QED
          BY <2>0, <2>1, <3>1, <4>2, DivType
      <3> HIDE DEF j, n, k
      <3>3. /\ k * RateLimitMax \in Nat
            /\ k * RateLimitMax <= (j + 1) * RateLimitMax
        BY <2>0, <2>1, <3>2, TimesMono
      <3>4. (j + 1) * RateLimitMax = RateLimitMax * (j + 1)
        BY <2>0, <2>1
      <3> QED
        BY <2>0, <2>1, <3>1, <3>3, <3>4 DEF j, n
    <2> QED
      BY <2>2, <2>3
  <1> QED
    BY <1>1, <1>2, <1>3, TypeCorrect, PTL DEF Spec

-----------------------------------------------------------------------------
(* The limiter alone, with the history of what it let pass (RateLimit).    *)

\* What the open bucket of the client let pass.
Spent(c) == IF buckets[c].count < RateLimitMax THEN buckets[c].count
                                               ELSE RateLimitMax

\* The history of a client seen from its bucket: the first of the last Spent(c)
\* requests opened it, the others of them came after and the rest before, and of
\* that rest fewer than a quota per boot were still in the window by then.
\* Without a bucket the process is young, and fewer than a quota per boot are in
\* the window now.
HistoryInv(c) ==
    LET s == served[c]
        n == Len(s)
        q == (1 + boots) * RateLimitMax - 1
    IN  /\ s \in Seq(Nat)
        /\ \A i \in DOMAIN s : s[i] <= now
        /\ c \in DOMAIN buckets =>
            LET opened == buckets[c].resetAt - Window
                m == Spent(c)
            IN  /\ buckets[c] \in [count : Nat, resetAt : Nat] /\ opened \in Nat
                /\ buckets[c].count >= 1
                /\ opened <= now /\ m <= n
                /\ \A i \in DOMAIN s :
                    /\ i <= n - m + 1 => s[i] <= opened
                    /\ i > n - m => s[i] >= opened
                    /\ i <= n - m - q => s[i] + Window <= opened
        /\ c \notin DOMAIN buckets =>
            \A i \in DOMAIN s : i <= n - q => s[i] + Window <= now
        /\ \A i, j \in DOMAIN s :
            j >= i + (2 + boots) * RateLimitMax - 1 => s[j] >= s[i] + Window

EarnedInv(c) ==
    c \in refused =>
        /\ Len(served[c]) >= RateLimitMax
        /\ \A i \in DOMAIN served[c] :
                i > Len(served[c]) - RateLimitMax => served[c][i] > now - Window

LimiterInv ==
    /\ now \in Nat /\ boots \in Nat
    /\ served \in [Clients -> Seq(Nat)]
    /\ refused \subseteq Clients
    /\ \A c \in Clients : HistoryInv(c) /\ EarnedInv(c)

LEMMA Quotas ==
    ASSUME boots \in Nat
    PROVE  /\ (1 + boots) * RateLimitMax \in Nat
           /\ RateLimitMax <= (1 + boots) * RateLimitMax
           /\ (2 + boots) * RateLimitMax = (1 + boots) * RateLimitMax + RateLimitMax
  <1>1. RateLimitMax \in Nat
    BY FixedWindowAssumption
  <1>2. boots * RateLimitMax \in Nat
    BY <1>1, SMTT(30)
  <1>3. (1 + boots) * RateLimitMax = boots * RateLimitMax + RateLimitMax
    BY <1>1
  <1>4. (2 + boots) * RateLimitMax = boots * RateLimitMax + RateLimitMax + RateLimitMax
    BY <1>1
  <1> QED
    BY <1>1, <1>2, <1>3, <1>4

\* Time passes: what left the window stays out of it.
LEMMA LimiterElapse ==
    ASSUME LimiterInv, Elapse
    PROVE  LimiterInv'
  <1>1. /\ now' = now + 1 /\ now \in Nat /\ refused' = {}
        /\ UNCHANGED <<buckets, boots, served>>
    BY DEF Elapse, LimiterInv
  <1>2. ASSUME NEW c \in Clients PROVE HistoryInv(c)'
    <2>1. HistoryInv(c)
      BY DEF LimiterInv
    <2>2. \A i \in DOMAIN served[c] : served[c][i] \in Nat
      BY <2>1 DEF HistoryInv
    <2>3. Window \in Nat
      BY FixedWindowAssumption
    <2> DEFINE q == (1 + boots) * RateLimitMax - 1
    <2> QED
      BY <1>1, <2>1, <2>2, <2>3 DEF HistoryInv, Spent
  <1> QED
    BY <1>1, <1>2 DEF LimiterInv, EarnedInv

\* A restart forgets the buckets: it forgives one quota more.
LEMMA LimiterRestart ==
    ASSUME LimiterInv, Restart
    PROVE  LimiterInv'
  <1>1. /\ buckets' = [d \in {} |-> 0] /\ boots' = boots + 1 /\ refused' = {}
        /\ UNCHANGED <<now, served>> /\ boots \in Nat /\ now \in Nat
    BY DEF Restart, LimiterInv
  <1> DEFINE q == (1 + boots) * RateLimitMax - 1
             p == (1 + boots') * RateLimitMax - 1
  <1>2. /\ RateLimitMax \in Nat /\ Window \in Nat
        /\ q \in Int /\ p = q + RateLimitMax
        /\ (2 + boots) * RateLimitMax - 1 = q + RateLimitMax
        /\ (2 + boots') * RateLimitMax - 1 = p + RateLimitMax
    <2>1. RateLimitMax \in Nat /\ Window \in Nat
      BY FixedWindowAssumption
    <2>2. boots' \in Nat
      BY <1>1
    <2>3. 1 + boots' = 2 + boots
      BY <1>1
    <2>4. (2 + boots') * RateLimitMax = (1 + boots') * RateLimitMax + RateLimitMax
      BY <2>1, <2>2
    <2> QED
      BY <1>1, <2>1, <2>3, <2>4, Quotas
  <1>3. ASSUME NEW c \in Clients PROVE HistoryInv(c)'
    <2> DEFINE s == served[c]
               n == Len(s)
    <2>1. HistoryInv(c)
      BY DEF LimiterInv
    <2>2. s \in Seq(Nat) /\ n \in Nat /\ \A i \in DOMAIN s : i \in Nat /\ s[i] \in Nat
      BY <2>1 DEF HistoryInv
    <2>3. ASSUME NEW i \in DOMAIN s, i <= n - p
          PROVE  s[i] + Window <= now
      <3>1. CASE c \in DOMAIN buckets
        <4> DEFINE opened == buckets[c].resetAt - Window
                   m == Spent(c)
        <4>1. /\ buckets[c].count \in Nat /\ opened \in Nat /\ opened <= now
              /\ i <= n - m - q => s[i] + Window <= opened
          BY <2>1, <3>1 DEF HistoryInv
        <4>2. m \in Nat /\ m <= RateLimitMax
          BY <1>2, <4>1 DEF Spent
        <4> HIDE DEF p, q, m, n, s, opened
        <4>3. s[i] + Window <= opened
          BY <1>2, <2>2, <2>3, <4>1, <4>2
        <4> QED
          BY <1>1, <1>2, <2>2, <4>1, <4>3
      <3>2. CASE c \notin DOMAIN buckets
        <4>1. i <= n - q => s[i] + Window <= now
          BY <2>1, <3>2 DEF HistoryInv
        <4> HIDE DEF p, q, n, s
        <4> QED
          BY <1>2, <2>2, <2>3, <4>1
      <3> QED
        BY <3>1, <3>2
    <2>4. ASSUME NEW i \in DOMAIN s, NEW j \in DOMAIN s, j >= i + (2 + boots') * RateLimitMax - 1
          PROVE  s[j] >= s[i] + Window
      <3>1. j >= i + (2 + boots) * RateLimitMax - 1 => s[j] >= s[i] + Window
        BY <2>1 DEF HistoryInv
      <3> HIDE DEF p, q, n, s
      <3> QED
        BY <1>2, <2>2, <2>4, <3>1
    <2>5. s' = s /\ n' = n /\ c \notin DOMAIN buckets'
      BY <1>1
    <2> QED
      BY <1>1, <2>1, <2>3, <2>4, <2>5 DEF HistoryInv
  <1> QED
    BY <1>1, <1>3 DEF LimiterInv, EarnedInv

\* The hook counts a request and lets it pass while the bucket has room.
LEMMA LimiterHit ==
    ASSUME LimiterInv, NEW c \in Clients, Hit(c)
    PROVE  LimiterInv'
  <1> DEFINE s == served[c]
             n == Len(s)
             t == served'[c]
             q == (1 + boots) * RateLimitMax - 1
             b == Counted(c)
             passed == b.count <= RateLimitMax
             opened == b.resetAt - Window
             m == IF b.count < RateLimitMax THEN b.count ELSE RateLimitMax
  <1>1. /\ RateLimitMax \in Nat /\ Window \in Nat \ {0} /\ now \in Nat /\ boots \in Nat
        /\ q \in Int /\ RateLimitMax <= q + 1
        /\ (2 + boots) * RateLimitMax - 1 = q + RateLimitMax
    BY FixedWindowAssumption, Quotas DEF LimiterInv
  <1>2. HistoryInv(c)
    BY DEF LimiterInv
  <1>3. /\ s \in Seq(Nat) /\ n \in Nat
        /\ \A i \in DOMAIN s : i \in 1 .. n /\ s[i] \in Nat /\ s[i] <= now
    BY <1>2 DEF HistoryInv
  <1>4. b \in [count : Nat, resetAt : Nat] /\ b.count >= 1
    <2>1. CASE Open(c)
      <3>1. c \in DOMAIN buckets
        BY <2>1 DEF Open
      <3>2. buckets[c] \in [count : Nat, resetAt : Nat]
        BY <1>2, <3>1 DEF HistoryInv
      <3> QED
        BY <2>1, <3>2 DEF Counted
    <2>2. CASE ~Open(c)
      BY <1>1, <2>2 DEF Counted
    <2> QED
      BY <2>1, <2>2
  <1>5. /\ now' = now /\ boots' = boots
        /\ buckets' = [d \in DOMAIN buckets \cup {c} |-> IF d = c THEN b ELSE buckets[d]]
    BY DEF Hit, Count
  <1>6. c \in DOMAIN buckets' /\ buckets'[c] = b
    BY <1>5
  <1>7. IF passed THEN refused' = {} /\ served' = [served EXCEPT ![c] = Append(s, now)]
                  ELSE refused' = {c} /\ served' = served
    BY <1>1, <1>4, <1>6 DEF Hit, OverLimit
  <1>8. served \in [Clients -> Seq(Nat)]
    BY DEF LimiterInv
  <1>9. IF passed THEN t = Append(s, now) ELSE t = s
    BY <1>7, <1>8
  <1>10. /\ t \in Seq(Nat)
         /\ Len(t) = IF passed THEN n + 1 ELSE n
         /\ \A i \in DOMAIN s : i \in DOMAIN t /\ t[i] = s[i]
         /\ \A i \in DOMAIN t : i \in 1 .. Len(t) /\ t[i] \in Nat
         /\ \A i \in DOMAIN t : i \in DOMAIN s \/ (passed /\ i = n + 1 /\ t[i] = now)
    <2> HIDE DEF t, passed
    <2>1. CASE passed
      <3>1. t = Append(s, now)
        BY <1>9, <2>1
      <3>2. /\ t \in Seq(Nat) /\ Len(t) = n + 1 /\ DOMAIN t = 1 .. n + 1
            /\ DOMAIN s = 1 .. n
            /\ \A i \in 1 .. n : t[i] = s[i]
            /\ t[n + 1] = now
        BY <1>1, <1>3, <3>1
      <3> HIDE DEF s, n
      <3>3. \A i \in 1 .. n + 1 : i \in 1 .. n \/ i = n + 1
        BY <1>3
      <3> QED
        BY <1>1, <1>3, <2>1, <3>2, <3>3
    <2>2. CASE ~passed
      BY <1>3, <1>9, <2>2
    <2> QED
      BY <2>1, <2>2
  \* The bucket after the request, and what it says of the history before it.
  <1>11. /\ opened \in Nat /\ opened <= now /\ m <= Len(t)
         /\ m \in Nat /\ m <= RateLimitMax
         /\ ~passed => m = RateLimitMax /\ opened > now - Window
         /\ \A i \in DOMAIN s :
                /\ i <= Len(t) - m + 1 => s[i] <= opened
                /\ i > Len(t) - m => s[i] >= opened
                /\ i <= Len(t) - m - q => s[i] + Window <= opened
         /\ passed => m >= 1
         /\ passed /\ m = 1 => opened = now
    <2>1. CASE Open(c)
      <3> DEFINE old == buckets[c]
                 k == Spent(c)
      <3>1. c \in DOMAIN buckets /\ old.resetAt > now
        BY <2>1 DEF Open
      <3>2. b.count = old.count + 1 /\ b.resetAt = old.resetAt
        <4>1. old \in [count : Nat, resetAt : Nat]
          BY <1>2, <3>1 DEF HistoryInv
        <4> QED
          BY <2>1, <4>1 DEF Counted
      <3>3. /\ old.count \in Nat /\ old.count >= 1 /\ old.resetAt \in Nat /\ old.resetAt - Window \in Nat
            /\ old.resetAt - Window <= now /\ k <= n
            /\ \A i \in DOMAIN s :
                    /\ i <= n - k + 1 => s[i] <= old.resetAt - Window
                    /\ i > n - k => s[i] >= old.resetAt - Window
                    /\ i <= n - k - q => s[i] + Window <= old.resetAt - Window
        BY <1>2, <3>1 DEF HistoryInv
      <3>4. k = IF old.count < RateLimitMax THEN old.count ELSE RateLimitMax
        BY DEF Spent
      <3>5. opened = old.resetAt - Window
        BY <3>2
      <3>6. /\ passed => m = k + 1
            /\ ~passed => m = k /\ m = RateLimitMax
            /\ k \in Nat
            /\ passed => k >= 1
        <4>1. /\ RateLimitMax \in Nat /\ old.count \in Nat /\ old.count >= 1
              /\ b.count = old.count + 1
          BY <1>1, <3>2, <3>3
        <4> HIDE DEF b, k, old
        <4>2. k \in Nat
          BY <3>4, <4>1
        <4>3. CASE passed
          BY <3>4, <4>1, <4>2, <4>3
        <4>4. CASE ~passed
          BY <3>4, <4>1, <4>2, <4>4
        <4> QED
          BY <4>2, <4>3, <4>4
      <3>7. Len(t) - m = n - k /\ Len(t) \in Nat /\ m \in Nat /\ m <= RateLimitMax
        <4>1. k <= RateLimitMax
          BY <1>1, <3>3, <3>4
        <4>2. passed => m <= RateLimitMax
          BY <1>1, <1>4
        <4> HIDE DEF passed, m, n, t, k
        <4>3. CASE passed
          BY <1>1, <1>3, <1>10, <3>6, <4>2, <4>3
        <4>4. CASE ~passed
          BY <1>1, <1>3, <1>10, <3>6, <4>1, <4>4
        <4> QED
          BY <4>3, <4>4
      <3> HIDE DEF s, n, t, q, passed, m, k, b, opened
      <3>8. /\ opened \in Nat /\ opened <= now /\ opened > now - Window
            /\ passed => m >= 1
        BY <1>1, <3>1, <3>3, <3>5, <3>6
      <3>9. m <= Len(t)
        BY <1>3, <3>3, <3>6, <3>7
      <3>10. ASSUME NEW i \in DOMAIN s
             PROVE  /\ i <= Len(t) - m + 1 => s[i] <= opened
                    /\ i > Len(t) - m => s[i] >= opened
                    /\ i <= Len(t) - m - q => s[i] + Window <= opened
        BY <3>3, <3>5, <3>7
      <3> QED
        BY <3>6, <3>7, <3>8, <3>9, <3>10
    <2>2. CASE ~Open(c)
      <3>1. b.count = 1 /\ b.resetAt = now + Window
        BY <2>2 DEF Counted
      <3>2. /\ opened = now
            /\ passed => m = 1
            /\ ~passed => m = 0 /\ RateLimitMax = 0
        BY <1>1, <3>1
      <3>3. Len(t) - m = n /\ m \in Nat /\ m <= RateLimitMax /\ m <= Len(t)
        <4>1. passed => RateLimitMax >= 1
          BY <1>1, <3>1
        <4> HIDE DEF passed, m, n, t
        <4>2. CASE passed
          BY <1>1, <1>3, <1>10, <3>2, <4>1, <4>2
        <4>3. CASE ~passed
          BY <1>1, <1>3, <1>10, <3>2, <4>3
        <4> QED
          BY <4>2, <4>3
      <3>4. ASSUME NEW i \in DOMAIN s, i <= n - q
            PROVE  s[i] + Window <= now
        <4>1. CASE c \notin DOMAIN buckets
          BY <1>2, <3>4, <4>1 DEF HistoryInv
        <4>2. CASE c \in DOMAIN buckets
          <5> DEFINE old == buckets[c]
                     k == Spent(c)
          <5>1. /\ old.count \in Nat /\ old.resetAt \in Nat
                /\ i <= n - k + 1 => s[i] <= old.resetAt - Window
            BY <1>2, <4>2 DEF HistoryInv
          <5>2. k \in Nat /\ k <= RateLimitMax
            BY <1>1, <5>1 DEF Spent
          <5>3. ~(old.resetAt > now)
            BY <2>2, <4>2 DEF Open
          <5> HIDE DEF s, n, q, k, old, b
          <5>4. i \in Nat /\ s[i] \in Nat /\ i <= n - k + 1
            BY <1>1, <1>3, <3>4, <5>2
          <5> QED
            BY <1>1, <5>1, <5>3, <5>4
        <4> QED
          BY <4>1, <4>2
      <3> HIDE DEF s, n, t, q, passed, m
      <3> QED
        BY <1>1, <1>3, <1>10, <3>2, <3>3, <3>4, SMTT(60)
    <2> QED
      BY <2>1, <2>2
  <1> HIDE DEF s, n, t, q, b, passed, opened, m
  <1>12. ASSUME NEW i \in DOMAIN t, NEW j \in DOMAIN t, j >= i + (2 + boots) * RateLimitMax - 1
         PROVE  t[j] >= t[i] + Window
    <2>1. i \in Nat /\ j \in Nat
      BY <1>10
    <2>2. CASE j \in DOMAIN s
      <3>1. i \in DOMAIN s
        BY <1>1, <1>3, <1>10, <1>11, <1>12, <2>1, <2>2
      <3>2. s[j] >= s[i] + Window
        BY <1>2, <1>12, <2>2, <3>1 DEF HistoryInv, s
      <3> QED
        BY <1>10, <2>2, <3>1, <3>2
    <2>3. CASE passed /\ j = n + 1 /\ t[j] = now
      <3>1. RateLimitMax >= 1
        BY <1>1, <1>11, <2>3
      <3>2. i <= Len(t) - m - q /\ i # j
        BY <1>1, <1>3, <1>10, <1>11, <1>12, <2>1, <2>3, <3>1
      <3>3. i \in DOMAIN s
        BY <1>10, <2>3, <3>2
      <3>4. s[i] + Window <= opened
        BY <1>11, <3>2, <3>3
      <3> QED
        BY <1>1, <1>3, <1>10, <1>11, <2>3, <3>3, <3>4
    <2> QED
      BY <1>10, <2>2, <2>3
  <1>13. HistoryInv(c)'
    <2>1. /\ \A i \in DOMAIN t : t[i] <= now
          /\ \A i \in DOMAIN t :
                /\ i <= Len(t) - m + 1 => t[i] <= opened
                /\ i > Len(t) - m => t[i] >= opened
                /\ i <= Len(t) - m - q => t[i] + Window <= opened
      <3> SUFFICES ASSUME NEW i \in DOMAIN t
                   PROVE  /\ t[i] <= now
                          /\ i <= Len(t) - m + 1 => t[i] <= opened
                          /\ i > Len(t) - m => t[i] >= opened
                          /\ i <= Len(t) - m - q => t[i] + Window <= opened
        OBVIOUS
      <3>1. CASE i \in DOMAIN s
        BY <1>3, <1>10, <1>11, <3>1
      <3>2. CASE passed /\ i = n + 1 /\ t[i] = now
        BY <1>1, <1>3, <1>10, <1>11, <3>2
      <3> QED
        BY <1>10, <3>1, <3>2
    <2>2. /\ buckets'[c].resetAt - Window = opened /\ Spent(c)' = m
          /\ buckets'[c] \in [count : Nat, resetAt : Nat] /\ buckets'[c].count >= 1
      BY <1>4, <1>6 DEF Spent, opened, m
    <2>3. (1 + boots') * RateLimitMax - 1 = q
      BY <1>5 DEF q
    <2> QED
      BY <1>1, <1>5, <1>6, <1>10, <1>11, <1>12, <2>1, <2>2, <2>3 DEF HistoryInv, t
  <1>14. EarnedInv(c)'
    <2>1. CASE passed
      BY <1>7, <2>1 DEF EarnedInv
    <2>2. CASE ~passed
      <3>1. /\ Len(t) >= RateLimitMax
            /\ \A i \in DOMAIN t : i > Len(t) - RateLimitMax => t[i] > now - Window
        BY <1>1, <1>3, <1>10, <1>11, <2>2
      <3> QED
        BY <1>5, <3>1 DEF EarnedInv, t
    <2> QED
      BY <2>1, <2>2
  <1>15. ASSUME NEW d \in Clients, d # c
         PROVE  HistoryInv(d)' /\ EarnedInv(d)'
    <2>1. served'[d] = served[d] /\ d \notin refused'
      BY <1>7, <1>8, <1>15
    <2>2. /\ d \in DOMAIN buckets' <=> d \in DOMAIN buckets
          /\ d \in DOMAIN buckets => buckets'[d] = buckets[d]
      BY <1>5, <1>15
    <2>3. HistoryInv(d)
      BY DEF LimiterInv
    <2> QED
      BY <1>5, <2>1, <2>2, <2>3 DEF HistoryInv, EarnedInv, Spent
  <1>16. served' \in [Clients -> Seq(Nat)] /\ refused' \subseteq Clients
    <2>1. Append(served[c], now) \in Seq(Nat)
      BY <1>1, <1>8
    <2> QED
      BY <1>7, <1>8, <2>1 DEF s
  <1> QED
    BY <1>1, <1>5, <1>13, <1>14, <1>15, <1>16 DEF LimiterInv

LEMMA LimiterInvariant == LimiterSpec => []LimiterInv
  <1>1. LimiterInit => LimiterInv
    <2> SUFFICES ASSUME LimiterInit PROVE LimiterInv
      OBVIOUS
    <2>1. \A c \in Clients : served[c] = <<>> /\ c \notin DOMAIN buckets /\ c \notin refused
      BY DEF LimiterInit
    <2>2. ASSUME NEW c \in Clients PROVE HistoryInv(c) /\ EarnedInv(c)
      <3>0. <<>> \in Seq(Nat) /\ DOMAIN <<>> = {}
        OBVIOUS
      <3>1. served[c] \in Seq(Nat) /\ DOMAIN served[c] = {}
        BY <2>1, <3>0, Zenon
      <3> QED
        BY <2>1, <3>1 DEF HistoryInv, EarnedInv
    <2> QED
      BY <2>2 DEF LimiterInit, LimiterInv
  <1>2. LimiterInv /\ [LimiterNext]_limiterVars => LimiterInv'
    <2>1. ASSUME LimiterInv, UNCHANGED limiterVars
          PROVE  LimiterInv'
      BY <2>1 DEF limiterVars, LimiterInv, HistoryInv, EarnedInv, Spent
    <2> QED
      BY <2>1, LimiterHit, LimiterElapse, LimiterRestart DEF LimiterNext
  <1> QED
    BY <1>1, <1>2, PTL DEF LimiterSpec

\* The state of the limiter and its history keep their types.
THEOREM LimiterTypeCorrect == LimiterSpec => []LimiterTypeOK
  <1> USE FixedWindowAssumption, RateLimitAssumption
  <1>1. LimiterInit => LimiterTypeOK
    <2>1. <<>> \in Seq(Instants)
      OBVIOUS
    <2> QED
      BY <2>1 DEF LimiterInit, LimiterTypeOK, Instants
  <1>2. ASSUME LimiterTypeOK, NEW c \in Clients, Hit(c)
        PROVE  LimiterTypeOK'
    <2>1. Counted(c) \in Bucket
      BY <1>2 DEF Hit, Count, Counted, Open, Bucket, LimiterTypeOK, Instants
    <2>2. /\ DOMAIN buckets' \subseteq Clients
          /\ \A d \in DOMAIN buckets' : buckets'[d] \in Bucket
      BY <1>2, <2>1 DEF Hit, Count, LimiterTypeOK
    <2>3. Append(served[c], now) \in Seq(Instants)
      BY <1>2 DEF LimiterTypeOK
    <2>4. served' \in [Clients -> Seq(Instants)] /\ refused' \subseteq Clients
      BY <1>2, <2>3 DEF Hit, LimiterTypeOK
    <2> QED
      BY <1>2, <2>2, <2>4 DEF Hit, LimiterTypeOK
  <1>3. LimiterTypeOK /\ Elapse => LimiterTypeOK'
    BY DEF Elapse, LimiterTypeOK, Instants
  <1>4. LimiterTypeOK /\ Restart => LimiterTypeOK'
    BY DEF Restart, LimiterTypeOK
  <1>5. LimiterTypeOK /\ UNCHANGED limiterVars => LimiterTypeOK'
    BY DEF limiterVars, LimiterTypeOK
  <1>6. LimiterTypeOK /\ [LimiterNext]_limiterVars => LimiterTypeOK'
    BY <1>2, <1>3, <1>4, <1>5 DEF LimiterNext
  <1> QED
    BY <1>1, <1>6, PTL DEF LimiterSpec

\* Less than a window takes in fewer than two quotas of a client, with
\* one quota more for every restart: fixed windows never pass a larger burst.
THEOREM BurstsAreBounded == LimiterSpec => []BurstBound
  <1>1. LimiterInv => BurstBound
    BY DEF LimiterInv, HistoryInv, BurstBound
  <1> QED
    BY <1>1, LimiterInvariant, PTL

\* Whoever gets a 429 spent a whole quota within the past window: refused
\* requests do not put off the end of the window.
THEOREM RefusalsAreEarned == LimiterSpec => []RefusalIsEarned
  <1>1. LimiterInv => RefusalIsEarned
    BY DEF LimiterInv, EarnedInv, RefusalIsEarned
  <1> QED
    BY <1>1, LimiterInvariant, PTL

=============================================================================
