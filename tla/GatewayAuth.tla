----------------------------- MODULE GatewayAuth -----------------------------
(***************************************************************************)
(* AuthService of the gateway (apps/gateway/src/auth.ts): login, refresh   *)
(* with rotation and reuse detection, logout, and what a process restart   *)
(* does to it.                                                             *)
(*                                                                         *)
(* Node runs one handler at a time and AuthService awaits nothing, so each *)
(* public method is one action.  The token that a request carries is any   *)
(* token the service ever issued: the network may delay it, deliver it     *)
(* twice, or deliver it after the service restarted.                       *)
(*                                                                         *)
(* Date.now() is a wall clock.  It counts ticks (milliseconds in the       *)
(* code), a JWT counts whole seconds of Second ticks.  The code reads the  *)
(* clock several times in one handler; MaxDrift bounds what passes between *)
(* two reads of the same handler.                                          *)
(***************************************************************************)
EXTENDS AuditLog

CONSTANTS
    Users,             \* the seeded local users
    Families,          \* pool of family UUIDs
    Jtis,              \* pool of refresh token UUIDs
    RefreshTtl,        \* config.refreshTokenTtlSeconds
    Second,            \* clock ticks in a second
    MaxNow,            \* bound: last instant of the clock
    MaxDrift,          \* bound: ticks between two clock reads of a handler
    MaxBoots,          \* bound: number of process restarts
    AppEnv,            \* APP_ENV: "local", "demo", "staging", "production", ...
    NoToken, NoFamily  \* "absent" markers

ASSUME GatewayAuthAssumption ==
    /\ RefreshTtl \in Nat
    /\ Second \in Nat \ {0}
    /\ MaxNow \in Nat
    /\ MaxDrift \in Nat
    /\ MaxBoots \in Nat
    /\ NoToken \notin [sub : Users, jti : Jtis, familyId : Families,
                       exp : 0 .. MaxNow + RefreshTtl, key : 0 .. MaxBoots + 1]

VARIABLES
    refreshTokens,     \* Map jti -> RefreshTokenRecord
    families,          \* Map familyId -> Set of jti
    revokedFamilies,   \* Set of familyId
    events,            \* AuditLog.events
    secret,            \* config.jwtSecret: 0 when JWT_SECRET is set, n when it
                       \* is the random secret of the n-th start
    boots,             \* restarts so far
    issued,            \* refresh tokens handed out, now in the hands of clients
    now,               \* Date.now()
    reply              \* what the last handler answered, and the token that a
                       \* logout or a reuse was about

store == <<refreshTokens, families, revokedFamilies>>
vars  == <<refreshTokens, families, revokedFamilies, events, secret, boots,
           issued, now, reply>>

(***************************************************************************)
(* Data.  A refresh token is its JWT payload with the key that signed it;  *)
(* tokenHash is SHA-256 of the token, injective as far as any property can *)
(* tell, so the token itself stands for it.                                *)
(***************************************************************************)
RefreshToken == [sub : Users, jti : Jtis, familyId : Families,
                 exp : 0 .. MaxNow + RefreshTtl, key : 0 .. MaxBoots + 1]

RefreshTokenRecord == [familyId : Families, tokenHash : RefreshToken,
                       user : Users, expiresAt : Nat, revoked : BOOLEAN]

Status == {"none", "tokens", "INVALID_CREDENTIALS", "INVALID_REFRESH_TOKEN",
           "REFRESH_TOKEN_REUSE_DETECTED", "logged_out"}

AuditEvent == [action : {"auth.login_success", "auth.login_failed",
                         "auth.refresh_rotated", "auth.refresh_reuse_detected",
                         "auth.logout", "auth.logout_invalid_token"},
               actor : Users \cup {NoToken},
               familyId : Families \cup {NoFamily}]

Event(action, actor, familyId) ==
    [action |-> action, actor |-> actor, familyId |-> familyId]

Reply(status, token) == [status |-> status, token |-> token]

SecondOf(t) == t \div Second

\* jsonwebtoken.verify: signed by this process's secret, and not expired at t.
VerifyRefreshToken(token, t) == token.key = secret /\ SecondOf(t) < token.exp

UsedJtis     == {token.jti : token \in issued}
UsedFamilies == {token.familyId : token \in issued}

(***************************************************************************)
(* issueTokenPair: sign at signAt, store the record at recordAt.           *)
(***************************************************************************)
SignedToken(user, familyId, jti, signAt) ==
    [sub |-> user, jti |-> jti, familyId |-> familyId,
     exp |-> SecondOf(signAt) + RefreshTtl, key |-> secret]

\* Faulty variants: the TTL is forgotten; it is added in seconds to a time in
\* milliseconds.
NewRecordNoTtl(token, recordAt) ==
    [familyId |-> token.familyId, tokenHash |-> token, user |-> token.sub,
     expiresAt |-> recordAt, revoked |-> FALSE]

NewRecord(token, recordAt) ==
    [familyId |-> token.familyId, tokenHash |-> token, user |-> token.sub,
     expiresAt |-> recordAt + RefreshTtl * Second, revoked |-> FALSE]

\* refreshTokens.set(jti, record) on the map records.
WithRecord(records, token, recordAt) ==
    [j \in DOMAIN records \cup {token.jti} |->
        IF j = token.jti THEN NewRecord(token, recordAt) ELSE records[j]]

\* Faulty variants: only the first token of a family is indexed; the set of a
\* family is started anew for every token.
WithMemberFirst(index, token) ==
    [f \in DOMAIN index \cup {token.familyId} |->
        IF f \in DOMAIN index THEN index[f] ELSE {token.jti}]

WithMemberReset(index, token) ==
    [f \in DOMAIN index \cup {token.familyId} |->
        IF f = token.familyId THEN {token.jti} ELSE index[f]]

\* families.get(familyId) ?? new Set(), with jti added.
WithMember(index, token) ==
    [f \in DOMAIN index \cup {token.familyId} |->
        IF f # token.familyId THEN index[f]
        ELSE IF f \in DOMAIN index THEN index[f] \cup {token.jti}
                                   ELSE {token.jti}]

\* Faulty variant: the flag is never set.
RevokeNone(records, S) == records

\* record.revoked = true for every jti in S that has a record.
Revoke(records, S) ==
    [j \in DOMAIN records |->
        IF j \in S THEN [records[j] EXCEPT !.revoked = TRUE] ELSE records[j]]

Members(familyId) == IF familyId \in DOMAIN families THEN families[familyId]
                                                     ELSE {}

(***************************************************************************)
(* Init and actions                                                        *)
(***************************************************************************)
\* The environment either sets JWT_SECRET or not; loadConfig() throws, and there
\* is no process, when it is missing in production.
FirstSecret == IF AppEnv = "production" THEN {0} ELSE {0, 1}

Init ==
    /\ refreshTokens = [j \in {} |-> 0]
    /\ families = [f \in {} |-> 0]
    /\ revokedFamilies = {}
    /\ events = <<>>
    /\ secret \in FirstSecret
    /\ boots = 0
    /\ issued = {}
    /\ now = 0
    /\ reply = Reply("none", NoToken)

\* login() with the right password: a new family with one token.
Login(user, familyId, jti, recordDrift) ==
    LET token == SignedToken(user, familyId, jti, now)
    IN  /\ familyId \notin UsedFamilies
        /\ jti \notin UsedJtis
        /\ now + recordDrift <= MaxNow
        /\ now' = now + recordDrift
        /\ refreshTokens' = WithRecord(refreshTokens, token, now')
        /\ families' = WithMember(families, token)
        /\ issued' = issued \cup {token}
        /\ events' = Emit(events, Event("auth.login_success", user, NoFamily))
        /\ reply' = Reply("tokens", NoToken)
        /\ UNCHANGED <<revokedFamilies, secret, boots>>

\* login() with a wrong password or an unknown name: audited, refused.
LoginFailed(user) ==
    /\ events' = Emit(events, Event("auth.login_failed", user, NoFamily))
    /\ reply' = Reply("INVALID_CREDENTIALS", NoToken)
    /\ UNCHANGED <<store, secret, boots, issued, now>>

\* refresh() of a token the JWT library rejects: thrown before any change.
RefreshInvalid(token) ==
    /\ ~VerifyRefreshToken(token, now)
    /\ reply' = Reply("INVALID_REFRESH_TOKEN", NoToken)
    /\ UNCHANGED <<store, events, secret, boots, issued, now>>

\* Faulty variant: a spent record still vouches for its token.
StoredOrSpent(token) ==
    /\ token.familyId \notin revokedFamilies
    /\ token.jti \in DOMAIN refreshTokens
    /\ refreshTokens[token.jti].tokenHash = token

\* The condition of refresh(), negated: the stored record vouches for the token.
Stored(token) ==
    /\ token.familyId \notin revokedFamilies
    /\ token.jti \in DOMAIN refreshTokens
    /\ ~refreshTokens[token.jti].revoked
    /\ refreshTokens[token.jti].tokenHash = token

Accepted(token, t) ==
    /\ Stored(token)
    /\ t <= refreshTokens[token.jti].expiresAt

\* Faulty variants: only the presented token is revoked; no event is emitted.
RefreshReuseTokenOnly(token, checkDrift) ==
    /\ VerifyRefreshToken(token, now)
    /\ now + checkDrift <= MaxNow
    /\ now' = now + checkDrift
    /\ ~Accepted(token, now')
    /\ refreshTokens' = Revoke(refreshTokens, {token.jti})
    /\ reply' = Reply("REFRESH_TOKEN_REUSE_DETECTED", token)
    /\ UNCHANGED <<families, revokedFamilies, events, secret, boots, issued>>

RefreshReuseUnaudited(token, checkDrift) ==
    /\ VerifyRefreshToken(token, now)
    /\ now + checkDrift <= MaxNow
    /\ now' = now + checkDrift
    /\ ~Accepted(token, now')
    /\ revokedFamilies' = revokedFamilies \cup {token.familyId}
    /\ refreshTokens' = Revoke(refreshTokens, Members(token.familyId))
    /\ reply' = Reply("REFRESH_TOKEN_REUSE_DETECTED", token)
    /\ UNCHANGED <<families, events, secret, boots, issued>>

\* refresh() of a verified but refused token: the family is revoked.
RefreshReuse(token, checkDrift) ==
    /\ VerifyRefreshToken(token, now)
    /\ now + checkDrift <= MaxNow
    /\ now' = now + checkDrift
    /\ ~Accepted(token, now')
    /\ revokedFamilies' = revokedFamilies \cup {token.familyId}
    /\ refreshTokens' = Revoke(refreshTokens, Members(token.familyId))
    /\ events' = Emit(events, Event("auth.refresh_reuse_detected",
                                    token.sub, token.familyId))
    /\ reply' = Reply("REFRESH_TOKEN_REUSE_DETECTED", token)
    /\ UNCHANGED <<families, secret, boots, issued>>

\* refresh() of a good token: it is spent, a successor joins its family.
RefreshRotate(token, jti, checkDrift, recordDrift) ==
    LET checkAt == now + checkDrift
        next    == SignedToken(refreshTokens[token.jti].user, token.familyId,
                               jti, checkAt)
    IN  /\ VerifyRefreshToken(token, now)
        /\ checkAt + recordDrift <= MaxNow
        /\ Accepted(token, checkAt)
        /\ jti \notin UsedJtis
        /\ now' = checkAt + recordDrift
        /\ refreshTokens' = WithRecord(Revoke(refreshTokens, {token.jti}),
                                       next, now')
        /\ families' = WithMember(families, next)
        /\ issued' = issued \cup {next}
        /\ events' = Emit(events, Event("auth.refresh_rotated", next.sub,
                                        token.familyId))
        /\ reply' = Reply("tokens", NoToken)
        /\ UNCHANGED <<revokedFamilies, secret, boots>>

\* logout() of a verified token: its record, if any, is revoked.
Logout(token) ==
    /\ VerifyRefreshToken(token, now)
    /\ refreshTokens' = Revoke(refreshTokens, {token.jti})
    /\ events' = Emit(events, Event("auth.logout", token.sub, NoFamily))
    /\ reply' = Reply("logged_out", token)
    /\ UNCHANGED <<families, revokedFamilies, secret, boots, issued, now>>

\* logout() of a token the JWT library rejects: audited, nothing revoked.
LogoutInvalid(token) ==
    /\ ~VerifyRefreshToken(token, now)
    /\ events' = Emit(events, Event("auth.logout_invalid_token", NoToken, NoFamily))
    /\ reply' = Reply("logged_out", NoToken)
    /\ UNCHANGED <<store, secret, boots, issued, now>>

\* Faulty variant: without JWT_SECRET a constant secret is used.
RestartFixedSecret ==
    /\ boots < MaxBoots
    /\ boots' = boots + 1
    /\ refreshTokens' = [j \in {} |-> 0]
    /\ families' = [f \in {} |-> 0]
    /\ revokedFamilies' = {}
    /\ events' = <<>>
    /\ reply' = Reply("none", NoToken)
    /\ UNCHANGED <<secret, issued, now>>

\* The process restarts: every Map is empty again; the secret survives only
\* when it comes from the environment.  Clients keep their tokens.
Restart ==
    /\ boots < MaxBoots
    /\ boots' = boots + 1
    /\ secret' = IF secret = 0 THEN 0 ELSE secret + 1
    /\ refreshTokens' = [j \in {} |-> 0]
    /\ families' = [f \in {} |-> 0]
    /\ revokedFamilies' = {}
    /\ events' = <<>>
    /\ reply' = Reply("none", NoToken)
    /\ UNCHANGED <<issued, now>>

\* The wall clock moves; it may be set back.
ClockStep ==
    /\ now' \in 0 .. MaxNow
    /\ now' # now
    /\ UNCHANGED <<store, events, secret, boots, issued, reply>>

Drift == 0 .. MaxDrift

Next ==
    \/ \E user \in Users, f \in Families, j \in Jtis, d \in Drift :
            Login(user, f, j, d)
    \/ \E user \in Users : LoginFailed(user)
    \/ \E token \in issued :
            \/ RefreshInvalid(token)
            \/ \E d \in Drift : RefreshReuse(token, d)
            \/ \E j \in Jtis, d, e \in Drift : RefreshRotate(token, j, d, e)
            \/ Logout(token)
            \/ LogoutInvalid(token)
    \/ Restart
    \/ ClockStep

Spec == Init /\ [][Next]_vars

(***************************************************************************)
(* Properties                                                              *)
(***************************************************************************)
TypeOK ==
    /\ DOMAIN refreshTokens \subseteq Jtis
    /\ \A j \in DOMAIN refreshTokens : refreshTokens[j] \in RefreshTokenRecord
    /\ DOMAIN families \subseteq Families
    /\ \A f \in DOMAIN families : families[f] \subseteq Jtis
    /\ revokedFamilies \subseteq Families
    /\ events \in Seq(AuditEvent)
    /\ Len(events) <= AuditCap
    /\ boots \in 0 .. MaxBoots
    /\ secret \in {0, boots + 1}
    /\ issued \subseteq RefreshToken
    /\ now \in 0 .. MaxNow
    /\ reply \in [status : Status, token : RefreshToken \cup {NoToken}]

\* The issued tokens that refresh() would still exchange, expiry aside.
Live == {token \in issued : token.key = secret /\ Stored(token)}

\* "Refresh tokens are single-use": however old tokens are replayed, at most
\* one unrevoked record exists in a family.
SingleLive ==
    \A i, j \in DOMAIN refreshTokens :
        /\ refreshTokens[i].familyId = refreshTokens[j].familyId
        /\ ~refreshTokens[i].revoked
        /\ ~refreshTokens[j].revoked
        => i = j

\* revokeFamily reaches every record of the family, now and for the records
\* that come later: nothing unrevoked is left behind in a revoked family.
RevokedFamilyDead ==
    \A j \in DOMAIN refreshTokens :
        refreshTokens[j].familyId \in revokedFamilies => refreshTokens[j].revoked

\* The families index, which revokeFamily walks, and the records agree.
FamilyIndexComplete ==
    \A j \in Jtis, f \in Families :
        (f \in DOMAIN families /\ j \in families[f])
            <=> (j \in DOMAIN refreshTokens /\ refreshTokens[j].familyId = f)

\* A revoked family is accounted for: its reuse event is in the trail,
\* unless the trail has been full and may have dropped it.
RevokedFamiliesAudited ==
    \A f \in revokedFamilies :
        \/ \E user \in Users :
                Recorded(events, Event("auth.refresh_reuse_detected", user, f))
        \/ AtCapacity(events)

\* A detected reuse leaves no token of its family usable, the successor that
\* another client may hold included.
ReuseKillsFamily ==
    reply.status = "REFRESH_TOKEN_REUSE_DETECTED"
        => \A token \in Live : token.familyId # reply.token.familyId

\* The reuse alarm is false -- raised on a token that this process stored and
\* that was never spent nor revoked -- only when the token expires while the
\* handler runs: it verified (auth.ts:112), and its record is too old when the
\* clock is read again (auth.ts:121).
FalseReuseOnlyAtExpiry ==
    [][ \A token \in Live :
            reply' = Reply("REFRESH_TOKEN_REUSE_DETECTED", token)
                => SecondOf(now') >= token.exp ]_vars

\* Logging out with the newest token of a session ends the session: no other
\* token of the family can be refreshed, then or later (ContractSpec).
LogoutEndsFamily ==
    [][ \A token \in Live :
            /\ reply' = Reply("logged_out", token)
            /\ VerifyRefreshToken(token, now)
            /\ now' = now
          => \A t \in Live' : t.familyId # token.familyId ]_vars

\* What ties the Maps to the tokens that are out; with the invariants above it
\* is inductive.
StoreMatchesIssued ==
    /\ \A j \in DOMAIN refreshTokens :
            LET token == refreshTokens[j].tokenHash
            IN  /\ token \in issued
                /\ token.jti = j
                /\ token.familyId = refreshTokens[j].familyId
                /\ token.sub = refreshTokens[j].user
                /\ token.key = secret
                /\ token.exp * Second <= refreshTokens[j].expiresAt
    /\ \A s, t \in issued : s.jti = t.jti => s = t
    /\ \A t \in issued : t.key <= secret
    /\ revokedFamilies \subseteq UsedFamilies
    /\ reply.status = "REFRESH_TOKEN_REUSE_DETECTED"
            => reply.token.familyId \in revokedFamilies

\* The three Maps and the tokens that clients hold describe the same sessions:
\* what revokeFamily will reach is what was signed.
StoreIsConsistent == FamilyIndexComplete /\ StoreMatchesIssued

\* With a random secret per boot, the alarm is about a token of this process:
\* what survives a restart in a client's cookie is refused without an alarm.
AlarmOnlyOnOwnTokens ==
    secret # 0 /\ reply.status = "REFRESH_TOKEN_REUSE_DETECTED"
        => reply.token.jti \in DOMAIN refreshTokens

\* gatewayControls.ts:31, "A reuse attempt logs you out everywhere": no session
\* of the user survives.  The code revokes the one family.
ReuseLogsOutEverywhere ==
    reply.status = "REFRESH_TOKEN_REUSE_DETECTED"
        => \A token \in Live : token.sub # reply.token.sub

\* The service implements the contract of rotating token families, through
\* replays, clock changes and restarts.
Contract == INSTANCE TokenFamily WITH Token <- RefreshToken, live <- Live

ContractSpec == Contract!Spec

=============================================================================
