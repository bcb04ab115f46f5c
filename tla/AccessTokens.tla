----------------------------- MODULE AccessTokens ----------------------------
(***************************************************************************)
(* The access tokens of the planned services (shared_security_core/auth):  *)
(* the auth service signs what an account may do, the other services       *)
(* believe the token until it expires and ask nobody.                      *)
(*                                                                         *)
(* `now` is the true time in ticks, a JWT counts whole seconds of Second   *)
(* ticks.  Every service reads a clock of its own, which NTP keeps within  *)
(* MaxSkew of the true time and may set forward or back.  A login reads    *)
(* the account first and signs later, at most MaxDelay ticks later.        *)
(***************************************************************************)
EXTENDS Integers, FiniteSets, Rbac

CONSTANTS
    Services, Auth,     \* the services; the one that signs
    Roles,
    Grants,             \* roles.permissions
    NoRole, NoLogin,
    Ttl,                \* ACCESS_TOKEN_EXPIRE_MINUTES, in seconds
    Second,             \* ticks in a second
    MaxSkew,            \* bound: how far a clock is off
    MaxDelay,           \* bound: ticks from reading the account to signing
    MaxNow, MaxTokens   \* bounds: the last instant, the tokens of a run

ASSUME AccessTokensAssumption ==
    /\ Auth \in Services
    /\ Grants \in [Roles -> SUBSET Permission]
    /\ NoRole \notin Roles
    /\ NoLogin \notin [role : Roles, at : Nat]
    /\ Ttl \in Nat \ {0} /\ Second \in Nat \ {0}
    /\ MaxSkew \in Nat /\ MaxDelay \in Nat /\ MaxNow \in Nat /\ MaxSkew <= MaxNow /\ MaxTokens \in Nat

VARIABLES
    now,                \* the true time
    skew,               \* what the clock of a service adds to it
    account,            \* the role of the account, NoRole while it is inactive
    lastHeld,           \* history: when it last held a role, -1 for never
    login,              \* a login that has read the account
    tokens              \* access tokens in the hands of clients

vars == <<now, skew, account, lastHeld, login, tokens>>

Clock(s)    == now + skew[s]
SecondOf(t) == t \div Second

\* `at` is when the token was signed, a history field.
AccessToken == [role : Roles, permissions : SUBSET Permission,
                iat : 0 .. MaxNow + MaxSkew, exp : 0 .. MaxNow + MaxSkew + Ttl,
                at : 0 .. MaxNow]

(***************************************************************************)
(* The pure part: signing, verification, permission checks                 *)
(***************************************************************************)
\* Faulty variants: the expiry keeps the unit of the clock; it is a second short.
SignedWrongUnit(role) ==
    [role |-> role, permissions |-> Grants[role], iat |-> SecondOf(Clock(Auth)),
     exp |-> Clock(Auth) + Ttl * Second, at |-> now]

SignedShort(role) ==
    [role |-> role, permissions |-> Grants[role], iat |-> SecondOf(Clock(Auth)),
     exp |-> SecondOf(Clock(Auth)) + Ttl - 1, at |-> now]

\* create_access_token
Signed(role) ==
    [role |-> role, permissions |-> Grants[role], iat |-> SecondOf(Clock(Auth)),
     exp |-> SecondOf(Clock(Auth) + Ttl * Second), at |-> now]

\* verify_token: PyJWT compares the whole seconds of the token with the clock,
\* fractions included, and allows no leeway.
VerifyToken(s, token) ==
    /\ token.exp * Second > Clock(s)
    /\ token.iat * Second <= Clock(s)

\* The dependencies of a route: 200 instead of 401 or 403.
RequirePermission(s, token, resource, action) ==
    VerifyToken(s, token) /\ CoreHasPermission(token.permissions, resource, action)

RequireRole(s, token, role) == VerifyToken(s, token) /\ token.role = role

(***************************************************************************)
(* Init and actions                                                        *)
(***************************************************************************)
Skews == -MaxSkew .. MaxSkew

Holds(t) == [r \in Roles |-> IF r = account THEN t ELSE lastHeld[r]]

Init ==
    /\ now = MaxSkew
    /\ skew \in [Services -> Skews]
    /\ account \in Roles
    /\ lastHeld = [r \in Roles |-> IF r = account THEN now ELSE -1]
    /\ login = NoLogin
    /\ tokens = {}

Tick ==
    /\ now < MaxNow
    /\ login # NoLogin => now < login.at + MaxDelay
    /\ now' = now + 1
    /\ lastHeld' = Holds(now')
    /\ UNCHANGED <<skew, account, login, tokens>>

\* NTP sets the clock of a service.
Adjust(s) ==
    /\ \E d \in Skews : skew' = [skew EXCEPT ![s] = d]
    /\ UNCHANGED <<now, account, lastHeld, login, tokens>>

\* An administrator changes the role, deactivates or reactivates the account:
\* one UPDATE, and no service is told.
SetAccount(role) ==
    /\ account' = role
    /\ lastHeld' = [r \in Roles |-> IF r = role THEN now ELSE lastHeld[r]]
    /\ UNCHANGED <<now, skew, login, tokens>>

\* authenticate_user has read an active account and the password is right.
Authenticate ==
    /\ login = NoLogin /\ account # NoRole
    /\ login' = [role |-> account, at |-> now]
    /\ UNCHANGED <<now, skew, account, lastHeld, tokens>>

\* Faulty variant: a token is extended instead of being replaced.
CreateUserTokensExtending ==
    /\ login # NoLogin
    /\ \E old \in tokens \cup {Signed(login.role)} :
        tokens' = (tokens \ {old}) \cup {[Signed(login.role) EXCEPT !.role = old.role,
                                                !.permissions = old.permissions]}
    /\ Cardinality(tokens') <= MaxTokens
    /\ login' = NoLogin
    /\ UNCHANGED <<now, skew, account, lastHeld>>

\* create_user_tokens signs the role that was read and verifies the result.
CreateUserTokens ==
    /\ login # NoLogin
    /\ VerifyToken(Auth, Signed(login.role))
    /\ tokens' = tokens \cup {Signed(login.role)}
    /\ Cardinality(tokens') <= MaxTokens
    /\ login' = NoLogin
    /\ UNCHANGED <<now, skew, account, lastHeld>>

\* The commit fails, or the clock was set back before the token was verified.
LoginFails ==
    /\ login # NoLogin
    /\ login' = NoLogin
    /\ UNCHANGED <<now, skew, account, lastHeld, tokens>>

Next ==
    \/ Tick
    \/ \E s \in Services : Adjust(s)
    \/ \E r \in Roles \cup {NoRole} : SetAccount(r)
    \/ Authenticate \/ CreateUserTokens \/ LoginFails

Spec == Init /\ [][Next]_vars

(***************************************************************************)
(* Properties                                                              *)
(***************************************************************************)
TypeOK ==
    /\ now \in MaxSkew .. MaxNow
    /\ skew \in [Services -> Skews]
    /\ account \in Roles \cup {NoRole}
    /\ lastHeld \in [Roles -> -1 .. now]
    /\ account # NoRole => lastHeld[account] = now
    /\ \/ login = NoLogin
       \/ /\ login \in [role : Roles, at : 0 .. now]
          /\ now <= login.at + MaxDelay
    /\ tokens \subseteq AccessToken

\* For how long a token may speak for an account that has changed since.
Staleness == Ttl * Second + MaxDelay + 2 * MaxSkew

\* No service is told of a changed role or of a deactivation, but whatever a
\* service lets a token do, a role of the account allowed at most Staleness ago.
AuthorityIsRecent ==
    \A s \in Services, token \in tokens :
        /\ \A resource \in Resources, action \in Actions :
            RequirePermission(s, token, resource, action) =>
                \E r \in Roles :
                    /\ CoreHasPermission(Grants[r], resource, action)
                    /\ lastHeld[r] >= 0 /\ now < lastHeld[r] + Staleness
        /\ \A r \in Roles :
            RequireRole(s, token, r) => lastHeld[r] >= 0 /\ now < lastHeld[r] + Staleness

\* "Access tokens expire in 15 minutes" (jwt_handler.py:5): but for the clocks
\* and the second that is cut off, every service takes a token for its TTL.
TokensLastTheirTtl ==
    \A s \in Services, token \in tokens :
        /\ token.at + 2 * MaxSkew <= now
        /\ now + 2 * MaxSkew <= token.at + (Ttl - 1) * Second
        => VerifyToken(s, token)

=============================================================================
