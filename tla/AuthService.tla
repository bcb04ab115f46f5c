----------------------------- MODULE AuthService -----------------------------
(***************************************************************************)
(* The auth service (_archive/planned-services/auth-service): accounts,    *)
(* sessions and the audit table in PostgreSQL.                             *)
(*                                                                         *)
(* Its handlers are plain functions, which FastAPI runs in a thread pool:  *)
(* any two interleave between their statements.  A handler reads a row,    *)
(* checks what it read, commits its effect, and commits the audit event in *)
(* a transaction of its own.  Any of these may raise, which the client     *)
(* sees as a 500, and a crash may come between any two.                    *)
(* Sessions read committed data and write back the columns they changed.   *)
(***************************************************************************)
EXTENDS Integers, FiniteSets

CONSTANTS
    Requests,       \* requests of a run, each sent once
    Ids,            \* pool of user ids, from the serial column
    Names, Passwords, Roles,
    Admin,          \* the role that holds *:*
    Jtis,           \* pool of token UUIDs
    Seed,           \* the accounts at the start
    SeedTokens,     \* the access tokens in circulation at the start
    Keep,           \* a field that an update leaves out
    NoRow, NoToken,
    MaxCrashes      \* bound: crashes of the process

UserRow == [name : Names, password : Passwords, role : Roles, active : BOOLEAN]

\* What an access token carries; `password` is the one it was obtained with, a
\* history field.
AccessToken == [jti : Jtis, userId : Ids, role : Roles, password : Passwords]

ASSUME AuthServiceAssumption ==
    /\ Ids \subseteq Nat /\ IsFiniteSet(Ids)
    /\ Admin \in Roles
    /\ DOMAIN Seed \subseteq Ids /\ Seed \in [DOMAIN Seed -> UserRow]
    /\ \A i, j \in DOMAIN Seed : Seed[i].name = Seed[j].name => i = j
    /\ SeedTokens \subseteq AccessToken
    /\ \A t \in SeedTokens :
        /\ t.userId \in DOMAIN Seed
        /\ Seed[t.userId].active
        /\ Seed[t.userId].role = t.role /\ Seed[t.userId].password = t.password
    /\ Keep \notin Roles \cup BOOLEAN
    /\ NoRow \notin UserRow /\ NoToken \notin AccessToken
    /\ MaxCrashes \in Nat

VARIABLES
    users,          \* table users, by id
    nextId,         \* the sequence of users.id
    sessions,       \* table sessions: revoked, by token_jti
    trail,          \* table audit_logs
    req,            \* the handlers: what each has read and is about to hand out
    issued,         \* access tokens in the hands of clients
    committed,      \* history: requests whose effect is committed
    past,           \* history: what users has held, by id
    crashes

vars == <<users, nextId, sessions, trail, req, issued, committed, past, crashes>>
db   == <<users, nextId, sessions, issued, committed, past>>

\* The calls of the API.  In an update, Keep stands for a field left out.
Call ==
    [op : {"login"}, name : Names, password : Passwords]
    \cup [op : {"logout", "me", "update_profile"}, token : AccessToken]
    \cup [op : {"refresh"}]
    \cup [op : {"change_password"}, token : AccessToken,
          current : Passwords, new : Passwords]
    \cup [op : {"create_user"}, token : AccessToken, name : Names,
          password : Passwords, role : Roles]
    \cup [op : {"update_user"}, token : AccessToken, target : Ids,
          role : Roles \cup {Keep}, active : BOOLEAN \cup {Keep}]
    \cup [op : {"deactivate_user"}, token : AccessToken, target : Ids]

\* checked: the row is read and the checks passed; failed: a login was refused;
\* committed: the effect is committed, the event is not.
Stage == {"idle", "checked", "failed", "committed", "done", "lost"}

At(r, stage, op) == req[r].stage = stage /\ req[r].call.op = op

NoCall == [op |-> "none"]

\* What a handler holds: the id and the row it read, the token it is to hand out.
Handler == [stage : Stage, call : Call \cup {NoCall}, id : Ids \cup {0},
            seen : UserRow \cup {NoRow}, token : AccessToken \cup {NoToken}, status : Nat]

Idle(r) == req[r].stage = "idle"

\* The handler goes on with what it read, or answers; 200 stands for success.
Goes(r, stage, call, id, row) ==
    req' = [req EXCEPT ![r] = [stage |-> stage, call |-> call, id |-> id, seen |-> row,
                               token |-> NoToken, status |-> 0]]

Answers(r, call, status) ==
    /\ req' = [req EXCEPT ![r] = [stage |-> "done", call |-> call, id |-> 0, seen |-> NoRow,
                                  token |-> NoToken, status |-> status]]
    /\ UNCHANGED <<db, trail, crashes>>

\* The effect of the request is committed; its event comes next.
Commits(r) ==
    /\ req' = [req EXCEPT ![r].stage = "committed"]
    /\ committed' = committed \cup {r}
    /\ UNCHANGED <<trail, crashes>>

\* require_permission("users", ...): the role in the token, not the one in the
\* table.
MayManageUsers(token) == token.role = Admin

Named(name) == {id \in DOMAIN users : users[id].name = name}

Snapshots(table) ==
    {[id |-> id, row |-> table[id]] : id \in DOMAIN table}

Init ==
    /\ users = Seed
    \* The seed names its ids and leaves the sequence at 1; registrations that
    \* failed on a taken id have moved it on.
    /\ nextId \in 1 .. Cardinality(DOMAIN Seed) + 1
    /\ sessions = [j \in {t.jti : t \in SeedTokens} |-> FALSE]
    /\ trail = {}
    /\ req = [r \in Requests |-> [stage |-> "idle", call |-> NoCall, id |-> 0,
                                  seen |-> NoRow, token |-> NoToken, status |-> 0]]
    /\ issued = SeedTokens
    /\ committed = {}
    /\ past = Snapshots(Seed)
    /\ crashes = 0

(***************************************************************************)
(* Login                                                                   *)
(***************************************************************************)
\* authenticate_user: one SELECT yields all that is checked.
Authenticate(r, name, password) ==
    LET call == [op |-> "login", name |-> name, password |-> password]
    IN  /\ Idle(r)
        /\ \/ \E id \in Named(name) :
                /\ users[id].active
                /\ users[id].password = password
                /\ Goes(r, "checked", call, id, users[id])
           \/ /\ ~ \E id \in Named(name) :
                    users[id].active /\ users[id].password = password
              /\ Goes(r, "failed", call, 0, NoRow)
        /\ UNCHANGED <<db, trail, crashes>>

\* The access token of a login that read this row.
TokenFor(r, jti, row) ==
    [jti |-> jti, userId |-> req[r].id, role |-> row.role, password |-> req[r].call.password]

\* The session is committed; the token waits for the answer.
OpensSession(r, token) ==
    /\ sessions' = [j \in DOMAIN sessions \cup {token.jti} |->
                        IF j = token.jti THEN FALSE ELSE sessions[j]]
    /\ req' = [req EXCEPT ![r].stage = "committed", ![r].token = token]
    /\ committed' = committed \cup {r}
    /\ UNCHANGED <<users, nextId, trail, issued, past, crashes>>

\* Faulty variant: the role is read again, after the password was checked.
CreateUserTokensRereading(r, jti) ==
    /\ At(r, "checked", "login")
    /\ jti \notin DOMAIN sessions
    /\ OpensSession(r, TokenFor(r, jti, users[req[r].id]))

\* Faulty variant: no session is recorded.
CreateUserTokensBare(r, jti) ==
    /\ At(r, "checked", "login")
    /\ jti \notin DOMAIN sessions
    /\ req' = [req EXCEPT ![r].stage = "committed",
                          ![r].token = TokenFor(r, jti, req[r].seen)]
    /\ committed' = committed \cup {r}
    /\ UNCHANGED <<users, nextId, sessions, trail, issued, past, crashes>>

\* create_user_tokens: the role is the one of the row that was read.
CreateUserTokens(r, jti) ==
    /\ At(r, "checked", "login")
    /\ jti \notin DOMAIN sessions
    /\ OpensSession(r, TokenFor(r, jti, req[r].seen))

\* The event of a refused login; then 401.
LoginFailed(r) ==
    /\ req[r].stage = "failed"
    /\ trail' = trail \cup {[action |-> "login_failed", request |-> r]}
    /\ req' = [req EXCEPT ![r].stage = "done", ![r].status = 401]
    /\ UNCHANGED <<db, crashes>>

\* refresh_user_token names a relationship by a string, which SQLAlchemy 2.0
\* refuses for every token; the route turns any exception into 401.
Refresh(r) == Idle(r) /\ Answers(r, [op |-> "refresh"], 401)

(***************************************************************************)
(* What a caller with a token does                                         *)
(***************************************************************************)
\* A statement of the first transaction raises, the commit of a logout
\* included: nothing is stored.
Unserved(r) == Idle(r) /\ Answers(r, NoCall, 500)

\* logout: revoke_session.
Logout(r, token) ==
    /\ Idle(r)
    /\ sessions' = [sessions EXCEPT ![token.jti] = TRUE]
    /\ req' = [req EXCEPT ![r].stage = "committed",
                          ![r].call = [op |-> "logout", token |-> token]]
    /\ committed' = committed \cup {r}
    /\ UNCHANGED <<users, nextId, trail, issued, past, crashes>>

\* GET /me stands for every route that asks for a token: verify_token looks at
\* the signature, the expiry and the type, never at the session.
Me(r, token) ==
    /\ Idle(r)
    /\ Answers(r, [op |-> "me", token |-> token], 200)

\* PUT /me reads the row; a token names an account, and none is ever deleted.
FindOwn(r, token) ==
    /\ Idle(r)
    /\ Goes(r, "checked", [op |-> "update_profile", token |-> token], token.userId,
            users[token.userId])
    /\ UNCHANGED <<db, trail, crashes>>

\* It writes the email and the full name, no other column, and commits.
UpdateProfile(r) ==
    /\ At(r, "checked", "update_profile")
    /\ Commits(r)
    /\ UNCHANGED <<users, nextId, sessions, issued, past>>

\* change_password reads the row and verifies the current password.
CheckPassword(r, token, current, new) ==
    LET call == [op |-> "change_password", token |-> token,
                 current |-> current, new |-> new]
        row  == users[token.userId]
    IN  /\ Idle(r)
        /\ IF row.password = current
           THEN Goes(r, "checked", call, token.userId, row) /\ UNCHANGED <<db, trail, crashes>>
           ELSE Answers(r, call, 400)

\* The table after a column-wise UPDATE of one row.
Updated(id, row) == [users EXCEPT ![id] = row]

\* It writes the new hash.
ChangePassword(r) ==
    LET id == req[r].id
    IN  /\ At(r, "checked", "change_password")
        /\ users' = Updated(id, [users[id] EXCEPT !.password = req[r].call.new])
        /\ past' = past \cup Snapshots(users')
        /\ Commits(r)
        /\ UNCHANGED <<nextId, sessions, issued>>

(***************************************************************************)
(* What an administrator does                                              *)
(***************************************************************************)
\* register_user: the permission, then the name must be free.
CheckName(r, token, name, password, role) ==
    LET call == [op |-> "create_user", token |-> token, name |-> name,
                 password |-> password, role |-> role]
    IN  /\ Idle(r)
        /\ IF MayManageUsers(token) /\ Named(name) = {}
           THEN Goes(r, "checked", call, 0, NoRow) /\ UNCHANGED <<db, trail, crashes>>
           ELSE Answers(r, call, IF MayManageUsers(token) THEN 400 ELSE 403)

\* Faulty variant: the table has no unique key, the check is relied upon.
CreateUserUnchecked(r) ==
    LET call == req[r].call
        row  == [name |-> call.name, password |-> call.password, role |-> call.role,
                 active |-> TRUE]
    IN  /\ At(r, "checked", "create_user")
        /\ nextId \in Ids
        /\ nextId' = nextId + 1
        /\ users' = [id \in DOMAIN users \cup {nextId} |->
                        IF id = nextId THEN row ELSE users[id]]
        /\ past' = past \cup Snapshots(users')
        /\ Commits(r)
        /\ UNCHANGED <<sessions, issued>>

\* create_user: the unique keys decide, the sequence advances either way.
CreateUser(r) ==
    LET call == req[r].call
        row  == [name |-> call.name, password |-> call.password, role |-> call.role,
                 active |-> TRUE]
    IN  /\ At(r, "checked", "create_user")
        /\ nextId \in Ids
        /\ nextId' = nextId + 1
        /\ IF nextId \in DOMAIN users \/ Named(call.name) # {}
           THEN /\ req' = [req EXCEPT ![r].stage = "done", ![r].status = 500]
                /\ UNCHANGED <<users, past, committed, trail, crashes>>
           ELSE /\ users' = [id \in DOMAIN users \cup {nextId} |->
                                IF id = nextId THEN row ELSE users[id]]
                /\ past' = past \cup Snapshots(users')
                /\ Commits(r)
        /\ UNCHANGED <<sessions, issued>>

\* Faulty variant: the event is committed before the change it is about.
FindUserAuditing(r, call) ==
    IF ~MayManageUsers(call.token) THEN Answers(r, call, 403)
    ELSE IF call.target \notin DOMAIN users THEN Answers(r, call, 404)
    ELSE IF call.op = "deactivate_user" /\ call.target = call.token.userId
         THEN Answers(r, call, 400)
    ELSE /\ Goes(r, "checked", call, call.target, users[call.target])
         /\ trail' = trail \cup {[action |-> call.op, request |-> r]}
         /\ UNCHANGED <<db, crashes>>

\* update_user and deactivate_user up to the change: the permission, the row,
\* and, for a deactivation, that it is not the caller's own account.
FindUser(r, call) ==
    IF ~MayManageUsers(call.token) THEN Answers(r, call, 403)
    ELSE IF call.target \notin DOMAIN users THEN Answers(r, call, 404)
    ELSE IF call.op = "deactivate_user" /\ call.target = call.token.userId
         THEN Answers(r, call, 400)
    ELSE /\ Goes(r, "checked", call, call.target, users[call.target])
         /\ UNCHANGED <<db, trail, crashes>>

Find(r, call) == Idle(r) /\ FindUser(r, call)

\* The session writes a column only if it differs from what was read.
Column(seen, wanted, current) == IF wanted \in {Keep, seen} THEN current ELSE wanted

\* Faulty variant: the whole row is written back as it was read.
UpdateUserWholeRow(r) ==
    LET id   == req[r].id
        seen == req[r].seen
        call == req[r].call
    IN  /\ At(r, "checked", "update_user")
        /\ users' = Updated(id, [seen EXCEPT
                        !.role   = IF call.role = Keep THEN @ ELSE call.role,
                        !.active = IF call.active = Keep THEN @ ELSE call.active])
        /\ past' = past \cup Snapshots(users')
        /\ Commits(r)
        /\ UNCHANGED <<nextId, sessions, issued>>

UpdateUser(r) ==
    LET id   == req[r].id
        seen == req[r].seen
        call == req[r].call
    IN  /\ At(r, "checked", "update_user")
        /\ users' = Updated(id, [users[id] EXCEPT
                        !.role   = Column(seen.role, call.role, @),
                        !.active = Column(seen.active, call.active, @)])
        /\ past' = past \cup Snapshots(users')
        /\ Commits(r)
        /\ UNCHANGED <<nextId, sessions, issued>>

DeactivateUser(r) ==
    LET id == req[r].id
    IN  /\ At(r, "checked", "deactivate_user")
        /\ users' = Updated(id, [users[id] EXCEPT
                        !.active = Column(req[r].seen.active, FALSE, @)])
        /\ past' = past \cup Snapshots(users')
        /\ Commits(r)
        /\ UNCHANGED <<nextId, sessions, issued>>

\* The commit of an effect raises: for a database error, or for data the model
\* leaves out (an email that another account took since the check, a role id
\* that does not exist, a user-agent too long for its column).  An INSERT that
\* fails may have used up its id.
CommitFails(r) ==
    /\ req[r].stage = "checked"
    /\ nextId' \in {nextId} \cup (IF req[r].call.op = "create_user" /\ nextId \in Ids
                                 THEN {nextId + 1} ELSE {})
    /\ req' = [req EXCEPT ![r].stage = "done", ![r].status = 500]
    /\ UNCHANGED <<users, sessions, trail, issued, committed, past, crashes>>

\* The client gets what the handler has for it.
HandsOut(r) == issued' = issued \cup ({req[r].token} \ {NoToken})

\* log_audit_event, and the answer.
LogAuditEvent(r) ==
    /\ req[r].stage = "committed"
    /\ trail' = trail \cup {[action |-> req[r].call.op, request |-> r]}
    /\ req' = [req EXCEPT ![r].stage = "done", ![r].status = 200]
    /\ HandsOut(r)
    /\ UNCHANGED <<users, nextId, sessions, committed, past, crashes>>

\* The transaction of the event raises, or what comes after it does: the effect
\* stays, no token is handed out.
AuditFails(r) ==
    LET event == [action  |-> IF req[r].stage = "failed" THEN "login_failed" ELSE req[r].call.op,
                  request |-> r]
    IN  /\ req[r].stage \in {"failed", "committed"}
        /\ trail' \in {trail, trail \cup {event}}
        /\ req' = [req EXCEPT ![r].stage = "done", ![r].status = 500]
        /\ UNCHANGED <<db, crashes>>

\* The process dies; what is committed stays.
Crash ==
    /\ crashes < MaxCrashes
    /\ crashes' = crashes + 1
    /\ req' = [r \in Requests |->
                  IF req[r].stage \in {"checked", "failed", "committed"}
                  THEN [req[r] EXCEPT !.stage = "lost"] ELSE req[r]]
    /\ UNCHANGED <<db, trail>>

Arrival(r) ==
    \/ \E n \in Names, p \in Passwords : Authenticate(r, n, p)
    \/ Refresh(r)
    \/ Unserved(r)
    \/ \E t \in issued :
        \/ Logout(r, t)
        \/ Me(r, t)
        \/ FindOwn(r, t)
        \/ \E p, q \in Passwords : CheckPassword(r, t, p, q)
        \/ \E n \in Names, p \in Passwords, role \in Roles : CheckName(r, t, n, p, role)
        \/ \E id \in Ids, role \in Roles \cup {Keep}, active \in BOOLEAN \cup {Keep} :
                Find(r, [op |-> "update_user", token |-> t, target |-> id,
                         role |-> role, active |-> active])
        \/ \E id \in Ids :
                Find(r, [op |-> "deactivate_user", token |-> t, target |-> id])

Next ==
    \/ \E r \in Requests :
        \/ Arrival(r)
        \/ \E j \in Jtis : CreateUserTokens(r, j)
        \/ LoginFailed(r) \/ UpdateProfile(r) \/ ChangePassword(r)
        \/ CreateUser(r) \/ UpdateUser(r) \/ DeactivateUser(r)
        \/ CommitFails(r) \/ LogAuditEvent(r) \/ AuditFails(r)
    \/ Crash

Spec == Init /\ [][Next]_vars

(***************************************************************************)
(* Properties                                                              *)
(***************************************************************************)
TypeOK ==
    /\ DOMAIN users \subseteq Ids /\ users \in [DOMAIN users -> UserRow]
    /\ nextId \in Nat
    /\ DOMAIN sessions \subseteq Jtis /\ sessions \in [DOMAIN sessions -> BOOLEAN]
    /\ req \in [Requests -> Handler]
    /\ issued \subseteq AccessToken
    /\ \A t \in issued : t.jti \in DOMAIN sessions /\ t.userId \in DOMAIN users
    /\ committed \subseteq Requests
    /\ crashes \in 0 .. MaxCrashes

Answered(r, status) == req[r].stage = "done" /\ req[r].status = status

InTrail(r) == \E e \in trail : e.request = r

\* Two administrators who register one name at the same time get one account:
\* the check before the insert is not what keeps names apart.
NamesAreUnique ==
    \A i, j \in DOMAIN users : users[i].name = users[j].name => i = j

\* What a client is told to be done is stored and in the trail: "Immutable audit
\* trail of all user actions" (models.py:138).
ConfirmedIsAudited ==
    \A r \in Requests :
        Answered(r, 200) /\ req[r].call.op # "me" =>
            r \in committed /\ [action |-> req[r].call.op, request |-> r] \in trail

\* A login that is turned down is in the trail; any other request that is has
\* left no trace in it, and none in the tables.
RefusalsAreAudited ==
    \A r \in Requests :
        /\ Answered(r, 401) /\ req[r].call.op = "login" =>
            [action |-> "login_failed", request |-> r] \in trail
        /\ req[r].stage = "done" /\ req[r].status \in {400, 403, 404} =>
            r \notin committed /\ ~InTrail(r)

\* An effect misses its event only while the handler is on its way to it, or
\* when a crash or a failed commit stopped it there: no client was told success.
EffectsAreAudited ==
    \A r \in committed :
        InTrail(r) \/ req[r].stage \in {"committed", "lost"} \/ Answered(r, 500)

\* The trail never tells of an effect that is not there, or of another one.
TrailIsTruthful ==
    \A e \in trail :
        e.action = IF e.request \in committed THEN req[e.request].call.op ELSE "login_failed"

\* Trail, tables and answers agree, whatever fails between the two commits of a
\* handler.
TrailMatchesEffects ==
    ConfirmedIsAudited /\ RefusalsAreAudited /\ EffectsAreAudited /\ TrailIsTruthful

\* Who got a token was, at one moment, active, in the role of the token, and
\* known by that password: no login mixes two states of an account.
LoginIsSnapshot ==
    \A t \in issued :
        \E s \in past :
            /\ s.id = t.userId
            /\ s.row.active
            /\ s.row.role = t.role
            /\ s.row.password = t.password

\* A deactivated account is revived only by an update that asks for it, not by
\* one that read the row before it was deactivated and changes something else.
DeactivationSticks ==
    [][ \A id \in DOMAIN users :
            ~users[id].active /\ users'[id].active =>
                \E r \in Requests :
                    /\ At(r, "checked", "update_user")
                    /\ req[r].id = id
                    /\ req[r].call.active = TRUE ]_vars

\* api/routes/auth.py:130, "Revokes the current JWT token by marking the session
\* as revoked": what is revoked is refused.  No check consults the table.
RevokedIsRefused ==
    [][ \A r \in Requests, t \in issued :
            Me(r, t) /\ sessions[t.jti] => req'[r].status = 401 ]_vars

=============================================================================
