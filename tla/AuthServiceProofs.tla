------------------------- MODULE AuthServiceProofs --------------------------
(***************************************************************************)
(* Theorems about AuthService, for every set of requests, accounts and     *)
(* tokens and every number of crashes.                                     *)
(***************************************************************************)
EXTENDS AuthService, TLAPS

\* A handler that is past its checks holds the id of an account, and, where a
\* write depends on it, the row as it read it.
HandlerKnowsAccount ==
    \A r \in Requests :
        /\ req[r].stage = "checked" /\ req[r].call.op # "create_user" =>
            /\ req[r].id \in DOMAIN users
            /\ req[r].seen \in UserRow
        /\ req[r].token # NoToken =>
            /\ req[r].token.jti \in DOMAIN sessions
            /\ req[r].token.userId \in DOMAIN users

Typed == TypeOK /\ HandlerKnowsAccount

(***************************************************************************)
(* The shape of the steps.                                                 *)
(***************************************************************************)
\* A handler past its checks has a call of its kind.
LEMMA CallOfOp ==
    ASSUME NEW call \in Call \cup {NoCall}
    PROVE  /\ call.op = "login" => call.name \in Names /\ call.password \in Passwords
           /\ call.op = "change_password" => call.new \in Passwords
           /\ call.op = "create_user" => /\ call.name \in Names
                                         /\ call.password \in Passwords
                                         /\ call.role \in Roles
           /\ call.op = "update_user" => /\ call.role \in Roles \cup {Keep}
                                         /\ call.active \in BOOLEAN \cup {Keep}
    BY DEF Call, NoCall

\* The table after an update of one row is a table.
LEMMA UpdatedType ==
    ASSUME users \in [DOMAIN users -> UserRow], NEW id, NEW row \in UserRow
    PROVE  /\ Updated(id, row) \in [DOMAIN users -> UserRow]
           /\ DOMAIN Updated(id, row) = DOMAIN users
    BY DEF Updated

\* A handler that moves on keeps what it holds.
Keeps(f, g, r, stage) ==
    /\ g \in [Requests -> Handler]
    /\ \A x \in Requests : x # r => g[x] = f[x]
    /\ g[r].stage = stage
    /\ g[r].call = f[r].call /\ g[r].id = f[r].id
    /\ g[r].seen = f[r].seen /\ g[r].token = f[r].token

\* The three ways in which a step rewrites two fields of a handler.
Ending(f, r, status) == [f EXCEPT ![r].stage = "done", ![r].status = status]
Holding(f, r, t) == [f EXCEPT ![r].stage = "committed", ![r].token = t]
Calling(f, r, call) == [f EXCEPT ![r].stage = "committed", ![r].call = call]

LEMMA StageMoves ==
    ASSUME NEW f \in [Requests -> Handler], NEW r \in Requests, NEW stage \in Stage
    PROVE  Keeps(f, [f EXCEPT ![r].stage = stage], r, stage)
  <1> DEFINE h == [f[r] EXCEPT !.stage = stage]
  <1>1. f[r] \in Handler
      OBVIOUS
  <1>2. h \in Handler /\ h.stage = stage /\ h.call = f[r].call /\ h.id = f[r].id
        /\ h.seen = f[r].seen /\ h.token = f[r].token
      BY <1>1 DEF Handler
  <1>3. [f EXCEPT ![r].stage = stage] = [f EXCEPT ![r] = h]
      OBVIOUS
  <1> HIDE DEF h
  <1> QED BY <1>2, <1>3 DEF Keeps

LEMMA StageAnswers ==
    ASSUME NEW f \in [Requests -> Handler], NEW r \in Requests, NEW status \in Nat
    PROVE  /\ Keeps(f, Ending(f, r, status), r, "done")
           /\ Ending(f, r, status)[r].status = status
  <1> DEFINE h == [f[r] EXCEPT !.stage = "done", !.status = status]
  <1>1. f[r] \in Handler
      OBVIOUS
  <1>2. h \in Handler /\ h.stage = "done" /\ h.call = f[r].call /\ h.id = f[r].id
        /\ h.seen = f[r].seen /\ h.token = f[r].token /\ h.status = status
      BY <1>1 DEF Handler, Stage
  <1>3. Ending(f, r, status) = [f EXCEPT ![r] = h]
      BY DEF Ending
  <1> HIDE DEF h
  <1> QED BY <1>2, <1>3 DEF Keeps

LEMMA StageHolds ==
    ASSUME NEW f \in [Requests -> Handler], NEW r \in Requests, NEW t \in AccessToken
    PROVE  LET g == Holding(f, r, t)
           IN  /\ g \in [Requests -> Handler]
               /\ \A x \in Requests : x # r => g[x] = f[x]
               /\ g[r].stage = "committed" /\ g[r].token = t
  <1> DEFINE h == [f[r] EXCEPT !.stage = "committed", !.token = t]
  <1>1. f[r] \in Handler
      OBVIOUS
  <1>2. h \in Handler /\ h.stage = "committed" /\ h.token = t
      BY <1>1 DEF Handler, Stage
  <1>3. Holding(f, r, t) = [f EXCEPT ![r] = h]
      BY DEF Holding
  <1> HIDE DEF h
  <1> QED BY <1>2, <1>3

LEMMA StageCalls ==
    ASSUME NEW f \in [Requests -> Handler], NEW r \in Requests, NEW call \in Call
    PROVE  LET g == Calling(f, r, call)
           IN  /\ g \in [Requests -> Handler]
               /\ \A x \in Requests : x # r => g[x] = f[x]
               /\ g[r].stage = "committed" /\ g[r].token = f[r].token
  <1> DEFINE h == [f[r] EXCEPT !.stage = "committed", !.call = call]
  <1>1. f[r] \in Handler
      OBVIOUS
  <1>2. h \in Handler /\ h.stage = "committed" /\ h.token = f[r].token
      BY <1>1 DEF Handler, Stage
  <1>3. Calling(f, r, call) = [f EXCEPT ![r] = h]
      BY DEF Calling
  <1> HIDE DEF h
  <1> QED BY <1>2, <1>3

\* Who moves on past the checks needs to know no more than before.
LEMMA HandlersStillKnow ==
    ASSUME Typed, NEW r \in Requests, NEW stage \in Stage \ {"checked"},
           Keeps(req, req', r, stage),
           DOMAIN users \subseteq DOMAIN users', DOMAIN sessions \subseteq DOMAIN sessions'
    PROVE  HandlerKnowsAccount' /\ req' \in [Requests -> Handler]
    BY DEF Typed, HandlerKnowsAccount, Keeps

LEMMA TypeInit == Init => Typed
  <1> SUFFICES ASSUME Init PROVE Typed
      OBVIOUS
  <1> USE AuthServiceAssumption DEF Init
  <1>1. TypeOK
    <2>1. DOMAIN users \subseteq Ids /\ users \in [DOMAIN users -> UserRow]
        OBVIOUS
    <2>2. nextId \in Nat
        OBVIOUS
    <2>3. DOMAIN sessions \subseteq Jtis /\ sessions \in [DOMAIN sessions -> BOOLEAN]
        BY DEF AccessToken
    <2>4. req \in [Requests -> Handler]
        BY DEF Handler, Stage
    <2>5. /\ issued \subseteq AccessToken
          /\ \A t \in issued : t.jti \in DOMAIN sessions /\ t.userId \in DOMAIN users
        OBVIOUS
    <2>6. committed \subseteq Requests /\ crashes \in 0 .. MaxCrashes
        OBVIOUS
    <2> QED BY <2>1, <2>2, <2>3, <2>4, <2>5, <2>6 DEF TypeOK
  <1>2. HandlerKnowsAccount
      BY DEF HandlerKnowsAccount
  <1> QED BY <1>1, <1>2 DEF Typed

LEMMA TypeNext == Typed /\ [Next]_vars => Typed'
  <1> SUFFICES ASSUME Typed, [Next]_vars PROVE Typed'
      OBVIOUS
  <1> USE AuthServiceAssumption DEF db
  <1>0. TypeOK /\ HandlerKnowsAccount
      BY DEF Typed
  <1>req. req \in [Requests -> Handler]
      BY <1>0 DEF TypeOK
  <1>1. ASSUME NEW r \in Requests, NEW n \in Names, NEW p \in Passwords,
               Authenticate(r, n, p)
        PROVE  Typed'
      BY <1>1 DEF Typed, TypeOK, HandlerKnowsAccount, Authenticate, Goes, Idle, Named, Handler,
                  Stage, Call
  <1>2. ASSUME NEW r \in Requests, NEW j \in Jtis, CreateUserTokens(r, j)
        PROVE  Typed'
    <2> DEFINE t == TokenFor(r, j, req[r].seen)
    <2>1. req[r].id \in DOMAIN users /\ req[r].seen \in UserRow /\ req[r].call.password \in Passwords
        BY <1>0, <1>2, <1>req, CallOfOp DEF HandlerKnowsAccount, CreateUserTokens, At, Handler
    <2>2. t \in AccessToken /\ t.jti = j /\ t.userId = req[r].id
        BY <1>0, <2>1 DEF TokenFor, AccessToken, UserRow, TypeOK
    <2>3. /\ req' = Holding(req, r, t)
          /\ sessions' = [i \in DOMAIN sessions \cup {j} |-> IF i = j THEN FALSE ELSE sessions[i]]
          /\ committed' = committed \cup {r}
          /\ UNCHANGED <<users, nextId, trail, issued, past, crashes>>
        BY <1>2, <2>2 DEF CreateUserTokens, OpensSession, Holding
    <2> HIDE DEF t
    <2>4. /\ req' \in [Requests -> Handler]
          /\ \A x \in Requests : x # r => req'[x] = req[x]
          /\ req'[r].stage = "committed" /\ req'[r].token = t
        BY <2>2, <2>3, <1>req, StageHolds
    <2>5. DOMAIN sessions' = DOMAIN sessions \cup {j} /\ sessions' \in [DOMAIN sessions' -> BOOLEAN]
        BY <1>0, <2>3 DEF TypeOK
    <2>6. HandlerKnowsAccount'
        BY <1>0, <2>1, <2>2, <2>3, <2>4, <2>5 DEF HandlerKnowsAccount
    <2>7. TypeOK'
        BY <1>0, <2>3, <2>4, <2>5 DEF TypeOK
    <2> QED BY <2>6, <2>7 DEF Typed
  <1>3. ASSUME NEW r \in Requests, LoginFailed(r)
        PROVE  Typed'
    <2>0. req' = Ending(req, r, 401)
        BY <1>3 DEF LoginFailed, Ending
    <2>1. Keeps(req, req', r, "done")
        BY <2>0, <1>req, StageAnswers
    <2>2. HandlerKnowsAccount' /\ req' \in [Requests -> Handler]
        BY <1>3, <2>1, HandlersStillKnow DEF LoginFailed, Stage
    <2> QED BY <1>0, <1>3, <2>2 DEF Typed, TypeOK, LoginFailed
  <1>4. ASSUME NEW r \in Requests, Refresh(r)
        PROVE  Typed'
      BY <1>4 DEF Typed, TypeOK, HandlerKnowsAccount, Refresh, Answers, Idle, Handler, Stage, Call
  <1>5. ASSUME NEW r \in Requests, NEW t \in issued, Logout(r, t)
        PROVE  Typed'
    <2> DEFINE call == [op |-> "logout", token |-> t]
    <2>0. req' = Calling(req, r, call)
        BY <1>5 DEF Logout, Calling
    <2>1. call \in Call
        BY <1>0 DEF Call, TypeOK
    <2> HIDE DEF call
    <2>2. /\ req' \in [Requests -> Handler]
          /\ \A x \in Requests : x # r => req'[x] = req[x]
          /\ req'[r].stage = "committed" /\ req'[r].token = req[r].token
        BY <2>0, <1>req, <2>1, StageCalls
    <2>3. DOMAIN sessions' = DOMAIN sessions /\ sessions' \in [DOMAIN sessions' -> BOOLEAN]
        BY <1>0, <1>5 DEF Logout, TypeOK
    <2>4. HandlerKnowsAccount'
        BY <1>0, <1>5, <2>2, <2>3 DEF HandlerKnowsAccount, Logout
    <2> QED BY <1>0, <1>5, <2>2, <2>3, <2>4 DEF Typed, TypeOK, Logout
  <1>6. ASSUME NEW r \in Requests, NEW t \in issued, Me(r, t)
        PROVE  Typed'
      BY <1>6 DEF Typed, TypeOK, HandlerKnowsAccount, Me, Answers, Idle, Handler, Stage, Call
  <1>7. ASSUME NEW r \in Requests, NEW t \in issued, NEW p \in Passwords, NEW q \in Passwords,
               CheckPassword(r, t, p, q)
        PROVE  Typed'
      BY <1>7 DEF Typed, TypeOK, HandlerKnowsAccount, CheckPassword, Goes, Answers, Idle, Handler,
                  Stage, Call
  <1>8. ASSUME NEW r \in Requests, ChangePassword(r)
        PROVE  Typed'
    <2> DEFINE id == req[r].id
               row == [users[id] EXCEPT !.password = req[r].call.new]
    <2>1. id \in DOMAIN users /\ req[r].call.new \in Passwords
        BY <1>0, <1>8, <1>req, CallOfOp DEF HandlerKnowsAccount, ChangePassword, At, Handler
    <2>2. row \in UserRow
        BY <1>0, <2>1 DEF TypeOK, UserRow
    <2>3. /\ users' = Updated(id, row)
          /\ req' = [req EXCEPT ![r].stage = "committed"]
          /\ committed' = committed \cup {r}
          /\ UNCHANGED <<nextId, sessions, issued, crashes>>
        BY <1>8 DEF ChangePassword, Commits
    <2> HIDE DEF row
    <2>4. users' \in [DOMAIN users -> UserRow] /\ DOMAIN users' = DOMAIN users
        BY <1>0, <2>2, <2>3, UpdatedType DEF TypeOK
    <2>5. Keeps(req, req', r, "committed")
        BY <2>3, <1>req, StageMoves DEF Stage
    <2>6. HandlerKnowsAccount' /\ req' \in [Requests -> Handler]
        BY <2>3, <2>4, <2>5, HandlersStillKnow DEF Stage
    <2> QED BY <1>0, <2>3, <2>4, <2>6 DEF Typed, TypeOK
  <1>9. ASSUME NEW r \in Requests, NEW t \in issued, NEW n \in Names, NEW p \in Passwords,
               NEW role \in Roles, CheckName(r, t, n, p, role)
        PROVE  Typed'
      BY <1>9 DEF Typed, TypeOK, HandlerKnowsAccount, CheckName, Goes, Answers, Idle, Handler,
                  Stage, Call
  <1>10. ASSUME NEW r \in Requests, CreateUser(r)
         PROVE  Typed'
    <2> DEFINE call == req[r].call
               row == [name |-> call.name, password |-> call.password, role |-> call.role,
                       active |-> TRUE]
    <2>1. row \in UserRow
        BY <1>10, <1>req, CallOfOp DEF CreateUser, At, Handler, UserRow
    <2>2. /\ nextId \in Ids /\ nextId' = nextId + 1
          /\ UNCHANGED <<sessions, issued, crashes>>
        BY <1>10 DEF CreateUser, Commits
    <2>3. nextId' \in Nat
        BY <2>2
    <2>4. CASE nextId \in DOMAIN users \/ Named(call.name) # {}
      <3>1. /\ req' = Ending(req, r, 500)
            /\ UNCHANGED <<users, committed>>
          BY <1>10, <2>4 DEF CreateUser, Ending
      <3>2. Keeps(req, req', r, "done")
          BY <3>1, <1>req, StageAnswers
      <3>3. HandlerKnowsAccount' /\ req' \in [Requests -> Handler]
          BY <3>1, <2>2, <3>2, HandlersStillKnow DEF Stage
      <3> QED BY <1>0, <2>2, <2>3, <3>1, <3>3 DEF Typed, TypeOK
    <2>5. CASE ~(nextId \in DOMAIN users \/ Named(call.name) # {})
      <3>1. /\ users' = [id \in DOMAIN users \cup {nextId} |->
                             IF id = nextId THEN row ELSE users[id]]
            /\ req' = [req EXCEPT ![r].stage = "committed"]
            /\ committed' = committed \cup {r}
          BY <1>10, <2>5 DEF CreateUser, Commits
      <3> HIDE DEF row
      <3>2. DOMAIN users' = DOMAIN users \cup {nextId} /\ users' \in [DOMAIN users' -> UserRow]
          BY <1>0, <2>1, <3>1 DEF TypeOK
      <3>3. Keeps(req, req', r, "committed")
          BY <3>1, <1>req, StageMoves DEF Stage
      <3>4. HandlerKnowsAccount' /\ req' \in [Requests -> Handler]
          BY <2>2, <3>2, <3>3, HandlersStillKnow DEF Stage
      <3> QED BY <1>0, <2>2, <2>3, <3>1, <3>2, <3>4 DEF Typed, TypeOK
    <2> QED BY <2>4, <2>5
  <1>11. ASSUME NEW r \in Requests, NEW call \in Call, Find(r, call),
                call.op \in {"update_user", "deactivate_user"}
         PROVE  Typed'
      BY <1>11 DEF Typed, TypeOK, HandlerKnowsAccount, Find, FindUser, Goes, Answers, Idle, Handler,
                  Stage
  <1>12. ASSUME NEW r \in Requests, UpdateUser(r)
         PROVE  Typed'
    <2> DEFINE id == req[r].id
               seen == req[r].seen
               call == req[r].call
               row == [users[id] EXCEPT
                        !.role   = Column(seen.role, call.role, @),
                        !.active = Column(seen.active, call.active, @)]
    <2>1. /\ id \in DOMAIN users
          /\ call.role \in Roles \cup {Keep} /\ call.active \in BOOLEAN \cup {Keep}
        BY <1>0, <1>12, <1>req, CallOfOp DEF HandlerKnowsAccount, UpdateUser, At, Handler
    <2>2. row \in UserRow
      <3>1. users[id] \in UserRow
          BY <1>0, <2>1 DEF TypeOK
      <3>2. Column(seen.role, call.role, users[id].role) \in Roles
          BY <2>1, <3>1 DEF Column, UserRow
      <3>3. Column(seen.active, call.active, users[id].active) \in BOOLEAN
          BY <2>1, <3>1 DEF Column, UserRow
      <3> QED BY <3>1, <3>2, <3>3 DEF UserRow
    <2>3. /\ users' = Updated(id, row)
          /\ req' = [req EXCEPT ![r].stage = "committed"]
          /\ committed' = committed \cup {r}
          /\ UNCHANGED <<nextId, sessions, issued, crashes>>
        BY <1>12 DEF UpdateUser, Commits
    <2> HIDE DEF row
    <2>4. users' \in [DOMAIN users -> UserRow] /\ DOMAIN users' = DOMAIN users
        BY <1>0, <2>2, <2>3, UpdatedType DEF TypeOK
    <2>5. Keeps(req, req', r, "committed")
        BY <2>3, <1>req, StageMoves DEF Stage
    <2>6. HandlerKnowsAccount' /\ req' \in [Requests -> Handler]
        BY <2>3, <2>4, <2>5, HandlersStillKnow DEF Stage
    <2> QED BY <1>0, <2>3, <2>4, <2>6 DEF Typed, TypeOK
  <1>13. ASSUME NEW r \in Requests, DeactivateUser(r)
         PROVE  Typed'
    <2> DEFINE id == req[r].id
               row == [users[id] EXCEPT !.active = Column(req[r].seen.active, FALSE, @)]
    <2>1. id \in DOMAIN users
        BY <1>0, <1>13 DEF HandlerKnowsAccount, DeactivateUser, At
    <2>2. row \in UserRow
      <3>1. users[id] \in UserRow
          BY <1>0, <2>1 DEF TypeOK
      <3>2. Column(req[r].seen.active, FALSE, users[id].active) \in BOOLEAN
          BY <3>1 DEF Column, UserRow
      <3> QED BY <3>1, <3>2 DEF UserRow
    <2>3. /\ users' = Updated(id, row)
          /\ req' = [req EXCEPT ![r].stage = "committed"]
          /\ committed' = committed \cup {r}
          /\ UNCHANGED <<nextId, sessions, issued, crashes>>
        BY <1>13 DEF DeactivateUser, Commits
    <2> HIDE DEF row
    <2>4. users' \in [DOMAIN users -> UserRow] /\ DOMAIN users' = DOMAIN users
        BY <1>0, <2>2, <2>3, UpdatedType DEF TypeOK
    <2>5. Keeps(req, req', r, "committed")
        BY <2>3, <1>req, StageMoves DEF Stage
    <2>6. HandlerKnowsAccount' /\ req' \in [Requests -> Handler]
        BY <2>3, <2>4, <2>5, HandlersStillKnow DEF Stage
    <2> QED BY <1>0, <2>3, <2>4, <2>6 DEF Typed, TypeOK
  <1>14. ASSUME NEW r \in Requests, LogAuditEvent(r)
         PROVE  Typed'
    <2>1. /\ req' = Ending(req, r, 200)
          /\ issued' = issued \cup ({req[r].token} \ {NoToken})
          /\ UNCHANGED <<users, nextId, sessions, committed, crashes>>
        BY <1>14 DEF LogAuditEvent, HandsOut, Ending
    <2>2. Keeps(req, req', r, "done")
        BY <2>1, <1>req, StageAnswers
    <2>3. HandlerKnowsAccount' /\ req' \in [Requests -> Handler]
        BY <2>1, <2>2, HandlersStillKnow DEF Stage
    <2>4. req[r].token \in AccessToken \cup {NoToken}
        BY <1>req DEF Handler
    <2>5. /\ issued' \subseteq AccessToken
          /\ \A t \in issued' : t.jti \in DOMAIN sessions /\ t.userId \in DOMAIN users
        BY <1>0, <2>1, <2>4 DEF TypeOK, HandlerKnowsAccount
    <2> QED BY <1>0, <2>1, <2>3, <2>5 DEF Typed, TypeOK
  <1>15. ASSUME Crash
         PROVE  Typed'
    <2>1. /\ crashes' \in 0 .. MaxCrashes
          /\ UNCHANGED <<users, nextId, sessions, issued, committed>>
        BY <1>0, <1>15 DEF Crash, TypeOK
    <2>2. /\ req' \in [Requests -> Handler]
          /\ \A r \in Requests : req'[r].stage # "checked" /\ req'[r].token = req[r].token
      <3>1. ASSUME NEW r \in Requests
            PROVE  LET h == [req[r] EXCEPT !.stage = "lost"]
                   IN  h \in Handler /\ h.stage = "lost" /\ h.token = req[r].token
          BY <1>req DEF Handler, Stage
      <3> DEFINE Lost(r) == [req[r] EXCEPT !.stage = "lost"]
      <3>2. \A r \in Requests : /\ Lost(r) \in Handler /\ Lost(r).stage = "lost"
                                /\ Lost(r).token = req[r].token
          BY <3>1
      <3>3. req' = [r \in Requests |->
                      IF req[r].stage \in {"checked", "failed", "committed"}
                      THEN Lost(r) ELSE req[r]]
          BY <1>15 DEF Crash
      <3> HIDE DEF Lost
      <3> QED BY <3>2, <3>3, <1>req
    <2> QED BY <1>0, <2>1, <2>2 DEF Typed, TypeOK, HandlerKnowsAccount
  <1>16. CASE UNCHANGED vars
      BY <1>0, <1>16 DEF vars, Typed, TypeOK, HandlerKnowsAccount
  <1>17. ASSUME NEW r \in Requests, CommitFails(r)
         PROVE  Typed'
    <2>1. /\ req' = Ending(req, r, 500)
          /\ UNCHANGED <<users, sessions, issued, committed, crashes>>
        BY <1>17 DEF CommitFails, Ending
    <2>2. Keeps(req, req', r, "done")
        BY <2>1, <1>req, StageAnswers
    <2>3. HandlerKnowsAccount' /\ req' \in [Requests -> Handler]
        BY <2>1, <2>2, HandlersStillKnow DEF Stage
    <2>4. nextId' \in Nat
      <3>1. nextId \in Nat /\ nextId + 1 \in Nat
          BY <1>0 DEF TypeOK
      <3>2. nextId' = nextId \/ nextId' = nextId + 1
          BY <1>17 DEF CommitFails
      <3> QED BY <3>1, <3>2
    <2> QED BY <1>0, <2>1, <2>3, <2>4 DEF Typed, TypeOK
  <1>21. ASSUME NEW r \in Requests, AuditFails(r)
         PROVE  Typed'
    <2>1. /\ req' = Ending(req, r, 500)
          /\ UNCHANGED <<users, nextId, sessions, issued, committed, crashes>>
        BY <1>21 DEF AuditFails, Ending
    <2>2. Keeps(req, req', r, "done")
        BY <2>1, <1>req, StageAnswers
    <2>3. HandlerKnowsAccount' /\ req' \in [Requests -> Handler]
        BY <2>1, <2>2, HandlersStillKnow DEF Stage
    <2> QED BY <1>0, <2>1, <2>3 DEF Typed, TypeOK
  <1>22. ASSUME NEW r \in Requests, Unserved(r)
         PROVE  Typed'
      BY <1>22 DEF Typed, TypeOK, HandlerKnowsAccount, Unserved, Answers, Idle, NoCall, Handler,
                   Stage
  <1>18. ASSUME NEW r \in Requests, NEW t \in issued, FindOwn(r, t)
         PROVE  Typed'
      BY <1>18 DEF Typed, TypeOK, HandlerKnowsAccount, FindOwn, Goes, Idle, Handler, Stage, Call
  <1>19. ASSUME NEW r \in Requests, UpdateProfile(r)
         PROVE  Typed'
    <2>1. /\ req' = [req EXCEPT ![r].stage = "committed"]
          /\ committed' = committed \cup {r}
          /\ UNCHANGED <<users, nextId, sessions, issued, crashes>>
        BY <1>19 DEF UpdateProfile, Commits
    <2>2. Keeps(req, req', r, "committed")
        BY <2>1, <1>req, StageMoves DEF Stage
    <2>3. HandlerKnowsAccount' /\ req' \in [Requests -> Handler]
        BY <2>1, <2>2, HandlersStillKnow DEF Stage
    <2> QED BY <1>0, <2>1, <2>3 DEF Typed, TypeOK
  <1>20. ASSUME NEW r \in Requests, Arrival(r)
         PROVE  Typed'
    <2>1. ASSUME NEW t \in issued, NEW target \in Ids, NEW role \in Roles \cup {Keep},
                 NEW active \in BOOLEAN \cup {Keep},
                 Find(r, [op |-> "update_user", token |-> t, target |-> target,
                          role |-> role, active |-> active])
          PROVE  Typed'
      <3> DEFINE call == [op |-> "update_user", token |-> t, target |-> target,
                          role |-> role, active |-> active]
      <3>1. call \in Call /\ call.op \in {"update_user", "deactivate_user"}
          BY <1>0 DEF Call, TypeOK
      <3>2. Find(r, call)
          BY <2>1
      <3> HIDE DEF call
      <3> QED BY <3>1, <3>2, <1>11
    <2>2. ASSUME NEW t \in issued, NEW target \in Ids,
                 Find(r, [op |-> "deactivate_user", token |-> t, target |-> target])
          PROVE  Typed'
      <3> DEFINE call == [op |-> "deactivate_user", token |-> t, target |-> target]
      <3>1. call \in Call /\ call.op \in {"update_user", "deactivate_user"}
          BY <1>0 DEF Call, TypeOK
      <3>2. Find(r, call)
          BY <2>2
      <3> HIDE DEF call
      <3> QED BY <3>1, <3>2, <1>11
    <2> QED BY <1>20, <1>1, <1>4, <1>5, <1>6, <1>7, <1>9, <1>18, <1>22, <2>1, <2>2 DEF Arrival
  <1> QED
    BY <1>2, <1>3, <1>8, <1>10, <1>12, <1>13, <1>14, <1>15, <1>16, <1>17, <1>19, <1>20, <1>21
       DEF Next

(***************************************************************************)
(* What a step is, whichever handler takes it: it enters, it has its       *)
(* effect, it is refused, it is logged, it stops short of that, or the     *)
(* process dies.                                                           *)
(***************************************************************************)
OnlyMoves(r) == \A x \in Requests : x # r => req'[x] = req[x]

\* A login that passed its checks read an active account with that password.
HoldsLogin(f, r, table) ==
    f[r].stage = "checked" /\ f[r].call.op = "login" =>
        /\ f[r].id \in DOMAIN table
        /\ f[r].seen = table[f[r].id]
        /\ f[r].seen.active
        /\ f[r].seen.password = f[r].call.password

Enters(r) ==
    /\ OnlyMoves(r)
    /\ req[r].stage = "idle" /\ req'[r].stage \in {"checked", "failed", "done"}
    /\ req'[r].token = NoToken
    /\ req'[r].stage = "done" =>
        \/ req'[r].status = 200 /\ req'[r].call.op = "me"
        \/ req'[r].status = 401 /\ req'[r].call.op = "refresh"
        \/ req'[r].status \in {400, 403, 404, 500}
    /\ HoldsLogin(req', r, users)
    /\ UNCHANGED <<users, issued, committed, past, trail>>

\* The row changes; its name does not, and it is revived on demand only.
RowChanges(r) ==
    \E id \in DOMAIN users, row \in UserRow :
        /\ users' = Updated(id, row)
        /\ row.name = users[id].name
        /\ row.active => \/ users[id].active
                         \/ /\ At(r, "checked", "update_user")
                            /\ req[r].id = id
                            /\ req[r].call.active = TRUE

\* A row with an unused name and an unused id.
RowAppears ==
    \E row \in UserRow :
        /\ nextId \notin DOMAIN users
        /\ Named(row.name) = {}
        /\ users' = [id \in DOMAIN users \cup {nextId} |->
                        IF id = nextId THEN row ELSE users[id]]

TableMoves(r) ==
    \/ UNCHANGED <<users, past>>
    \/ (RowChanges(r) \/ RowAppears) /\ past' = past \cup Snapshots(users')

\* The token of a handler is the one it had, or that of the login it checked.
TokenMoves(r) ==
    \/ req'[r].token = req[r].token
    \/ /\ At(r, "checked", "login")
       /\ \E j \in Jtis : req'[r].token = TokenFor(r, j, req[r].seen)

Effects(r) ==
    /\ OnlyMoves(r)
    /\ req[r].stage \in {"idle", "checked"} /\ req'[r].stage = "committed"
    /\ committed' = committed \cup {r}
    /\ TableMoves(r) /\ TokenMoves(r)
    /\ UNCHANGED <<issued, trail>>

Refuses(r) ==
    /\ OnlyMoves(r)
    /\ req[r].stage \in {"checked", "failed"} /\ req'[r].stage = "done"
    /\ req'[r].token = req[r].token /\ req'[r].call = req[r].call
    /\ \/ UNCHANGED trail /\ req'[r].status = 500
       \/ /\ trail' = trail \cup {[action |-> "login_failed", request |-> r]}
          /\ req'[r].status \in {401, 500}
    /\ UNCHANGED <<users, issued, committed, past>>

Logs(r) ==
    /\ OnlyMoves(r)
    /\ req[r].stage = "committed" /\ req'[r].stage = "done"
    /\ req'[r].token = req[r].token /\ req'[r].call = req[r].call
    /\ req'[r].status = 200
    /\ trail' = trail \cup {[action |-> req[r].call.op, request |-> r]}
    /\ issued' = issued \cup ({req[r].token} \ {NoToken})
    /\ UNCHANGED <<users, committed, past>>

Stops(r) ==
    /\ OnlyMoves(r)
    /\ req[r].stage = "committed" /\ req'[r].stage = "done"
    /\ req'[r].token = req[r].token /\ req'[r].call = req[r].call
    /\ req'[r].status = 500
    /\ \/ UNCHANGED trail
       \/ trail' = trail \cup {[action |-> req[r].call.op, request |-> r]}
    /\ UNCHANGED <<users, issued, committed, past>>

Dies ==
    /\ \A r \in Requests :
        /\ req'[r].token = req[r].token /\ req'[r].call = req[r].call
        /\ \/ req'[r] = req[r] /\ req[r].stage \notin {"checked", "committed"}
           \/ req'[r].stage = "lost"  /\ req[r].stage \in {"checked", "failed", "committed"}
    /\ UNCHANGED <<users, issued, committed, past, trail>>

Rests == UNCHANGED <<users, req, issued, committed, past, trail>>

LEMMA StepShape ==
    ASSUME Typed, [Next]_vars
    PROVE  \/ \E r \in Requests : Enters(r) \/ Effects(r) \/ Refuses(r) \/ Logs(r) \/ Stops(r)
           \/ Dies
           \/ Rests
  <1> DEFINE Shape == \/ \E r \in Requests : Enters(r) \/ Effects(r) \/ Refuses(r) \/ Logs(r) \/ Stops(r)
                      \/ Dies
                      \/ Rests
  <1> USE AuthServiceAssumption DEF db
  <1>0. TypeOK /\ HandlerKnowsAccount
      BY DEF Typed
  <1>req. req \in [Requests -> Handler]
      BY <1>0 DEF TypeOK
  <1>1. ASSUME NEW r \in Requests, NEW n \in Names, NEW p \in Passwords,
               Authenticate(r, n, p)
        PROVE  Enters(r)
    <2> DEFINE call == [op |-> "login", name |-> n, password |-> p]
    <2>1. /\ req[r].stage = "idle"
          /\ UNCHANGED <<users, issued, committed, past, trail>>
        BY <1>1 DEF Authenticate, Idle
    <2>2. CASE \E id \in Named(n) : /\ users[id].active /\ users[id].password = p
                                    /\ Goes(r, "checked", call, id, users[id])
        BY <2>1, <2>2, <1>req DEF Enters, OnlyMoves, HoldsLogin, Goes, Named
    <2>3. CASE Goes(r, "failed", call, 0, NoRow)
        BY <2>1, <2>3, <1>req DEF Enters, OnlyMoves, HoldsLogin, Goes
    <2> QED BY <1>1, <2>2, <2>3 DEF Authenticate
  <1>2. ASSUME NEW r \in Requests, NEW j \in Jtis, CreateUserTokens(r, j)
        PROVE  Effects(r)
    <2> DEFINE t == TokenFor(r, j, req[r].seen)
    <2>1. req[r].id \in DOMAIN users /\ req[r].seen \in UserRow /\ req[r].call.password \in Passwords
        BY <1>0, <1>2, <1>req, CallOfOp DEF HandlerKnowsAccount, CreateUserTokens, At, Handler
    <2>2. t \in AccessToken
        BY <1>0, <2>1 DEF TokenFor, AccessToken, UserRow, TypeOK
    <2>3. /\ req' = Holding(req, r, t)
          /\ At(r, "checked", "login")
          /\ committed' = committed \cup {r}
          /\ UNCHANGED <<users, trail, issued, past>>
        BY <1>2 DEF CreateUserTokens, OpensSession, Holding
    <2>4. t = TokenFor(r, j, req[r].seen)
        OBVIOUS
    <2> HIDE DEF t
    <2>5. /\ \A x \in Requests : x # r => req'[x] = req[x]
          /\ req'[r].stage = "committed" /\ req'[r].token = t
        BY <2>2, <2>3, <1>req, StageHolds
    <2> QED BY <2>3, <2>4, <2>5 DEF Effects, OnlyMoves, TableMoves, TokenMoves, At
  <1>3. ASSUME NEW r \in Requests, LoginFailed(r)
        PROVE  Refuses(r)
    <2>0. req' = Ending(req, r, 401)
        BY <1>3 DEF LoginFailed, Ending
    <2>1. Keeps(req, req', r, "done") /\ req'[r].status = 401
        BY <2>0, <1>req, StageAnswers
    <2> QED BY <1>3, <2>1 DEF LoginFailed, Refuses, OnlyMoves, Keeps
  <1>4. ASSUME NEW r \in Requests, Refresh(r)
        PROVE  Enters(r)
      BY <1>4, <1>req DEF Refresh, Answers, Idle, Enters, OnlyMoves, HoldsLogin
  <1>5. ASSUME NEW r \in Requests, NEW t \in issued, Logout(r, t)
        PROVE  Effects(r)
    <2> DEFINE call == [op |-> "logout", token |-> t]
    <2>0. req' = Calling(req, r, call)
        BY <1>5 DEF Logout, Calling
    <2>1. call \in Call
        BY <1>0 DEF Call, TypeOK
    <2> HIDE DEF call
    <2>2. /\ \A x \in Requests : x # r => req'[x] = req[x]
          /\ req'[r].stage = "committed" /\ req'[r].token = req[r].token
        BY <2>0, <1>req, <2>1, StageCalls
    <2> QED BY <1>5, <2>2 DEF Logout, Idle, Effects, OnlyMoves, TableMoves, TokenMoves
  <1>6. ASSUME NEW r \in Requests, NEW t \in issued, Me(r, t)
        PROVE  Enters(r)
      BY <1>6, <1>req DEF Me, Answers, Idle, Enters, OnlyMoves, HoldsLogin
  <1>7. ASSUME NEW r \in Requests, NEW t \in issued, NEW p \in Passwords, NEW q \in Passwords,
               CheckPassword(r, t, p, q)
        PROVE  Enters(r)
      BY <1>7, <1>req DEF CheckPassword, Goes, Answers, Idle, Enters, OnlyMoves, HoldsLogin
  <1>8. ASSUME NEW r \in Requests, ChangePassword(r)
        PROVE  Effects(r)
    <2> DEFINE id == req[r].id
               row == [users[id] EXCEPT !.password = req[r].call.new]
    <2>1. id \in DOMAIN users /\ req[r].call.new \in Passwords
        BY <1>0, <1>8, <1>req, CallOfOp DEF HandlerKnowsAccount, ChangePassword, At, Handler
    <2>2. row \in UserRow /\ row.name = users[id].name /\ row.active = users[id].active
        BY <1>0, <2>1 DEF TypeOK, UserRow
    <2>3. /\ users' = Updated(id, row)
          /\ past' = past \cup Snapshots(users')
          /\ req' = [req EXCEPT ![r].stage = "committed"]
          /\ committed' = committed \cup {r}
          /\ UNCHANGED <<trail, issued>>
          /\ req[r].stage = "checked"
        BY <1>8 DEF ChangePassword, Commits, At
    <2> HIDE DEF row
    <2>4. Keeps(req, req', r, "committed")
        BY <2>3, <1>req, StageMoves DEF Stage
    <2>5. RowChanges(r)
        BY <2>1, <2>2, <2>3 DEF RowChanges
    <2> QED BY <2>3, <2>4, <2>5 DEF Effects, OnlyMoves, TableMoves, TokenMoves, Keeps
  <1>9. ASSUME NEW r \in Requests, NEW t \in issued, NEW n \in Names, NEW p \in Passwords,
               NEW role \in Roles, CheckName(r, t, n, p, role)
        PROVE  Enters(r)
      BY <1>9, <1>req DEF CheckName, Goes, Answers, Idle, Enters, OnlyMoves, HoldsLogin
  <1>10. ASSUME NEW r \in Requests, CreateUser(r)
         PROVE  Effects(r) \/ Refuses(r)
    <2> DEFINE call == req[r].call
               row == [name |-> call.name, password |-> call.password, role |-> call.role,
                       active |-> TRUE]
    <2>1. row \in UserRow /\ row.name = call.name
        BY <1>10, <1>req, CallOfOp DEF CreateUser, At, Handler, UserRow
    <2>2. req[r].stage = "checked" /\ UNCHANGED issued
        BY <1>10 DEF CreateUser, At
    <2>3. CASE nextId \in DOMAIN users \/ Named(call.name) # {}
      <3>1. /\ req' = Ending(req, r, 500)
            /\ UNCHANGED <<users, past, committed, trail>>
          BY <1>10, <2>3 DEF CreateUser, Ending
      <3>2. Keeps(req, req', r, "done") /\ req'[r].status = 500
          BY <3>1, <1>req, StageAnswers
      <3> QED BY <2>2, <3>1, <3>2 DEF Refuses, OnlyMoves, Keeps
    <2>4. CASE ~(nextId \in DOMAIN users \/ Named(call.name) # {})
      <3>1. /\ users' = [id \in DOMAIN users \cup {nextId} |->
                             IF id = nextId THEN row ELSE users[id]]
            /\ past' = past \cup Snapshots(users')
            /\ req' = [req EXCEPT ![r].stage = "committed"]
            /\ committed' = committed \cup {r}
            /\ UNCHANGED trail
          BY <1>10, <2>4 DEF CreateUser, Commits
      <3> HIDE DEF row
      <3>2. Keeps(req, req', r, "committed")
          BY <3>1, <1>req, StageMoves DEF Stage
      <3>3. RowAppears
          BY <2>1, <2>4, <3>1 DEF RowAppears
      <3> QED BY <2>2, <3>1, <3>2, <3>3 DEF Effects, OnlyMoves, TableMoves, TokenMoves, Keeps
    <2> QED BY <2>3, <2>4
  <1>11. ASSUME NEW r \in Requests, NEW call, Find(r, call),
                call.op \in {"update_user", "deactivate_user"}
         PROVE  Enters(r)
      BY <1>11, <1>req DEF Find, FindUser, Goes, Answers, Idle, Enters, OnlyMoves, HoldsLogin
  <1>12. ASSUME NEW r \in Requests, UpdateUser(r)
         PROVE  Effects(r)
    <2> DEFINE id == req[r].id
               seen == req[r].seen
               call == req[r].call
               row == [users[id] EXCEPT
                        !.role   = Column(seen.role, call.role, @),
                        !.active = Column(seen.active, call.active, @)]
    <2>1. /\ id \in DOMAIN users
          /\ call.role \in Roles \cup {Keep} /\ call.active \in BOOLEAN \cup {Keep}
        BY <1>0, <1>12, <1>req, CallOfOp DEF HandlerKnowsAccount, UpdateUser, At, Handler
    <2>2. /\ row \in UserRow /\ row.name = users[id].name
          /\ row.active => users[id].active \/ call.active = TRUE
      <3>1. users[id] \in UserRow
          BY <1>0, <2>1 DEF TypeOK
      <3>2. Column(seen.role, call.role, users[id].role) \in Roles
          BY <2>1, <3>1 DEF Column, UserRow
      <3>3. /\ Column(seen.active, call.active, users[id].active) \in BOOLEAN
            /\ Column(seen.active, call.active, users[id].active)
                  => users[id].active \/ call.active = TRUE
          BY <2>1, <3>1 DEF Column, UserRow
      <3> QED BY <3>1, <3>2, <3>3 DEF UserRow
    <2>3. /\ users' = Updated(id, row)
          /\ past' = past \cup Snapshots(users')
          /\ req' = [req EXCEPT ![r].stage = "committed"]
          /\ committed' = committed \cup {r}
          /\ UNCHANGED <<trail, issued>>
          /\ At(r, "checked", "update_user")
        BY <1>12 DEF UpdateUser, Commits
    <2> HIDE DEF row
    <2>4. Keeps(req, req', r, "committed")
        BY <2>3, <1>req, StageMoves DEF Stage
    <2>5. RowChanges(r)
        BY <2>1, <2>2, <2>3 DEF RowChanges
    <2> QED BY <2>3, <2>4, <2>5 DEF Effects, OnlyMoves, TableMoves, TokenMoves, Keeps, At
  <1>13. ASSUME NEW r \in Requests, DeactivateUser(r)
         PROVE  Effects(r)
    <2> DEFINE id == req[r].id
               row == [users[id] EXCEPT !.active = Column(req[r].seen.active, FALSE, @)]
    <2>1. id \in DOMAIN users
        BY <1>0, <1>13 DEF HandlerKnowsAccount, DeactivateUser, At
    <2>2. /\ row \in UserRow /\ row.name = users[id].name
          /\ row.active => users[id].active
      <3>1. users[id] \in UserRow
          BY <1>0, <2>1 DEF TypeOK
      <3>2. /\ Column(req[r].seen.active, FALSE, users[id].active) \in BOOLEAN
            /\ Column(req[r].seen.active, FALSE, users[id].active) => users[id].active
          BY <3>1 DEF Column, UserRow
      <3> QED BY <3>1, <3>2 DEF UserRow
    <2>3. /\ users' = Updated(id, row)
          /\ past' = past \cup Snapshots(users')
          /\ req' = [req EXCEPT ![r].stage = "committed"]
          /\ committed' = committed \cup {r}
          /\ UNCHANGED <<trail, issued>>
          /\ req[r].stage = "checked"
        BY <1>13 DEF DeactivateUser, Commits, At
    <2> HIDE DEF row
    <2>4. Keeps(req, req', r, "committed")
        BY <2>3, <1>req, StageMoves DEF Stage
    <2>5. RowChanges(r)
        BY <2>1, <2>2, <2>3 DEF RowChanges
    <2> QED BY <2>3, <2>4, <2>5 DEF Effects, OnlyMoves, TableMoves, TokenMoves, Keeps
  <1>14. ASSUME NEW r \in Requests, LogAuditEvent(r)
         PROVE  Logs(r)
    <2>1. /\ req' = Ending(req, r, 200)
          /\ issued' = issued \cup ({req[r].token} \ {NoToken})
          /\ trail' = trail \cup {[action |-> req[r].call.op, request |-> r]}
          /\ req[r].stage = "committed"
          /\ UNCHANGED <<users, committed, past>>
        BY <1>14 DEF LogAuditEvent, HandsOut, Ending
    <2>2. Keeps(req, req', r, "done") /\ req'[r].status = 200
        BY <2>1, <1>req, StageAnswers
    <2> QED BY <2>1, <2>2 DEF Logs, OnlyMoves, Keeps
  <1>15. ASSUME Crash
         PROVE  Dies
    <2> DEFINE Lost(r) == [req[r] EXCEPT !.stage = "lost"]
    <2>1. \A r \in Requests : /\ Lost(r).stage = "lost"
                              /\ Lost(r).token = req[r].token /\ Lost(r).call = req[r].call
        BY <1>req DEF Handler
    <2>2. /\ req' = [r \in Requests |->
                      IF req[r].stage \in {"checked", "failed", "committed"}
                      THEN Lost(r) ELSE req[r]]
          /\ UNCHANGED <<users, issued, committed, past, trail>>
        BY <1>15 DEF Crash
    <2> HIDE DEF Lost
    <2> QED BY <2>1, <2>2 DEF Dies
  <1>16. CASE UNCHANGED vars
      BY <1>16 DEF vars, Rests
  <1>17. ASSUME NEW r \in Requests, CommitFails(r)
         PROVE  Refuses(r)
    <2>1. /\ req' = Ending(req, r, 500)
          /\ req[r].stage = "checked"
          /\ UNCHANGED <<users, trail, issued, committed, past>>
        BY <1>17 DEF CommitFails, Ending
    <2>2. Keeps(req, req', r, "done") /\ req'[r].status = 500
        BY <2>1, <1>req, StageAnswers
    <2> QED BY <2>1, <2>2 DEF Refuses, OnlyMoves, Keeps
  <1>21. ASSUME NEW r \in Requests, AuditFails(r)
         PROVE  Refuses(r) \/ Stops(r)
    <2>1. /\ req' = Ending(req, r, 500)
          /\ req[r].stage \in {"failed", "committed"}
          /\ UNCHANGED <<users, issued, committed, past>>
        BY <1>21 DEF AuditFails, Ending
    <2>2. Keeps(req, req', r, "done") /\ req'[r].status = 500
        BY <2>1, <1>req, StageAnswers
    <2>3. CASE req[r].stage = "failed"
      <3>1. \/ UNCHANGED trail
            \/ trail' = trail \cup {[action |-> "login_failed", request |-> r]}
          BY <1>21, <2>3 DEF AuditFails
      <3> QED BY <2>1, <2>2, <2>3, <3>1 DEF Refuses, OnlyMoves, Keeps
    <2>4. CASE req[r].stage = "committed"
      <3>1. \/ UNCHANGED trail
            \/ trail' = trail \cup {[action |-> req[r].call.op, request |-> r]}
          BY <1>21, <2>4 DEF AuditFails
      <3> QED BY <2>1, <2>2, <2>4, <3>1 DEF Stops, OnlyMoves, Keeps
    <2> QED BY <2>1, <2>3, <2>4
  <1>22. ASSUME NEW r \in Requests, Unserved(r)
         PROVE  Enters(r)
      BY <1>22, <1>req DEF Unserved, Answers, Idle, Enters, OnlyMoves, HoldsLogin
  <1>18. ASSUME NEW r \in Requests, NEW t \in issued, FindOwn(r, t)
         PROVE  Enters(r)
      BY <1>18, <1>req DEF FindOwn, Goes, Idle, Enters, OnlyMoves, HoldsLogin
  <1>19. ASSUME NEW r \in Requests, UpdateProfile(r)
         PROVE  Effects(r)
    <2>1. /\ req' = [req EXCEPT ![r].stage = "committed"]
          /\ committed' = committed \cup {r}
          /\ req[r].stage = "checked"
          /\ UNCHANGED <<users, issued, past, trail>>
        BY <1>19 DEF UpdateProfile, Commits, At
    <2>2. Keeps(req, req', r, "committed")
        BY <2>1, <1>req, StageMoves DEF Stage
    <2> QED BY <2>1, <2>2 DEF Effects, OnlyMoves, TableMoves, TokenMoves, Keeps
  <1>20. ASSUME NEW r \in Requests, Arrival(r)
         PROVE  Enters(r) \/ Effects(r)
    <2>1. ASSUME NEW t \in issued, NEW target \in Ids, NEW role \in Roles \cup {Keep},
                 NEW active \in BOOLEAN \cup {Keep},
                 Find(r, [op |-> "update_user", token |-> t, target |-> target,
                          role |-> role, active |-> active])
          PROVE  Enters(r)
      <3> DEFINE call == [op |-> "update_user", token |-> t, target |-> target,
                          role |-> role, active |-> active]
      <3>1. call.op \in {"update_user", "deactivate_user"} /\ Find(r, call)
          BY <2>1
      <3> HIDE DEF call
      <3> QED BY <3>1, <1>11
    <2>2. ASSUME NEW t \in issued, NEW target \in Ids,
                 Find(r, [op |-> "deactivate_user", token |-> t, target |-> target])
          PROVE  Enters(r)
      <3> DEFINE call == [op |-> "deactivate_user", token |-> t, target |-> target]
      <3>1. call.op \in {"update_user", "deactivate_user"} /\ Find(r, call)
          BY <2>2
      <3> HIDE DEF call
      <3> QED BY <3>1, <1>11
    <2> QED BY <1>20, <1>1, <1>4, <1>5, <1>6, <1>7, <1>9, <1>18, <1>22, <2>1, <2>2 DEF Arrival
  <1> QED
    BY <1>2, <1>3, <1>8, <1>10, <1>12, <1>13, <1>14, <1>15, <1>16, <1>17, <1>19, <1>20, <1>21
       DEF Next

(***************************************************************************)
(* The invariants.                                                         *)
(***************************************************************************)
\* What is about to be logged is committed.
CommitIsRecorded ==
    \A r \in Requests : req[r].stage = "committed" => r \in committed

\* What has had no effect yet has left no trace, and no event is of nobody.
StartsBlank ==
    /\ \A r \in Requests :
        req[r].stage \in {"idle", "checked", "failed"} => r \notin committed /\ ~InTrail(r)
    /\ \A e \in trail : e.request \in Requests

\* The history holds the present.
PastHoldsPresent == Snapshots(users) \subseteq past

\* The account was, at one moment, as the token says.
WasSo(t, history) ==
    \E s \in history :
        /\ s.id = t.userId
        /\ s.row.active
        /\ s.row.role = t.role
        /\ s.row.password = t.password

\* A login on its way has read a state that the account was in.
LoginsReadPast ==
    \A r \in Requests :
        /\ req[r].stage = "checked" /\ req[r].call.op = "login" =>
            /\ [id |-> req[r].id, row |-> req[r].seen] \in past
            /\ req[r].seen.active
            /\ req[r].seen.password = req[r].call.password
        /\ req[r].token # NoToken => WasSo(req[r].token, past)

IInv ==
    /\ Typed
    /\ NamesAreUnique
    /\ TrailMatchesEffects /\ CommitIsRecorded /\ StartsBlank
    /\ PastHoldsPresent /\ LoginsReadPast /\ LoginIsSnapshot

LEMMA InvInit == Init => IInv
  <1> SUFFICES ASSUME Init PROVE IInv
      OBVIOUS
  <1> USE AuthServiceAssumption
  <1>1. Typed
      BY TypeInit
  <1>2. NamesAreUnique
      BY DEF Init, NamesAreUnique
  <1>3. TrailMatchesEffects /\ CommitIsRecorded /\ StartsBlank
      BY DEF Init, TrailMatchesEffects, ConfirmedIsAudited, RefusalsAreAudited, EffectsAreAudited,
             TrailIsTruthful, CommitIsRecorded, StartsBlank, Answered, InTrail
  <1>4. PastHoldsPresent
      BY DEF Init, PastHoldsPresent
  <1>5. LoginsReadPast
      BY DEF Init, LoginsReadPast
  <1>6. LoginIsSnapshot
    <2>1. ASSUME NEW t \in issued
          PROVE  \E s \in past : /\ s.id = t.userId /\ s.row.active
                                /\ s.row.role = t.role /\ s.row.password = t.password
      <3> DEFINE s == [id |-> t.userId, row |-> Seed[t.userId]]
      <3>1. s \in past /\ s.id = t.userId /\ s.row = Seed[t.userId]
          BY <2>1 DEF Init, Snapshots
      <3>2. /\ Seed[t.userId].active
            /\ Seed[t.userId].role = t.role /\ Seed[t.userId].password = t.password
          BY <2>1 DEF Init
      <3> HIDE DEF s
      <3> QED BY <3>1, <3>2
    <2> QED BY <2>1 DEF LoginIsSnapshot
  <1> QED BY <1>1, <1>2, <1>3, <1>4, <1>5, <1>6 DEF IInv

LEMMA NamesStayUnique ==
    ASSUME Typed, NamesAreUnique, [Next]_vars
    PROVE  NamesAreUnique'
  <1>0. users \in [DOMAIN users -> UserRow]
      BY DEF Typed, TypeOK
  <1>1. CASE UNCHANGED users
      BY <1>1 DEF NamesAreUnique
  <1>2. ASSUME NEW r \in Requests, RowChanges(r)
        PROVE  NamesAreUnique'
    <2>1. PICK id \in DOMAIN users, row \in UserRow :
                users' = Updated(id, row) /\ row.name = users[id].name
        BY <1>2 DEF RowChanges
    <2>2. DOMAIN users' = DOMAIN users /\ \A i \in DOMAIN users : users'[i].name = users[i].name
        BY <1>0, <2>1 DEF Updated
    <2> QED BY <2>2 DEF NamesAreUnique
  <1>3. CASE RowAppears
    <2>1. PICK row \in UserRow :
                /\ nextId \notin DOMAIN users
                /\ Named(row.name) = {}
                /\ users' = [id \in DOMAIN users \cup {nextId} |->
                                IF id = nextId THEN row ELSE users[id]]
        BY <1>3 DEF RowAppears
    <2> QED BY <2>1 DEF NamesAreUnique, Named
  <1> QED BY <1>1, <1>2, <1>3, StepShape DEF Enters, Effects, Refuses, Logs, Stops, Dies, Rests, TableMoves

\* A step adds at most one event, of the handler that takes it.
Notes(r, action) == trail' = trail \cup {[action |-> action, request |-> r]}

LEMMA NotesAddOne ==
    ASSUME NEW r, NEW action, Notes(r, action)
    PROVE  /\ [action |-> action, request |-> r] \in trail' /\ InTrail(r)'
           /\ \A x : x # r => (InTrail(x)' <=> InTrail(x))
           /\ \A e \in trail' : e \in trail \/ (e.request = r /\ e.action = action)
  <1> DEFINE event == [action |-> action, request |-> r]
  <1>1. trail' = trail \cup {event} /\ event.request = r /\ event.action = action
      BY DEF Notes
  <1>2. event \in trail'
      BY <1>1
  <1> HIDE DEF event
  <1>3. InTrail(r)' /\ \A x : x # r => (InTrail(x)' <=> InTrail(x))
      BY <1>1 DEF InTrail
  <1>4. \A e \in trail' : e \in trail \/ (e.request = r /\ e.action = action)
      BY <1>1
  <1> QED BY <1>2, <1>3, <1>4 DEF event

LEMMA TrailStaysTrue ==
    ASSUME Typed, TrailMatchesEffects, CommitIsRecorded, StartsBlank, [Next]_vars
    PROVE  (TrailMatchesEffects /\ CommitIsRecorded /\ StartsBlank)'
  <1> DEFINE Books == TrailMatchesEffects /\ CommitIsRecorded /\ StartsBlank
  <1> USE DEF TrailMatchesEffects
  <1>0. committed \subseteq Requests
      BY DEF Typed, TypeOK
  <1>1. ASSUME UNCHANGED trail PROVE \A x : InTrail(x)' <=> InTrail(x)
      BY <1>1 DEF InTrail
  <1>no. \A x \in Requests : req[x].stage = "done" /\ req[x].status \in {400, 403, 404} =>
                                x \notin committed /\ ~InTrail(x)
      BY DEF RefusalsAreAudited
  <1>2. ASSUME NEW r \in Requests, Enters(r) PROVE Books'
    <2>1. ConfirmedIsAudited'
        BY <1>2 DEF Enters, OnlyMoves, ConfirmedIsAudited, Answered
    <2>2. RefusalsAreAudited'
    <3>1. ASSUME NEW x \in Requests, Answered(x, 401)', req'[x].call.op = "login"
          PROVE  [action |-> "login_failed", request |-> x] \in trail'
        BY <1>2, <3>1 DEF Enters, OnlyMoves, RefusalsAreAudited, Answered
    <3>2. ASSUME NEW x \in Requests, req'[x].stage = "done", req'[x].status \in {400, 403, 404}
          PROVE  x \notin committed' /\ ~InTrail(x)'
        BY <1>no, <1>1, <1>2, <3>2 DEF Enters, OnlyMoves, StartsBlank
    <3> QED BY <3>1, <3>2 DEF RefusalsAreAudited
    <2>3. EffectsAreAudited'
        BY <1>0, <1>1, <1>2 DEF Enters, OnlyMoves, EffectsAreAudited, StartsBlank, Answered
    <2>4. TrailIsTruthful'
        BY <1>2 DEF Enters, OnlyMoves, TrailIsTruthful, StartsBlank, InTrail
    <2>5. CommitIsRecorded' /\ StartsBlank'
        BY <1>1, <1>2 DEF Enters, OnlyMoves, CommitIsRecorded, StartsBlank
    <2> QED BY <2>1, <2>2, <2>3, <2>4, <2>5
  <1>3. ASSUME NEW r \in Requests, Effects(r) PROVE Books'
    <2>1. ConfirmedIsAudited'
        BY <1>3 DEF Effects, OnlyMoves, ConfirmedIsAudited, Answered
    <2>2. RefusalsAreAudited'
    <3>1. ASSUME NEW x \in Requests, Answered(x, 401)', req'[x].call.op = "login"
          PROVE  [action |-> "login_failed", request |-> x] \in trail'
        BY <1>3, <3>1 DEF Effects, OnlyMoves, RefusalsAreAudited, Answered
    <3>2. ASSUME NEW x \in Requests, req'[x].stage = "done", req'[x].status \in {400, 403, 404}
          PROVE  x \notin committed' /\ ~InTrail(x)'
        BY <1>no, <1>1, <1>3, <3>2 DEF Effects, OnlyMoves
    <3> QED BY <3>1, <3>2 DEF RefusalsAreAudited
    <2>3. EffectsAreAudited'
        BY <1>0, <1>1, <1>3 DEF Effects, OnlyMoves, EffectsAreAudited, Answered
    <2>4. TrailIsTruthful'
        BY <1>3 DEF Effects, OnlyMoves, TrailIsTruthful, StartsBlank, InTrail
    <2>5. CommitIsRecorded' /\ StartsBlank'
        BY <1>1, <1>3 DEF Effects, OnlyMoves, CommitIsRecorded, StartsBlank
    <2> QED BY <2>1, <2>2, <2>3, <2>4, <2>5
  <1>4. ASSUME NEW r \in Requests, OnlyMoves(r), UNCHANGED committed,
               req'[r].stage = "done", req'[r].call = req[r].call,
               \/ UNCHANGED trail /\ req'[r].status = 500
               \/ \E action : /\ Notes(r, action)
                              /\ action = IF r \in committed THEN req[r].call.op
                                          ELSE "login_failed"
                              /\ \/ req'[r].status = 200 /\ r \in committed
                                 \/ req'[r].status = 401 /\ r \notin committed
                                 \/ req'[r].status = 500
        PROVE  Books'
    <2>1. CASE UNCHANGED trail /\ req'[r].status = 500
      <3>1. ConfirmedIsAudited' /\ RefusalsAreAudited' /\ EffectsAreAudited'
          BY <1>0, <1>1, <1>4, <2>1 DEF OnlyMoves, ConfirmedIsAudited, RefusalsAreAudited,
                                        EffectsAreAudited, Answered
      <3>2. TrailIsTruthful'
          BY <1>4, <2>1 DEF OnlyMoves, TrailIsTruthful, StartsBlank
      <3>3. CommitIsRecorded' /\ StartsBlank'
          BY <1>1, <1>4, <2>1 DEF OnlyMoves, CommitIsRecorded, StartsBlank
      <3> QED BY <3>1, <3>2, <3>3
    <2>2. ASSUME NEW action, Notes(r, action),
                 action = IF r \in committed THEN req[r].call.op ELSE "login_failed",
                 \/ req'[r].status = 200 /\ r \in committed
                 \/ req'[r].status = 401 /\ r \notin committed
                 \/ req'[r].status = 500
          PROVE  Books'
      <3>0. /\ [action |-> action, request |-> r] \in trail' /\ InTrail(r)'
            /\ \A x : x # r => (InTrail(x)' <=> InTrail(x))
            /\ \A e \in trail' : e \in trail \/ (e.request = r /\ e.action = action)
            /\ trail \subseteq trail'
          BY <2>2, NotesAddOne DEF Notes
      <3>1. ConfirmedIsAudited'
          BY <1>4, <2>2, <3>0 DEF OnlyMoves, ConfirmedIsAudited, Answered
      <3>2. RefusalsAreAudited'
      <4>1. ASSUME NEW x \in Requests, Answered(x, 401)', req'[x].call.op = "login"
            PROVE  [action |-> "login_failed", request |-> x] \in trail'
          BY <1>4, <2>2, <3>0, <4>1 DEF OnlyMoves, RefusalsAreAudited, Answered
      <4>2. ASSUME NEW x \in Requests, req'[x].stage = "done", req'[x].status \in {400, 403, 404}
            PROVE  x \notin committed' /\ ~InTrail(x)'
          BY <1>no, <1>4, <2>2, <3>0, <4>2 DEF OnlyMoves
      <4> QED BY <4>1, <4>2 DEF RefusalsAreAudited
      <3>3. EffectsAreAudited'
          BY <1>0, <1>4, <2>2, <3>0 DEF OnlyMoves, EffectsAreAudited, Answered
      <3>4. TrailIsTruthful'
          BY <1>4, <2>2, <3>0 DEF OnlyMoves, TrailIsTruthful, StartsBlank
      <3>5. CommitIsRecorded' /\ StartsBlank'
          BY <1>4, <3>0 DEF OnlyMoves, CommitIsRecorded, StartsBlank
      <3> QED BY <3>1, <3>2, <3>3, <3>4, <3>5
    <2> QED BY <1>4, <2>1, <2>2
  <1>5. ASSUME NEW r \in Requests, Refuses(r) \/ Logs(r) \/ Stops(r) PROVE Books'
    <2>1. Refuses(r) => r \notin committed
        BY DEF Refuses, StartsBlank
    <2>2. Logs(r) \/ Stops(r) => r \in committed
        BY DEF Logs, Stops, CommitIsRecorded
    <2> QED BY <1>4, <1>5, <2>1, <2>2 DEF Refuses, Logs, Stops, Notes
  <1>6. ASSUME Dies PROVE Books'
    <2>1. ConfirmedIsAudited' /\ RefusalsAreAudited'
        BY <1>1, <1>6 DEF Dies, ConfirmedIsAudited, RefusalsAreAudited, Answered
    <2>2. EffectsAreAudited'
        BY <1>0, <1>1, <1>6 DEF Dies, EffectsAreAudited, Answered
    <2>3. TrailIsTruthful'
        BY <1>6 DEF Dies, TrailIsTruthful, StartsBlank
    <2>4. CommitIsRecorded' /\ StartsBlank'
        BY <1>1, <1>6 DEF Dies, CommitIsRecorded, StartsBlank
    <2> QED BY <2>1, <2>2, <2>3, <2>4
  <1>7. ASSUME Rests PROVE Books'
    <2>1. ConfirmedIsAudited' /\ RefusalsAreAudited' /\ EffectsAreAudited'
        BY <1>1, <1>7 DEF Rests, ConfirmedIsAudited, RefusalsAreAudited, EffectsAreAudited, Answered
    <2>2. TrailIsTruthful' /\ CommitIsRecorded' /\ StartsBlank'
        BY <1>1, <1>7 DEF Rests, TrailIsTruthful, CommitIsRecorded, StartsBlank
    <2> QED BY <2>1, <2>2
  <1> QED BY <1>2, <1>3, <1>5, <1>6, <1>7, StepShape

LEMMA LoginsGoOn ==
    ASSUME LoginsReadPast, NEW r \in Requests, OnlyMoves(r), UNCHANGED past,
           req'[r].stage # "checked", req'[r].token = req[r].token
    PROVE  LoginsReadPast'
  <1>1. ASSUME NEW x \in Requests, req'[x].stage = "checked", req'[x].call.op = "login"
        PROVE  /\ [id |-> req'[x].id, row |-> req'[x].seen] \in past'
               /\ req'[x].seen.active
               /\ req'[x].seen.password = req'[x].call.password
      BY <1>1 DEF OnlyMoves, LoginsReadPast
  <1>2. ASSUME NEW x \in Requests, req'[x].token # NoToken
        PROVE  WasSo(req'[x].token, past')
    <2>1. req'[x].token = req[x].token
        BY DEF OnlyMoves
    <2> QED BY <1>2, <2>1 DEF LoginsReadPast
  <1> QED BY <1>1, <1>2 DEF LoginsReadPast

LEMMA LoginsStayPast ==
    ASSUME Typed, PastHoldsPresent, LoginsReadPast, LoginIsSnapshot, [Next]_vars
    PROVE  (PastHoldsPresent /\ LoginsReadPast /\ LoginIsSnapshot)'
  <1> DEFINE Inv == PastHoldsPresent /\ LoginsReadPast /\ LoginIsSnapshot
  <1>0. \A t \in issued : WasSo(t, past)
      BY DEF LoginIsSnapshot, WasSo
  <1>1. ASSUME past \subseteq past', \A t \in issued' : WasSo(t, past)
        PROVE  LoginIsSnapshot'
      BY <1>1 DEF LoginIsSnapshot, WasSo
  <1>2. ASSUME NEW r \in Requests, Enters(r) PROVE Inv'
    <2>1. LoginIsSnapshot' /\ PastHoldsPresent'
        BY <1>2, <1>0, <1>1 DEF Enters, PastHoldsPresent, Snapshots
    <2>2. LoginsReadPast'
        BY <1>2 DEF Enters, OnlyMoves, HoldsLogin, LoginsReadPast, PastHoldsPresent, Snapshots, WasSo
    <2> QED BY <2>1, <2>2
  <1>3. ASSUME NEW r \in Requests, Effects(r) PROVE Inv'
    <2>1. past \subseteq past' /\ PastHoldsPresent'
        BY <1>3 DEF Effects, TableMoves, PastHoldsPresent, Snapshots
    <2>2. LoginIsSnapshot'
        BY <1>3, <1>0, <1>1, <2>1 DEF Effects
    <2>3. req'[r].token # NoToken => WasSo(req'[r].token, past)
      <3>1. CASE req'[r].token = req[r].token
          BY <3>1 DEF LoginsReadPast
      <3>2. ASSUME At(r, "checked", "login"), NEW j \in Jtis,
                   req'[r].token = TokenFor(r, j, req[r].seen)
            PROVE  WasSo(req'[r].token, past)
        <4> DEFINE s == [id |-> req[r].id, row |-> req[r].seen]
        <4>1. s \in past /\ s.row.active /\ s.row.password = req[r].call.password
            BY <3>2 DEF LoginsReadPast, At
        <4>2. /\ req'[r].token.userId = s.id /\ req'[r].token.role = s.row.role
              /\ req'[r].token.password = req[r].call.password
            BY <3>2 DEF TokenFor
        <4> HIDE DEF s
        <4> QED BY <4>1, <4>2 DEF WasSo
      <3> QED BY <1>3, <3>1, <3>2 DEF Effects, TokenMoves
    <2>4. LoginsReadPast'
      <3>1. ASSUME NEW x \in Requests, x # r,
                   req'[x].stage = "checked", req'[x].call.op = "login"
            PROVE  /\ [id |-> req'[x].id, row |-> req'[x].seen] \in past'
                   /\ req'[x].seen.active
                   /\ req'[x].seen.password = req'[x].call.password
          BY <1>3, <2>1, <3>1 DEF Effects, OnlyMoves, LoginsReadPast
      <3>2. ASSUME NEW x \in Requests, req'[x].token # NoToken
            PROVE  WasSo(req'[x].token, past')
        <4>1. WasSo(req'[x].token, past)
            BY <1>3, <2>3, <3>2 DEF Effects, OnlyMoves, LoginsReadPast
        <4> QED BY <4>1, <2>1 DEF WasSo
      <3>3. req'[r].stage = "committed"
          BY <1>3 DEF Effects
      <3> QED BY <3>1, <3>2, <3>3 DEF LoginsReadPast
    <2> QED BY <2>1, <2>2, <2>4
  <1>4. ASSUME NEW r \in Requests, Refuses(r) PROVE Inv'
    <2>1. LoginIsSnapshot' /\ PastHoldsPresent'
        BY <1>4, <1>0, <1>1 DEF Refuses, PastHoldsPresent, Snapshots
    <2>2. LoginsReadPast'
        BY <1>4, LoginsGoOn DEF Refuses
    <2> QED BY <2>1, <2>2
  <1>5. ASSUME NEW r \in Requests, Logs(r) PROVE Inv'
    <2>1. \A t \in issued' : WasSo(t, past)
      <3>1. issued' = issued \cup ({req[r].token} \ {NoToken})
          BY <1>5 DEF Logs
      <3>2. req[r].token # NoToken => WasSo(req[r].token, past)
          BY DEF LoginsReadPast
      <3> QED BY <3>1, <3>2, <1>0
    <2>2. LoginIsSnapshot' /\ PastHoldsPresent'
        BY <1>5, <1>1, <2>1 DEF Logs, PastHoldsPresent, Snapshots
    <2>3. LoginsReadPast'
        BY <1>5, LoginsGoOn DEF Logs
    <2> QED BY <2>2, <2>3
  <1>8. ASSUME NEW r \in Requests, Stops(r) PROVE Inv'
    <2>1. LoginIsSnapshot' /\ PastHoldsPresent'
        BY <1>8, <1>0, <1>1 DEF Stops, PastHoldsPresent, Snapshots
    <2>2. LoginsReadPast'
        BY <1>8, LoginsGoOn DEF Stops
    <2> QED BY <2>1, <2>2
  <1>6. ASSUME Dies PROVE Inv'
    <2>1. LoginIsSnapshot' /\ PastHoldsPresent'
        BY <1>6, <1>0, <1>1 DEF Dies, PastHoldsPresent, Snapshots
    <2>2. LoginsReadPast'
        BY <1>6, ZenonT(60) DEF Dies, LoginsReadPast, WasSo
    <2> QED BY <2>1, <2>2
  <1>7. ASSUME Rests PROVE Inv'
    <2>1. LoginIsSnapshot' /\ PastHoldsPresent'
        BY <1>7, <1>0, <1>1 DEF Rests, PastHoldsPresent, Snapshots
    <2>2. LoginsReadPast'
        BY <1>7 DEF Rests, LoginsReadPast, WasSo
    <2> QED BY <2>1, <2>2
  <1> QED BY <1>2, <1>3, <1>4, <1>5, <1>6, <1>7, <1>8, StepShape

LEMMA InvNext == IInv /\ [Next]_vars => IInv'
  <1> SUFFICES ASSUME IInv, [Next]_vars PROVE IInv'
      OBVIOUS
  <1>1. Typed'
      BY TypeNext DEF IInv
  <1>2. NamesAreUnique'
      BY NamesStayUnique DEF IInv
  <1>3. (TrailMatchesEffects /\ CommitIsRecorded /\ StartsBlank)'
      BY TrailStaysTrue DEF IInv
  <1>4. (PastHoldsPresent /\ LoginsReadPast /\ LoginIsSnapshot)'
      BY LoginsStayPast DEF IInv
  <1> QED BY <1>1, <1>2, <1>3, <1>4 DEF IInv

\* No behaviour leaves the inductive invariant: whatever the interleaving of the
\* handlers and the crashes, every part of it holds.
THEOREM Invariant == Spec => []IInv
  <1>1. Init => IInv
      BY InvInit
  <1>2. IInv /\ [Next]_vars => IInv'
      BY InvNext
  <1> QED BY <1>1, <1>2, PTL DEF Spec

\* Accounts, sessions, tokens and handlers keep their types for every set of
\* requests and every number of crashes.
THEOREM TypeCorrect == Spec => []TypeOK
  <1>1. IInv => TypeOK
      BY DEF IInv, Typed
  <1> QED BY <1>1, Invariant, PTL

\* Registrations that race for one name create one account (create_user in
\* auth-service/services/user_service.py): the keys of the table decide.
THEOREM NamesStayApart == Spec => []NamesAreUnique
  <1>1. IInv => NamesAreUnique
      BY DEF IInv
  <1> QED BY <1>1, Invariant, PTL

\* What is answered as done is committed and audited, what is turned down is not;
\* an effect without its event is one that nobody was told of (log_audit_event).
THEOREM TrailAndEffectsAgree == Spec => []TrailMatchesEffects
  <1>1. IInv => TrailMatchesEffects
      BY DEF IInv
  <1> QED BY <1>1, Invariant, PTL

\* A token describes a state that the account was in, however many updates ran
\* between the check of the password and the token (login).
THEOREM TokensDescribeOneState == Spec => []LoginIsSnapshot
  <1>1. IInv => LoginIsSnapshot
      BY DEF IInv
  <1> QED BY <1>1, Invariant, PTL

\* An update with a stale row revives no account (update_user): only one that
\* asks for it does.
THEOREM StaleUpdatesReviveNobody == Spec => DeactivationSticks
  <1> DEFINE Sticks == \A id \in DOMAIN users :
                ~users[id].active /\ users'[id].active =>
                    \E r \in Requests :
                        /\ At(r, "checked", "update_user")
                        /\ req[r].id = id
                        /\ req[r].call.active = TRUE
  <1>1. IInv /\ [Next]_vars => [Sticks]_vars
    <2> SUFFICES ASSUME IInv, [Next]_vars, NEW id \in DOMAIN users,
                        ~users[id].active, users'[id].active
                 PROVE  \E r \in Requests :
                            /\ At(r, "checked", "update_user")
                            /\ req[r].id = id
                            /\ req[r].call.active = TRUE
        OBVIOUS
    <2>0. Typed /\ users \in [DOMAIN users -> UserRow]
        BY DEF IInv, Typed, TypeOK
    <2>1. ~ UNCHANGED users
        OBVIOUS
    <2>2. ~ RowAppears
        BY <2>0 DEF RowAppears
    <2>3. PICK r \in Requests : RowChanges(r)
        BY <2>0, <2>1, <2>2, StepShape
           DEF Enters, Effects, Refuses, Logs, Stops, Dies, Rests, TableMoves
    <2>4. PICK i \in DOMAIN users, row \in UserRow :
            /\ users' = Updated(i, row)
            /\ row.active => \/ users[i].active
                             \/ /\ At(r, "checked", "update_user")
                                /\ req[r].id = i
                                /\ req[r].call.active = TRUE
        BY <2>3 DEF RowChanges
    <2>5. i = id /\ row.active
        BY <2>0, <2>4 DEF Updated
    <2> QED BY <2>4, <2>5
  <1> QED BY <1>1, Invariant, PTL DEF Spec, DeactivationSticks

=============================================================================
