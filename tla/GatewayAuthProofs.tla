-------------------------- MODULE GatewayAuthProofs --------------------------
(***************************************************************************)
(* Theorems about GatewayAuth, for every value of its constants.           *)
(*                                                                         *)
(* The inductive invariant adds to the checked invariants what ties the    *)
(* three Maps to the tokens that are out: every record stores the token    *)
(* that was issued under its jti by this process, jtis are never reused,   *)
(* no token is signed with a future secret, and a revoked family had a     *)
(* token.                                                                  *)
(***************************************************************************)
EXTENDS GatewayAuth, AuditLogProofs, TLAPS

\* A JWT second lies between 0 and the tick it is computed from.
LEMMA SecondOfType ==
    ASSUME NEW t \in 0 .. MaxNow
    PROVE  SecondOf(t) \in 0 .. MaxNow
  BY GatewayAuthAssumption DEF SecondOf

LEMMA SecondReached ==
    ASSUME NEW k \in Nat, NEW t \in Nat, k * Second <= t
    PROVE  k <= SecondOf(t) /\ SecondOf(t) \in Nat
  BY GatewayAuthAssumption, SMTT(60) DEF SecondOf

\* A token signed at a clock reading, and the record stored for it, have
\* their types.
LEMMA SignedType ==
    ASSUME TypeOK, NEW user \in Users, NEW f \in Families, NEW j \in Jtis,
           NEW t \in 0 .. MaxNow, NEW at \in 0 .. MaxNow
    PROVE  /\ SignedToken(user, f, j, t) \in RefreshToken
           /\ NewRecord(SignedToken(user, f, j, t), at) \in RefreshTokenRecord
  <1>1. SecondOf(t) \in 0 .. MaxNow
    BY SecondOfType
  <1>2. RefreshTtl \in Nat /\ Second \in Nat /\ MaxNow \in Nat /\ MaxBoots \in Nat
    BY GatewayAuthAssumption
  <1>3. secret \in 0 .. MaxBoots + 1
    BY <1>2 DEF TypeOK
  <1>4. SecondOf(t) + RefreshTtl \in 0 .. MaxNow + RefreshTtl
    BY <1>1, <1>2
  <1>5. SignedToken(user, f, j, t) \in RefreshToken
    BY <1>3, <1>4 DEF SignedToken, RefreshToken
  <1>6. at + RefreshTtl * Second \in Nat
    BY <1>2
  <1> QED
    BY <1>5, <1>6 DEF NewRecord, RefreshTokenRecord, SignedToken

\* Revoking keeps the domain and everything but the flag.
LEMMA RevokeType ==
    ASSUME TypeOK, NEW S
    PROVE  /\ DOMAIN Revoke(refreshTokens, S) = DOMAIN refreshTokens
           /\ \A j \in DOMAIN refreshTokens :
                /\ Revoke(refreshTokens, S)[j] \in RefreshTokenRecord
                /\ Revoke(refreshTokens, S)[j].familyId = refreshTokens[j].familyId
                /\ Revoke(refreshTokens, S)[j].tokenHash = refreshTokens[j].tokenHash
                /\ Revoke(refreshTokens, S)[j].user = refreshTokens[j].user
                /\ Revoke(refreshTokens, S)[j].revoked
                        <=> (j \in S \/ refreshTokens[j].revoked)
  BY DEF TypeOK, RefreshTokenRecord, Revoke

\* Every handler keeps the types of the Maps, the trail and the reply.
LEMMA TypeStep == TypeOK /\ [Next]_vars => TypeOK'
  <1> SUFFICES ASSUME TypeOK, [Next]_vars PROVE TypeOK'
    OBVIOUS
  <1> DEFINE Store == /\ DOMAIN refreshTokens \subseteq Jtis
                      /\ \A j \in DOMAIN refreshTokens :
                            refreshTokens[j] \in RefreshTokenRecord
                      /\ DOMAIN families \subseteq Families
                      /\ \A f \in DOMAIN families : families[f] \subseteq Jtis
                      /\ revokedFamilies \subseteq Families
             Trail == events \in Seq(AuditEvent) /\ Len(events) <= AuditCap
             Rest  == /\ boots \in 0 .. MaxBoots
                      /\ secret \in {0, boots + 1}
                      /\ issued \subseteq RefreshToken
                      /\ now \in 0 .. MaxNow
                      /\ reply \in [status : Status, token : RefreshToken \cup {NoToken}]
  <1>1. TypeOK = (Store /\ Trail /\ Rest)
    BY DEF TypeOK
  <1>2. SUFFICES Store' /\ Trail' /\ Rest'
    BY DEF TypeOK
  <1> USE GatewayAuthAssumption
  <1>3. Store /\ Trail /\ Rest
    BY <1>1
  <1>a. ASSUME NEW user \in Users, NEW f \in Families, NEW j \in Jtis,
               NEW d \in Drift, Login(user, f, j, d)
        PROVE  Store' /\ Trail' /\ Rest'
    <2> DEFINE token == SignedToken(user, f, j, now)
    <2>1. now' \in 0 .. MaxNow
      BY <1>3, <1>a DEF Login, Drift
    <2>2. token \in RefreshToken /\ NewRecord(token, now') \in RefreshTokenRecord
      BY <1>3, <2>1, SignedType
    <2>3. token.jti = j /\ token.familyId = f
      BY DEF SignedToken
    <2>4. Store'
      BY <1>3, <1>a, <2>2, <2>3 DEF Login, WithRecord, WithMember
    <2>5. Event("auth.login_success", user, NoFamily) \in AuditEvent
      BY DEF Event, AuditEvent
    <2>6. Trail'
      BY <1>3, <1>a, <2>5, EmitType DEF Login
    <2>7. Rest'
      BY <1>3, <1>a, <2>1, <2>2 DEF Login, Reply, Status
    <2> QED
      BY <2>4, <2>6, <2>7
  <1>b. ASSUME NEW user \in Users, LoginFailed(user)
        PROVE  Store' /\ Trail' /\ Rest'
    <2>1. Event("auth.login_failed", user, NoFamily) \in AuditEvent
      BY DEF Event, AuditEvent
    <2>2. Trail'
      BY <1>3, <1>b, <2>1, EmitType DEF LoginFailed
    <2> QED
      BY <1>3, <1>b, <2>2 DEF LoginFailed, store, Reply, Status
  <1>c. ASSUME NEW token \in issued, RefreshInvalid(token)
        PROVE  Store' /\ Trail' /\ Rest'
    BY <1>3, <1>c DEF RefreshInvalid, store, Reply, Status
  <1>d. ASSUME NEW token \in issued, NEW d \in Drift, RefreshReuse(token, d)
        PROVE  Store' /\ Trail' /\ Rest'
    <2>1. token \in RefreshToken
      BY <1>3
    <2>2. now' \in 0 .. MaxNow
      BY <1>3, <1>d DEF RefreshReuse, Drift
    <2>3. refreshTokens' = Revoke(refreshTokens, Members(token.familyId))
      BY <1>d DEF RefreshReuse
    <2>4. Store'
      BY <1>3, <1>d, <2>1, <2>3, RevokeType DEF RefreshReuse, RefreshToken
    <2>5. Event("auth.refresh_reuse_detected", token.sub, token.familyId) \in AuditEvent
      BY <2>1 DEF Event, AuditEvent, RefreshToken
    <2>6. Trail'
      BY <1>3, <1>d, <2>5, EmitType DEF RefreshReuse
    <2>7. Rest'
      BY <1>3, <1>d, <2>1, <2>2 DEF RefreshReuse, Reply, Status
    <2> QED
      BY <2>4, <2>6, <2>7
  <1>e. ASSUME NEW token \in issued, NEW j \in Jtis, NEW d \in Drift, NEW e \in Drift,
               RefreshRotate(token, j, d, e)
        PROVE  Store' /\ Trail' /\ Rest'
    <2> DEFINE next == SignedToken(refreshTokens[token.jti].user, token.familyId,
                                   j, now + d)
    <2>1. token \in RefreshToken /\ token.jti \in DOMAIN refreshTokens
      BY <1>3, <1>e DEF RefreshRotate, Accepted, Stored
    <2>2. now + d \in 0 .. MaxNow /\ now' \in 0 .. MaxNow
      BY <1>3, <1>e DEF RefreshRotate, Drift
    <2>3. refreshTokens[token.jti].user \in Users /\ token.familyId \in Families
      BY <1>3, <2>1 DEF RefreshTokenRecord, RefreshToken
    <2>4. next \in RefreshToken /\ NewRecord(next, now') \in RefreshTokenRecord
      BY <2>2, <2>3, SignedType
    <2>5. next.jti = j /\ next.familyId = token.familyId
          /\ next.sub = refreshTokens[token.jti].user
      BY DEF SignedToken
    <2>6. /\ refreshTokens' = WithRecord(Revoke(refreshTokens, {token.jti}), next, now')
          /\ families' = WithMember(families, next)
          /\ revokedFamilies' = revokedFamilies
      BY <1>e DEF RefreshRotate
    <2>7. Store'
      BY <1>3, <2>3, <2>4, <2>5, <2>6, RevokeType DEF WithRecord, WithMember
    <2>8. Event("auth.refresh_rotated", next.sub, token.familyId) \in AuditEvent
      BY <2>3, <2>5 DEF Event, AuditEvent
    <2>9. Trail'
      BY <1>3, <1>e, <2>8, EmitType DEF RefreshRotate
    <2>10. Rest'
      BY <1>3, <1>e, <2>1, <2>2, <2>4 DEF RefreshRotate, Reply, Status
    <2> QED
      BY <2>7, <2>9, <2>10
  <1>f. ASSUME NEW token \in issued, Logout(token)
        PROVE  Store' /\ Trail' /\ Rest'
    <2>1. token \in RefreshToken
      BY <1>3
    <2>2. Store'
      BY <1>3, <1>f, RevokeType DEF Logout
    <2>3. Event("auth.logout", token.sub, NoFamily) \in AuditEvent
      BY <2>1 DEF Event, AuditEvent, RefreshToken
    <2>4. Trail'
      BY <1>3, <1>f, <2>3, EmitType DEF Logout
    <2> QED
      BY <1>3, <1>f, <2>1, <2>2, <2>4 DEF Logout, Reply, Status
  <1>g. ASSUME NEW token \in issued, LogoutInvalid(token)
        PROVE  Store' /\ Trail' /\ Rest'
    <2>1. Event("auth.logout_invalid_token", NoToken, NoFamily) \in AuditEvent
      BY DEF Event, AuditEvent
    <2>2. Trail'
      BY <1>3, <1>g, <2>1, EmitType DEF LogoutInvalid
    <2> QED
      BY <1>3, <1>g, <2>2 DEF LogoutInvalid, store, Reply, Status
  <1>h. CASE Restart
    <2>1. Trail'
      BY <1>h, AuditCapAssumption DEF Restart
    <2>2. Store'
      BY <1>h DEF Restart
    <2>3. Rest'
      BY <1>3, <1>h DEF Restart, Reply, Status
    <2> QED
      BY <2>1, <2>2, <2>3
  <1>i. CASE ClockStep
    BY <1>3, <1>i DEF ClockStep, store
  <1>j. CASE UNCHANGED vars
    BY <1>3, <1>j DEF vars
  <1> QED
    BY <1>a, <1>b, <1>c, <1>d, <1>e, <1>f, <1>g, <1>h, <1>i, <1>j DEF Next

\* Whatever tokens are replayed, whenever the process restarts and however
\* the clock moves, the state of AuthService has its types, and the audit
\* trail stays within its cap.
THEOREM TypeCorrect == Spec => []TypeOK
  <1>1. Init => TypeOK
    BY GatewayAuthAssumption, AuditCapAssumption
       DEF Init, FirstSecret, TypeOK, Reply, Status
  <1> QED
    BY <1>1, TypeStep, PTL DEF Spec

-----------------------------------------------------------------------------
(* The inductive invariant.                                                *)
IInv == /\ TypeOK
        /\ SingleLive
        /\ RevokedFamilyDead
        /\ FamilyIndexComplete
        /\ StoreMatchesIssued

\* Revoking any records disturbs nothing that IInv says of the records.
LEMMA RevokeKeeps ==
    ASSUME IInv, NEW S, refreshTokens' = Revoke(refreshTokens, S),
           UNCHANGED <<families, issued, secret>>
    PROVE  /\ SingleLive'
           /\ FamilyIndexComplete'
           /\ \A j \in DOMAIN refreshTokens' :
                /\ refreshTokens'[j].tokenHash = refreshTokens[j].tokenHash
                /\ refreshTokens'[j].familyId = refreshTokens[j].familyId
                /\ refreshTokens'[j].user = refreshTokens[j].user
                /\ refreshTokens'[j].expiresAt = refreshTokens[j].expiresAt
  <1>1. TypeOK
    BY DEF IInv
  <1>2. /\ DOMAIN refreshTokens' = DOMAIN refreshTokens
        /\ \A j \in DOMAIN refreshTokens :
             /\ refreshTokens'[j].familyId = refreshTokens[j].familyId
             /\ refreshTokens'[j].tokenHash = refreshTokens[j].tokenHash
             /\ refreshTokens'[j].user = refreshTokens[j].user
             /\ refreshTokens'[j].revoked <=> (j \in S \/ refreshTokens[j].revoked)
    BY <1>1, RevokeType
  <1>3. \A j \in DOMAIN refreshTokens :
            refreshTokens'[j].expiresAt = refreshTokens[j].expiresAt
    BY <1>1 DEF TypeOK, RefreshTokenRecord, Revoke
  <1>4. SingleLive'
    BY <1>2 DEF IInv, SingleLive
  <1>5. FamilyIndexComplete'
    BY <1>2 DEF IInv, FamilyIndexComplete
  <1> QED
    BY <1>2, <1>3, <1>4, <1>5

\* A token signed at t does not outlive a record stored at t or later.
LEMMA RecordOutlivesToken ==
    ASSUME NEW user, NEW f, NEW j, NEW t \in 0 .. MaxNow, NEW at \in t .. MaxNow
    PROVE  SignedToken(user, f, j, t).exp * Second
                <= NewRecord(SignedToken(user, f, j, t), at).expiresAt
  <1>1. /\ RefreshTtl \in Nat /\ Second \in Nat \ {0} /\ MaxNow \in Nat
        /\ t \in Nat /\ at \in Nat /\ t <= at
    BY GatewayAuthAssumption
  <1>2. (t \div Second) * Second <= t /\ t \div Second \in Nat
    BY <1>1
  <1>3. (t \div Second + RefreshTtl) * Second
            = (t \div Second) * Second + RefreshTtl * Second
    BY <1>1, <1>2
  <1>4. RefreshTtl * Second \in Nat
    BY <1>1
  <1>5. (t \div Second) * Second \in Nat
    BY <1>1, <1>2
  <1>6. (t \div Second + RefreshTtl) * Second <= at + RefreshTtl * Second
    BY <1>1, <1>2, <1>3, <1>4, <1>5
  <1> QED
    BY <1>6 DEF SignedToken, NewRecord, SecondOf

\* A new token with a fresh jti joins a family that has no other unrevoked
\* record and is not revoked: every clause of IInv about the Maps survives.
\* records is the Map after the presented token, if any, was spent.
LEMMA IssueKeeps ==
    ASSUME IInv, NEW records, NEW token \in RefreshToken, NEW at \in Nat,
           DOMAIN records = DOMAIN refreshTokens,
           \A j \in DOMAIN records :
                /\ records[j].familyId = refreshTokens[j].familyId
                /\ records[j].tokenHash = refreshTokens[j].tokenHash
                /\ records[j].user = refreshTokens[j].user
                /\ records[j].expiresAt = refreshTokens[j].expiresAt
                /\ refreshTokens[j].revoked => records[j].revoked
                /\ records[j].familyId = token.familyId => records[j].revoked
                /\ records[j].revoked \in BOOLEAN,
           token.jti \notin UsedJtis, token.familyId \notin revokedFamilies,
           token.key = secret,
           token.exp * Second <= NewRecord(token, at).expiresAt,
           refreshTokens' = WithRecord(records, token, at),
           families' = WithMember(families, token),
           issued' = issued \cup {token},
           UNCHANGED <<revokedFamilies, secret>>,
           reply'.status # "REFRESH_TOKEN_REUSE_DETECTED"
    PROVE  /\ SingleLive'
           /\ RevokedFamilyDead'
           /\ FamilyIndexComplete'
           /\ StoreMatchesIssued'
  <1> USE DEF IInv
  <1>1. token.jti \notin DOMAIN records
    BY DEF StoreMatchesIssued, UsedJtis
  <1>2. /\ DOMAIN refreshTokens' = DOMAIN refreshTokens \cup {token.jti}
        /\ refreshTokens'[token.jti] = NewRecord(token, at)
        /\ \A j \in DOMAIN refreshTokens : refreshTokens'[j] = records[j]
    BY <1>1 DEF WithRecord
  <1>3. /\ NewRecord(token, at).familyId = token.familyId
        /\ NewRecord(token, at).tokenHash = token
        /\ NewRecord(token, at).user = token.sub
        /\ NewRecord(token, at).revoked = FALSE
    BY DEF NewRecord
  <1>4. SingleLive'
    BY <1>1, <1>2, <1>3 DEF SingleLive, TypeOK
  <1>5. RevokedFamilyDead'
    BY <1>2, <1>3 DEF RevokedFamilyDead
  <1>6. /\ DOMAIN families' = DOMAIN families \cup {token.familyId}
        /\ \A f \in DOMAIN families : f # token.familyId => families'[f] = families[f]
        /\ families'[token.familyId] = Members(token.familyId) \cup {token.jti}
    BY DEF WithMember, Members
  <1>7. token.jti \in Jtis /\ token.familyId \in Families
    BY DEF RefreshToken
  <1>8. FamilyIndexComplete'
    <2> SUFFICES ASSUME NEW j \in Jtis, NEW f \in Families
                 PROVE  (f \in DOMAIN families' /\ j \in families'[f])
                            <=> (j \in DOMAIN refreshTokens'
                                 /\ refreshTokens'[j].familyId = f)
      BY DEF FamilyIndexComplete
    <2>1. (f \in DOMAIN families /\ j \in families[f])
            <=> (j \in DOMAIN refreshTokens /\ refreshTokens[j].familyId = f)
      BY DEF FamilyIndexComplete
    <2>2. CASE f = token.familyId
      <3>1. (f \in DOMAIN families' /\ j \in families'[f])
                <=> (j \in Members(f) \/ j = token.jti)
        BY <1>6, <2>2
      <3>2. j \in Members(f)
                <=> (j \in DOMAIN refreshTokens /\ refreshTokens[j].familyId = f)
        BY <2>1 DEF Members
      <3>3. (j \in DOMAIN refreshTokens' /\ refreshTokens'[j].familyId = f)
                <=> (\/ j = token.jti
                     \/ j \in DOMAIN refreshTokens /\ refreshTokens[j].familyId = f)
        BY <1>1, <1>2, <1>3, <2>2
      <3> QED
        BY <3>1, <3>2, <3>3
    <2>3. CASE f # token.familyId
      <3>1. (f \in DOMAIN families' /\ j \in families'[f])
                <=> (f \in DOMAIN families /\ j \in families[f])
        BY <1>6, <2>3
      <3>2. (j \in DOMAIN refreshTokens' /\ refreshTokens'[j].familyId = f)
                <=> (j \in DOMAIN refreshTokens /\ refreshTokens[j].familyId = f)
        BY <1>1, <1>2, <1>3, <2>3
      <3> QED
        BY <2>1, <3>1, <3>2
    <2> QED
      BY <2>2, <2>3
  <1>9. StoreMatchesIssued'
    <2>1. \A j \in DOMAIN refreshTokens' :
            /\ refreshTokens'[j].tokenHash \in issued'
            /\ refreshTokens'[j].tokenHash.jti = j
            /\ refreshTokens'[j].tokenHash.familyId = refreshTokens'[j].familyId
            /\ refreshTokens'[j].tokenHash.sub = refreshTokens'[j].user
            /\ refreshTokens'[j].tokenHash.key = secret'
            /\ refreshTokens'[j].tokenHash.exp * Second <= refreshTokens'[j].expiresAt
      BY <1>2, <1>3 DEF StoreMatchesIssued
    <2>2. \A s, t \in issued' : s.jti = t.jti => s = t
      BY DEF StoreMatchesIssued, UsedJtis
    <2>3. secret \in Nat
      BY GatewayAuthAssumption DEF TypeOK
    <2>4. \A t \in issued' : t.key <= secret'
      BY <2>3 DEF StoreMatchesIssued
    <2>5. revokedFamilies' \subseteq UsedFamilies'
      BY DEF StoreMatchesIssued, UsedFamilies
    <2> QED
      BY <2>1, <2>2, <2>4, <2>5 DEF StoreMatchesIssued
  <1> QED
    BY <1>4, <1>5, <1>8, <1>9

\* Before a rotation the presented record is the only unrevoked one of its
\* family; after it is spent, the family has none.
LEMMA SpentFamily ==
    ASSUME IInv, NEW token \in issued, Stored(token)
    PROVE  /\ token.jti \in DOMAIN refreshTokens
           /\ refreshTokens[token.jti].familyId = token.familyId
           /\ refreshTokens[token.jti].user = token.sub
           /\ \A j \in DOMAIN refreshTokens :
                refreshTokens[j].familyId = token.familyId
                    => Revoke(refreshTokens, {token.jti})[j].revoked
  <1>1. /\ token.jti \in DOMAIN refreshTokens
        /\ ~refreshTokens[token.jti].revoked
        /\ refreshTokens[token.jti].tokenHash = token
    BY DEF Stored
  <1>2. /\ refreshTokens[token.jti].familyId = token.familyId
        /\ refreshTokens[token.jti].user = token.sub
    BY <1>1 DEF IInv, StoreMatchesIssued
  <1>3. ASSUME NEW j \in DOMAIN refreshTokens,
               refreshTokens[j].familyId = token.familyId
        PROVE  Revoke(refreshTokens, {token.jti})[j].revoked
    <2>1. j = token.jti \/ refreshTokens[j].revoked
      BY <1>1, <1>2, <1>3 DEF IInv, SingleLive
    <2> QED
      BY <2>1, RevokeType DEF IInv
  <1> QED
    BY <1>1, <1>2, <1>3

\* Every handler, the clock and a restart preserve the inductive invariant.
LEMMA InvStep == IInv /\ [Next]_vars => IInv'
  <1> SUFFICES ASSUME IInv, [Next]_vars PROVE IInv'
    OBVIOUS
  <1>1. TypeOK /\ TypeOK'
    BY TypeStep DEF IInv
  <1> DEFINE Rest == /\ SingleLive
                     /\ RevokedFamilyDead
                     /\ FamilyIndexComplete
                     /\ StoreMatchesIssued
  <1>2. SUFFICES Rest'
    BY <1>1 DEF IInv
  <1>3. Rest
    BY DEF IInv
  <1>a. ASSUME NEW user \in Users, NEW f \in Families, NEW j \in Jtis,
               NEW d \in Drift, Login(user, f, j, d)
        PROVE  Rest'
    <2> DEFINE token == SignedToken(user, f, j, now)
    <2>1. token.jti = j /\ token.familyId = f /\ token.key = secret /\ token.sub = user
      BY DEF SignedToken
    <2>2. now \in 0 .. MaxNow /\ now' \in now .. MaxNow
      BY <1>1, <1>a, GatewayAuthAssumption DEF Login, Drift, TypeOK
    <2>3. token \in RefreshToken
      BY <1>1, <2>2, SignedType DEF TypeOK
    <2>4. token.exp * Second <= NewRecord(token, now').expiresAt
      BY <2>2, RecordOutlivesToken
    <2>5. token.jti \notin UsedJtis /\ token.familyId \notin UsedFamilies
      BY <1>a, <2>1 DEF Login
    <2>6. /\ token.familyId \notin revokedFamilies
          /\ \A i \in DOMAIN refreshTokens : refreshTokens[i].familyId # token.familyId
      BY <1>3, <2>5 DEF StoreMatchesIssued, UsedFamilies
    <2>7. \A i \in DOMAIN refreshTokens : refreshTokens[i].revoked \in BOOLEAN
      BY <1>1 DEF TypeOK, RefreshTokenRecord
    <2>8. /\ refreshTokens' = WithRecord(refreshTokens, token, now')
          /\ families' = WithMember(families, token)
          /\ issued' = issued \cup {token}
          /\ UNCHANGED <<revokedFamilies, secret>>
          /\ reply'.status # "REFRESH_TOKEN_REUSE_DETECTED"
      BY <1>a DEF Login, Reply
    <2>9. now' \in Nat
      BY <2>2, GatewayAuthAssumption
    <2> HIDE DEF token
    <2> QED
      BY <2>1, <2>3, <2>4, <2>5, <2>6, <2>7, <2>8, <2>9, IssueKeeps
  <1>b. ASSUME NEW user \in Users, LoginFailed(user)
        PROVE  Rest'
    BY <1>3, <1>b DEF LoginFailed, store, Reply, SingleLive, RevokedFamilyDead,
                      FamilyIndexComplete, StoreMatchesIssued, UsedFamilies
  <1>c. ASSUME NEW token \in issued, RefreshInvalid(token)
        PROVE  Rest'
    BY <1>3, <1>c DEF RefreshInvalid, store, Reply, SingleLive, RevokedFamilyDead,
                      FamilyIndexComplete, StoreMatchesIssued, UsedFamilies
  <1>d. ASSUME NEW token \in issued, NEW d \in Drift, RefreshReuse(token, d)
        PROVE  Rest'
    <2> DEFINE S == Members(token.familyId)
    <2>1. /\ refreshTokens' = Revoke(refreshTokens, S)
          /\ revokedFamilies' = revokedFamilies \cup {token.familyId}
          /\ UNCHANGED <<families, issued, secret>>
          /\ reply' = Reply("REFRESH_TOKEN_REUSE_DETECTED", token)
      BY <1>d DEF RefreshReuse
    <2>2. /\ DOMAIN refreshTokens' = DOMAIN refreshTokens
          /\ \A j \in DOMAIN refreshTokens :
               /\ refreshTokens'[j].familyId = refreshTokens[j].familyId
               /\ refreshTokens'[j].revoked <=> (j \in S \/ refreshTokens[j].revoked)
      BY <1>1, <2>1, RevokeType
    <2>3. \A j \in DOMAIN refreshTokens :
            refreshTokens[j].familyId = token.familyId => j \in S
      BY <1>1, <1>3 DEF FamilyIndexComplete, Members, TypeOK, RefreshTokenRecord
    <2>4. RevokedFamilyDead'
      BY <1>3, <2>1, <2>2, <2>3 DEF RevokedFamilyDead
    <2>5. /\ SingleLive' /\ FamilyIndexComplete'
          /\ \A j \in DOMAIN refreshTokens' :
                /\ refreshTokens'[j].tokenHash = refreshTokens[j].tokenHash
                /\ refreshTokens'[j].familyId = refreshTokens[j].familyId
                /\ refreshTokens'[j].user = refreshTokens[j].user
                /\ refreshTokens'[j].expiresAt = refreshTokens[j].expiresAt
      BY <2>1, RevokeKeeps
    <2>6. StoreMatchesIssued'
      BY <1>3, <2>1, <2>2, <2>5 DEF StoreMatchesIssued, UsedFamilies, Reply
    <2> QED
      BY <2>4, <2>5, <2>6
  <1>e. ASSUME NEW token \in issued, NEW j \in Jtis, NEW d \in Drift, NEW e \in Drift,
               RefreshRotate(token, j, d, e)
        PROVE  Rest'
    <2> DEFINE user == refreshTokens[token.jti].user
               next == SignedToken(user, token.familyId, j, now + d)
               records == Revoke(refreshTokens, {token.jti})
    <2>1. Stored(token)
      BY <1>e DEF RefreshRotate, Accepted
    <2>2. /\ next.jti = j /\ next.familyId = token.familyId /\ next.key = secret
      BY DEF SignedToken
    <2>3. now + d \in 0 .. MaxNow /\ now' \in (now + d) .. MaxNow
      BY <1>1, <1>e, GatewayAuthAssumption DEF RefreshRotate, Drift, TypeOK
    <2>4. user \in Users /\ token.familyId \in Families
      BY <1>1, <2>1 DEF Stored, TypeOK, RefreshTokenRecord, RefreshToken
    <2>5. next \in RefreshToken
      BY <1>1, <2>3, <2>4, SignedType DEF TypeOK
    <2>6. next.exp * Second <= NewRecord(next, now').expiresAt
      BY <2>3, RecordOutlivesToken
    <2>7. /\ DOMAIN records = DOMAIN refreshTokens
          /\ \A i \in DOMAIN records :
                /\ records[i].familyId = refreshTokens[i].familyId
                /\ records[i].tokenHash = refreshTokens[i].tokenHash
                /\ records[i].user = refreshTokens[i].user
                /\ refreshTokens[i].revoked => records[i].revoked
                /\ records[i].revoked \in BOOLEAN
      BY <1>1, RevokeType DEF RefreshTokenRecord
    <2>8. \A i \in DOMAIN records : records[i].expiresAt = refreshTokens[i].expiresAt
      BY <1>1, <2>7 DEF TypeOK, RefreshTokenRecord, Revoke
    <2>9. \A i \in DOMAIN records :
            records[i].familyId = next.familyId => records[i].revoked
      <3>1. \A i \in DOMAIN refreshTokens :
                refreshTokens[i].familyId = token.familyId => records[i].revoked
        BY <2>1, SpentFamily
      <3> HIDE DEF next, records
      <3> QED
        BY <2>2, <2>7, <3>1
    <2>10. next.familyId \notin revokedFamilies
      BY <2>1, <2>2 DEF Stored
    <2>11. /\ next.jti \notin UsedJtis
           /\ refreshTokens' = WithRecord(records, next, now')
           /\ families' = WithMember(families, next)
           /\ issued' = issued \cup {next}
           /\ UNCHANGED <<revokedFamilies, secret>>
           /\ reply'.status # "REFRESH_TOKEN_REUSE_DETECTED"
      BY <1>e, <2>2 DEF RefreshRotate, Reply
    <2>12. now' \in Nat
      BY <2>3, GatewayAuthAssumption
    <2> HIDE DEF next, records
    <2> QED
      BY <2>2, <2>5, <2>6, <2>7, <2>8, <2>9, <2>10, <2>11, <2>12, IssueKeeps
  <1>f. ASSUME NEW token \in issued, Logout(token)
        PROVE  Rest'
    <2>1. /\ refreshTokens' = Revoke(refreshTokens, {token.jti})
          /\ UNCHANGED <<families, revokedFamilies, issued, secret>>
          /\ reply'.status # "REFRESH_TOKEN_REUSE_DETECTED"
      BY <1>f DEF Logout, Reply
    <2>2. /\ SingleLive' /\ FamilyIndexComplete'
          /\ \A j \in DOMAIN refreshTokens' :
                /\ refreshTokens'[j].tokenHash = refreshTokens[j].tokenHash
                /\ refreshTokens'[j].familyId = refreshTokens[j].familyId
                /\ refreshTokens'[j].user = refreshTokens[j].user
                /\ refreshTokens'[j].expiresAt = refreshTokens[j].expiresAt
      BY <2>1, RevokeKeeps
    <2>3. DOMAIN refreshTokens' = DOMAIN refreshTokens
      BY <1>1, <2>1, RevokeType
    <2>4. RevokedFamilyDead'
      BY <1>1, <1>3, <2>1, <2>3, RevokeType DEF RevokedFamilyDead
    <2>5. StoreMatchesIssued'
      BY <1>3, <2>1, <2>2, <2>3, ZenonT(60) DEF StoreMatchesIssued, UsedFamilies
    <2> QED
      BY <2>2, <2>4, <2>5
  <1>g. ASSUME NEW token \in issued, LogoutInvalid(token)
        PROVE  Rest'
    BY <1>3, <1>g DEF LogoutInvalid, store, Reply, SingleLive, RevokedFamilyDead,
                      FamilyIndexComplete, StoreMatchesIssued, UsedFamilies
  <1>h. CASE Restart
    <2>1. secret \in Nat /\ secret' \in Nat /\ secret <= secret'
      BY <1>1, <1>h, GatewayAuthAssumption DEF Restart, TypeOK
    <2>2. \A t \in issued : t.key \in Nat
      BY <1>1, GatewayAuthAssumption DEF TypeOK, RefreshToken
    <2>3. \A t \in issued' : t.key <= secret'
      BY <1>3, <1>h, <2>1, <2>2 DEF Restart, StoreMatchesIssued
    <2>4. StoreMatchesIssued'
      BY <1>3, <1>h, <2>3 DEF Restart, StoreMatchesIssued, UsedFamilies, Reply
    <2> QED
      BY <1>h, <2>4 DEF Restart, SingleLive, RevokedFamilyDead, FamilyIndexComplete
  <1>i. CASE ClockStep
    BY <1>3, <1>i DEF ClockStep, store, SingleLive, RevokedFamilyDead,
                      FamilyIndexComplete, StoreMatchesIssued, UsedFamilies
  <1>j. CASE UNCHANGED vars
    BY <1>3, <1>j DEF vars, SingleLive, RevokedFamilyDead,
                      FamilyIndexComplete, StoreMatchesIssued, UsedFamilies
  <1> QED
    BY <1>a, <1>b, <1>c, <1>d, <1>e, <1>f, <1>g, <1>h, <1>i, <1>j DEF Next

LEMMA InvInit == Init => IInv
  <1> SUFFICES ASSUME Init PROVE IInv
    OBVIOUS
  <1>1. TypeOK
    BY GatewayAuthAssumption, AuditCapAssumption DEF Init, FirstSecret, TypeOK, Reply, Status
  <1> QED
    BY <1>1 DEF Init, IInv, SingleLive, RevokedFamilyDead, FamilyIndexComplete,
                StoreMatchesIssued, Reply

LEMMA Inductive == Spec => []IInv
  BY InvInit, InvStep, PTL DEF Spec

\* Refresh tokens are single-use: no family ever has two usable records.
THEOREM RefreshIsExclusive == Spec => []SingleLive
  <1>1. IInv => SingleLive
    BY DEF IInv
  <1> QED
    BY <1>1, Inductive, PTL

\* A revoked family has no usable record, and the index that revokeFamily
\* walks is complete.
THEOREM RevocationIsComplete == Spec => [](RevokedFamilyDead /\ FamilyIndexComplete)
  <1>1. IInv => RevokedFamilyDead /\ FamilyIndexComplete
    BY DEF IInv
  <1> QED
    BY <1>1, Inductive, PTL

\* The index that revokeFamily walks, the records and the tokens that were signed
\* agree, whatever clients replay and however often the process restarts.
THEOREM StoreIsSound == Spec => []StoreIsConsistent
  <1>1. IInv => StoreIsConsistent
    BY DEF IInv, StoreIsConsistent
  <1> QED
    BY <1>1, Inductive, PTL

\* From the detection of a reuse on, the family it concerns has no usable token.
THEOREM ReuseEndsSession == Spec => []ReuseKillsFamily
  <1>1. IInv => ReuseKillsFamily
    BY DEF IInv, StoreMatchesIssued, ReuseKillsFamily, Live, Stored
  <1> QED
    BY <1>1, Inductive, PTL

-----------------------------------------------------------------------------
(* Refinement and action properties.                                       *)

\* When records only lose their validity, no token starts to live.
LEMMA LiveShrinks ==
    ASSUME IInv, NEW S, refreshTokens' = Revoke(refreshTokens, S),
           revokedFamilies \subseteq revokedFamilies',
           UNCHANGED <<issued, secret>>
    PROVE  /\ Live' \subseteq Live
           /\ \A t \in Live' : t.jti \notin S
  BY RevokeType DEF Live, Stored, IInv

\* A handler that leaves the store alone leaves the live tokens alone.
LEMMA LiveSame ==
    ASSUME UNCHANGED <<store, issued, secret>>
    PROVE  Live' = Live
  BY DEF Live, Stored, store

\* The live tokens after a token joined the records: those that lived and are
\* still unrevoked in records, and the new one.
LEMMA LiveGrows ==
    ASSUME IInv, NEW S, NEW records, NEW token, NEW at,
           DOMAIN records = DOMAIN refreshTokens,
           \A j \in DOMAIN refreshTokens :
                /\ records[j].tokenHash = refreshTokens[j].tokenHash
                /\ records[j].revoked <=> (j \in S \/ refreshTokens[j].revoked),
           token.jti \notin UsedJtis, token.familyId \notin revokedFamilies,
           token.key = secret,
           refreshTokens' = WithRecord(records, token, at),
           issued' = issued \cup {token},
           UNCHANGED <<revokedFamilies, secret>>
    PROVE  Live' = {t \in Live : t.jti \notin S} \cup {token}
  <1>2. token.jti \notin DOMAIN refreshTokens
    BY DEF IInv, StoreMatchesIssued, UsedJtis
  <1>3. /\ DOMAIN refreshTokens' = DOMAIN refreshTokens \cup {token.jti}
        /\ refreshTokens'[token.jti] = NewRecord(token, at)
        /\ \A j \in DOMAIN refreshTokens :
             /\ refreshTokens'[j].tokenHash = refreshTokens[j].tokenHash
             /\ refreshTokens'[j].revoked <=> (j \in S \/ refreshTokens[j].revoked)
    BY <1>2 DEF WithRecord
  <1>4. token \in Live'
    BY <1>3 DEF Live, Stored, NewRecord
  <1>5. ASSUME NEW t \in issued
        PROVE  t \in Live' <=> (t \in Live /\ t.jti \notin S)
    <2>1. t.jti # token.jti
      BY DEF UsedJtis
    <2> QED
      BY <1>3, <2>1 DEF Live, Stored
  <1> QED
    BY <1>4, <1>5 DEF Live

\* Every step of AuthService is a step of the contract, or changes nothing the
\* contract sees.
LEMMA ContractStep == IInv /\ [Next]_vars => [Contract!Next]_<<issued, Live>>
  <1> SUFFICES ASSUME IInv, [Next]_vars
               PROVE  Contract!Next \/ (issued' = issued /\ Live' = Live)
    OBVIOUS
  <1>1. TypeOK
    BY DEF IInv
  <1>2. ASSUME issued' = issued, Live' \subseteq Live
        PROVE  Contract!Next
    <2>1. Contract!Kill(Live \ Live')
      BY <1>2 DEF Contract!Kill
    <2> QED
      BY <2>1 DEF Contract!Next
  <1>a. ASSUME NEW user \in Users, NEW f \in Families, NEW j \in Jtis,
               NEW d \in Drift, Login(user, f, j, d)
        PROVE  Contract!Next
    <2> DEFINE token == SignedToken(user, f, j, now)
    <2>1. token.jti = j /\ token.familyId = f /\ token.key = secret
      BY DEF SignedToken
    <2>2. token \in RefreshToken
      <3>1. now \in 0 .. MaxNow
        BY <1>1 DEF TypeOK
      <3> QED
        BY <1>1, <3>1, SignedType DEF TypeOK
    <2>3. /\ token.jti \notin UsedJtis /\ token.familyId \notin UsedFamilies
          /\ refreshTokens' = WithRecord(refreshTokens, token, now')
          /\ issued' = issued \cup {token}
          /\ UNCHANGED <<revokedFamilies, secret>>
      BY <1>a, <2>1 DEF Login
    <2>4. token.familyId \notin revokedFamilies
      BY <2>3 DEF IInv, StoreMatchesIssued
    <2> DEFINE none == {}
               records == refreshTokens
    <2>5. /\ DOMAIN records = DOMAIN refreshTokens
          /\ \A i \in DOMAIN refreshTokens :
                /\ records[i].tokenHash = refreshTokens[i].tokenHash
                /\ records[i].revoked <=> (i \in none \/ refreshTokens[i].revoked)
      BY <1>1 DEF TypeOK, RefreshTokenRecord
    <2>6. refreshTokens' = WithRecord(records, token, now')
      BY <2>3
    <2> HIDE DEF token, none, records
    <2>7. Live' = {t \in Live : t.jti \notin none} \cup {token}
      BY <2>1, <2>3, <2>4, <2>5, <2>6, LiveGrows
    <2>n. none = {}
      BY DEF none
    <2>8. Contract!Issue(token)
      BY <2>3, <2>7, <2>n DEF Contract!Issue, Contract!FamilyOf, UsedFamilies
    <2> QED
      BY <2>2, <2>8 DEF Contract!Next
  <1>b. ASSUME NEW user \in Users, LoginFailed(user)
        PROVE  issued' = issued /\ Live' = Live
    BY <1>b, LiveSame DEF LoginFailed
  <1>c. ASSUME NEW token \in issued, RefreshInvalid(token)
        PROVE  issued' = issued /\ Live' = Live
    BY <1>c, LiveSame DEF RefreshInvalid
  <1>d. ASSUME NEW token \in issued, NEW d \in Drift, RefreshReuse(token, d)
        PROVE  Contract!Next
    BY <1>2, <1>d, LiveShrinks DEF RefreshReuse
  <1>e. ASSUME NEW token \in issued, NEW j \in Jtis, NEW d \in Drift, NEW e \in Drift,
               RefreshRotate(token, j, d, e)
        PROVE  Contract!Next
    <2> DEFINE user == refreshTokens[token.jti].user
               next == SignedToken(user, token.familyId, j, now + d)
               records == Revoke(refreshTokens, {token.jti})
    <2>1. Stored(token) /\ token.key = secret
      BY <1>e DEF RefreshRotate, Accepted, VerifyRefreshToken
    <2>2. /\ next.jti = j /\ next.familyId = token.familyId /\ next.key = secret
      BY DEF SignedToken
    <2>3. now + d \in 0 .. MaxNow
      BY <1>1, <1>e, GatewayAuthAssumption DEF RefreshRotate, Drift, TypeOK
    <2>4. user \in Users /\ token.familyId \in Families
      BY <1>1, <2>1 DEF Stored, TypeOK, RefreshTokenRecord, RefreshToken
    <2>5. next \in RefreshToken
      BY <1>1, <2>3, <2>4, SignedType DEF TypeOK
    <2>6. /\ next.jti \notin UsedJtis
          /\ refreshTokens' = WithRecord(records, next, now')
          /\ issued' = issued \cup {next}
          /\ UNCHANGED <<revokedFamilies, secret>>
      BY <1>e, <2>2 DEF RefreshRotate
    <2>7. next.familyId \notin revokedFamilies
      BY <2>1, <2>2 DEF Stored
    <2>r. /\ DOMAIN records = DOMAIN refreshTokens
          /\ \A i \in DOMAIN refreshTokens :
               /\ records[i].tokenHash = refreshTokens[i].tokenHash
               /\ records[i].revoked <=> (i \in {token.jti} \/ refreshTokens[i].revoked)
      BY <1>1, RevokeType
    <2> HIDE DEF next, records
    <2>8. Live' = {t \in Live : t.jti \notin {token.jti}} \cup {next}
      BY <2>2, <2>6, <2>7, <2>r, LiveGrows
    <2>9. token \in Live
      BY <2>1 DEF Live
    <2>10. \A t \in Live : t.jti = token.jti => t = token
      BY DEF Live, IInv, StoreMatchesIssued
    <2>11. Live' = (Live \ {token}) \cup {next}
      BY <2>8, <2>9, <2>10
    <2>12. next \notin issued
      BY <2>6 DEF UsedJtis
    <2>13. Contract!Rotate(token, next)
      BY <2>2, <2>6, <2>9, <2>11, <2>12 DEF Contract!Rotate
    <2> QED
      BY <2>5, <2>9, <2>13 DEF Contract!Next
  <1>f. ASSUME NEW token \in issued, Logout(token)
        PROVE  Contract!Next
    BY <1>2, <1>f, LiveShrinks DEF Logout
  <1>g. ASSUME NEW token \in issued, LogoutInvalid(token)
        PROVE  issued' = issued /\ Live' = Live
    BY <1>g, LiveSame DEF LogoutInvalid
  <1>h. CASE Restart
    <2>1. Live' = {} /\ issued' = issued
      BY <1>h DEF Restart, Live, Stored
    <2> QED
      BY <1>2, <2>1
  <1>i. CASE ClockStep
    BY <1>i, LiveSame DEF ClockStep
  <1>j. CASE UNCHANGED vars
    BY <1>j, LiveSame DEF vars, store
  <1> QED
    BY <1>a, <1>b, <1>c, <1>d, <1>e, <1>f, <1>g, <1>h, <1>i, <1>j DEF Next

\* AuthService implements the contract of rotating token families: through
\* replays, clock changes and restarts no session is ever revived.
THEOREM ImplementsContract == Spec => ContractSpec
  <1>1. Init => Contract!Init
    BY DEF Init, Contract!Init, Live
  <1> QED
    BY <1>1, Inductive, ContractStep, PTL DEF Spec, ContractSpec, Contract!Spec

-----------------------------------------------------------------------------
(* What the service inherits from the contract.                            *)

ContractInv == Contract!TypeOK /\ Contract!OneLivePerFamily

\* One step of the contract keeps its type and one live token per family.
LEMMA ContractInvStep ==
    ContractInv /\ [Contract!Next]_<<issued, Live>> => ContractInv'
  <1> SUFFICES ASSUME ContractInv, [Contract!Next]_<<issued, Live>>
               PROVE  ContractInv'
    OBVIOUS
  <1> USE DEF ContractInv, Contract!TypeOK, Contract!OneLivePerFamily,
              Contract!FamilyOf
  <1>1. CASE \E t \in RefreshToken : Contract!Issue(t)
    BY <1>1 DEF Contract!Issue
  <1>2. CASE \E t \in Live, next \in RefreshToken : Contract!Rotate(t, next)
    BY <1>2 DEF Contract!Rotate
  <1>3. CASE \E S \in SUBSET Live : Contract!Kill(S)
    BY <1>3 DEF Contract!Kill
  <1>4. CASE UNCHANGED <<issued, Live>>
    BY <1>4
  <1> QED
    BY <1>1, <1>2, <1>3, <1>4 DEF Contract!Next

LEMMA ContractInvInit == Contract!Init => ContractInv
  BY DEF Contract!Init, ContractInv, Contract!TypeOK, Contract!OneLivePerFamily

\* A family never has two usable tokens: refreshing is exclusive, through
\* every replay, restart and change of the clock.
THEOREM OneUsableTokenPerFamily == Spec => []Contract!OneLivePerFamily
  <1>1. ContractInv => Contract!OneLivePerFamily
    BY DEF ContractInv
  <1> QED
    BY <1>1, ImplementsContract, ContractInvInit, ContractInvStep, PTL
       DEF ContractSpec, Contract!Spec

\* A token that is no longer usable never is again, and a family without a
\* usable token is over: no replay revives a session.
THEOREM NothingRevives == Spec => Contract!DeadStaysDead
  <1> DEFINE Stays == /\ \A t \in issued : t \notin Live => t \notin Live'
                      /\ \A t \in issued :
                            t.familyId \notin Contract!FamilyOf(Live)
                                => t.familyId \notin Contract!FamilyOf(Live')
  <1>1. ContractInv /\ [Contract!Next]_<<issued, Live>>
            => [Stays]_<<issued, Live>>
    <2> SUFFICES ASSUME ContractInv, Contract!Next PROVE Stays
      OBVIOUS
    <2> USE DEF ContractInv, Contract!TypeOK, Contract!FamilyOf
    <2>1. CASE \E t \in RefreshToken : Contract!Issue(t)
      BY <2>1 DEF Contract!Issue
    <2>2. CASE \E t \in Live, next \in RefreshToken : Contract!Rotate(t, next)
      BY <2>2 DEF Contract!Rotate
    <2>3. CASE \E S \in SUBSET Live : Contract!Kill(S)
      BY <2>3 DEF Contract!Kill
    <2> QED
      BY <2>1, <2>2, <2>3 DEF Contract!Next
  <1> QED
    BY <1>1, ImplementsContract, ContractInvInit, ContractInvStep, PTL
       DEF ContractSpec, Contract!Spec, Contract!DeadStaysDead

-----------------------------------------------------------------------------
(* The alarm and logging out.                                              *)

\* The reuse alarm rings on a usable token only once its last second is over.
THEOREM AlarmIsHonest == Spec => FalseReuseOnlyAtExpiry
  <1> DEFINE A == \A token \in Live :
                    reply' = Reply("REFRESH_TOKEN_REUSE_DETECTED", token)
                        => SecondOf(now') >= token.exp
  <1>1. IInv /\ [Next]_vars => [A]_vars
    <2> SUFFICES ASSUME IInv, Next, NEW token \in Live,
                        reply' = Reply("REFRESH_TOKEN_REUSE_DETECTED", token)
                 PROVE  SecondOf(now') >= token.exp
      OBVIOUS
    <2>1. TypeOK /\ token \in issued /\ Stored(token)
      BY DEF IInv, Live
    <2>2. reply # Reply("REFRESH_TOKEN_REUSE_DETECTED", token)
      BY <2>1 DEF IInv, StoreMatchesIssued, Stored, Reply
    <2>3. PICK t \in issued, d \in Drift : RefreshReuse(t, d)
      BY <2>2, ZenonT(60) DEF Next, Login, LoginFailed, RefreshInvalid, RefreshRotate, Logout,
                  LogoutInvalid, Restart, ClockStep, Reply
    <2>4. t = token /\ ~(now' <= refreshTokens[token.jti].expiresAt)
      BY <2>1, <2>3 DEF RefreshReuse, Reply, Accepted
    <2>5. token.exp * Second <= refreshTokens[token.jti].expiresAt
      BY <2>1 DEF IInv, StoreMatchesIssued, Stored
    <2>6. /\ now' \in Nat /\ token.exp \in Nat /\ Second \in Nat
          /\ refreshTokens[token.jti].expiresAt \in Nat
      BY <2>1, <2>3, GatewayAuthAssumption
         DEF TypeOK, RefreshReuse, Drift, RefreshToken, Stored, RefreshTokenRecord
    <2>7. token.exp * Second \in Nat
      BY <2>6
    <2>8. token.exp * Second <= now'
      BY <2>4, <2>5, <2>6, <2>7
    <2> QED
      BY <2>6, <2>8, SecondReached
  <1> QED
    BY <1>1, Inductive, PTL DEF Spec, FalseReuseOnlyAtExpiry

\* With a random secret per boot, a token that verifies has its record: it was
\* signed by this process, whose Map drops nothing.
OwnTokensStored ==
    secret # 0 => \A t \in issued : t.key = secret => t.jti \in DOMAIN refreshTokens

\* The reuse alarm is about a token of this process: a cookie that survives a
\* restart is refused without one.
THEOREM AlarmIsAboutOwnTokens == Spec => []AlarmOnlyOnOwnTokens
  <1> DEFINE Own == OwnTokensStored /\ AlarmOnlyOnOwnTokens
  <1>1. Init => Own
    BY DEF Init, OwnTokensStored, AlarmOnlyOnOwnTokens, Reply
  <1>2. ASSUME IInv, Own, [Next]_vars
        PROVE  Own'
    <2>1. TypeOK /\ \A t \in issued : t.key <= secret
      BY <1>2 DEF IInv, StoreMatchesIssued
    \* While the process lives the Map only grows, and it holds what is signed.
    <2>2. ASSUME secret' = secret,
                 DOMAIN refreshTokens \subseteq DOMAIN refreshTokens',
                 \A t \in issued' \ issued : t.jti \in DOMAIN refreshTokens'
          PROVE  OwnTokensStored'
      BY <1>2, <2>2 DEF OwnTokensStored
    <2>3. ASSUME NEW user, NEW f, NEW j, NEW t, NEW at, NEW records,
                 refreshTokens' = WithRecord(records, SignedToken(user, f, j, t), at),
                 DOMAIN records = DOMAIN refreshTokens,
                 issued' = issued \cup {SignedToken(user, f, j, t)},
                 secret' = secret
          PROVE  OwnTokensStored'
      BY <2>2, <2>3 DEF WithRecord
    <2>a. ASSUME NEW user \in Users, NEW f \in Families, NEW j \in Jtis,
                 NEW d \in Drift, Login(user, f, j, d)
          PROVE  Own'
      BY <2>a, <2>3 DEF Login, AlarmOnlyOnOwnTokens, Reply
    <2>b. ASSUME NEW user \in Users, LoginFailed(user)
          PROVE  Own'
      BY <2>b, <2>2 DEF LoginFailed, store, AlarmOnlyOnOwnTokens, Reply
    <2>c. ASSUME NEW token \in issued, RefreshInvalid(token)
          PROVE  Own'
      BY <2>c, <2>2 DEF RefreshInvalid, store, AlarmOnlyOnOwnTokens, Reply
    <2>d. ASSUME NEW token \in issued, NEW d \in Drift, RefreshReuse(token, d)
          PROVE  Own'
      <3>1. DOMAIN refreshTokens' = DOMAIN refreshTokens
        BY <2>d, <2>1, RevokeType DEF RefreshReuse
      <3>2. secret # 0 => token.jti \in DOMAIN refreshTokens
        BY <1>2, <2>d DEF RefreshReuse, VerifyRefreshToken, OwnTokensStored
      <3> QED
        BY <2>d, <2>2, <3>1, <3>2 DEF RefreshReuse, AlarmOnlyOnOwnTokens, Reply
    <2>e. ASSUME NEW token \in issued, NEW j \in Jtis, NEW d \in Drift, NEW e \in Drift,
                 RefreshRotate(token, j, d, e)
          PROVE  Own'
      <3> DEFINE records == Revoke(refreshTokens, {token.jti})
      <3>1. DOMAIN records = DOMAIN refreshTokens
        BY <2>1, RevokeType
      <3>2. OwnTokensStored'
        BY <2>e, <2>3, <3>1 DEF RefreshRotate
      <3> QED
        BY <2>e, <3>2 DEF RefreshRotate, AlarmOnlyOnOwnTokens, Reply
    <2>f. ASSUME NEW token \in issued, Logout(token)
          PROVE  Own'
      <3>1. DOMAIN refreshTokens' = DOMAIN refreshTokens
        BY <2>f, <2>1, RevokeType DEF Logout
      <3> QED
        BY <2>f, <2>2, <3>1 DEF Logout, AlarmOnlyOnOwnTokens, Reply
    <2>g. ASSUME NEW token \in issued, LogoutInvalid(token)
          PROVE  Own'
      BY <2>g, <2>2 DEF LogoutInvalid, store, AlarmOnlyOnOwnTokens, Reply
    \* A new process has a secret that no token was signed with.
    <2>h. CASE Restart
      <3>1. secret' # 0 => \A t \in issued' : t.key # secret'
        <4>1. secret \in Nat /\ \A t \in issued : t.key \in Nat
          BY <2>1, GatewayAuthAssumption DEF TypeOK, RefreshToken
        <4> QED
          BY <2>h, <2>1, <4>1 DEF Restart
      <3> QED
        BY <2>h, <3>1 DEF Restart, OwnTokensStored, AlarmOnlyOnOwnTokens, Reply
    <2>i. CASE ClockStep
      BY <1>2, <2>i, <2>2 DEF ClockStep, store, AlarmOnlyOnOwnTokens
    <2>j. CASE UNCHANGED vars
      BY <1>2, <2>j, <2>2 DEF vars, store, AlarmOnlyOnOwnTokens
    <2> QED
      BY <1>2, <2>a, <2>b, <2>c, <2>d, <2>e, <2>f, <2>g, <2>h, <2>i, <2>j DEF Next
  <1>3. Own => AlarmOnlyOnOwnTokens
    OBVIOUS
  <1> QED
    BY <1>1, <1>2, <1>3, Inductive, PTL DEF Spec

\* Logging out with the newest token of a session leaves no usable token in it.
THEOREM LogoutIsFinal == Spec => LogoutEndsFamily
  <1> DEFINE A == \A token \in Live :
                    (/\ reply' = Reply("logged_out", token)
                     /\ VerifyRefreshToken(token, now)
                     /\ now' = now)
                        => \A t \in Live' : t.familyId # token.familyId
  <1>1. IInv /\ [Next]_vars => [A]_vars
    <2> SUFFICES ASSUME IInv, Next, vars' # vars, NEW token \in Live,
                        reply' = Reply("logged_out", token),
                        VerifyRefreshToken(token, now), now' = now,
                        NEW t \in Live'
                 PROVE  t.familyId # token.familyId
      OBVIOUS
    <2>1. PICK s \in issued : Logout(s) \/ LogoutInvalid(s)
      BY ZenonT(60) DEF Next, Login, LoginFailed, RefreshInvalid, RefreshReuse, RefreshRotate,
             Restart, ClockStep, Reply
    <2>2. token # NoToken
      BY GatewayAuthAssumption DEF IInv, TypeOK, Live, RefreshToken
    <2>3. Logout(token)
      <3>1. reply'.token = token
        BY DEF Reply
      <3>2. ~LogoutInvalid(s)
        BY <2>2, <3>1 DEF LogoutInvalid, Reply
      <3>3. Logout(s) => reply'.token = s
        BY DEF Logout, Reply
      <3> QED
        BY <2>1, <3>1, <3>2, <3>3
    <2>4. t \in Live /\ t.jti \notin {token.jti}
      BY <2>3, LiveShrinks DEF Logout
    <2> QED
      BY <2>4 DEF Live, Stored, IInv, SingleLive, StoreMatchesIssued
  <1> QED
    BY <1>1, Inductive, PTL DEF Spec, LogoutEndsFamily

-----------------------------------------------------------------------------
(* The audit trail.                                                        *)

\* No family is revoked without a trace: its reuse event is in the trail until
\* the trail has filled up.
THEOREM RevocationIsAudited == Spec => []RevokedFamiliesAudited
  <1> DEFINE Traced(f) ==
                \/ \E user \in Users :
                     Recorded(events, Event("auth.refresh_reuse_detected", user, f))
                \/ AtCapacity(events)
  <1>1. ASSUME IInv, RevokedFamiliesAudited, [Next]_vars
        PROVE  RevokedFamiliesAudited'
    <2>1. TypeOK
      BY <1>1 DEF IInv
    <2>2. /\ events \in Seq(AuditEvent) /\ Len(events) <= AuditCap
          /\ revokedFamilies \subseteq Families
      BY <2>1 DEF TypeOK
    <2>3. ASSUME NEW f \in Families, NEW user \in Users
          PROVE  Event("auth.refresh_reuse_detected", user, f) \in AuditEvent
      BY DEF Event, AuditEvent
    <2>4. ASSUME NEW e \in AuditEvent, events' = Emit(events, e),
                 NEW f \in revokedFamilies
          PROVE  Traced(f)'
      BY <1>1, <2>2, <2>3, <2>4, EmitRemembers DEF RevokedFamiliesAudited
    <2>5. ASSUME NEW e \in AuditEvent, events' = Emit(events, e),
                 revokedFamilies' = revokedFamilies
          PROVE  RevokedFamiliesAudited'
      BY <2>4, <2>5 DEF RevokedFamiliesAudited
    <2>6. ASSUME events' = events, revokedFamilies' = revokedFamilies
          PROVE  RevokedFamiliesAudited'
      BY <1>1, <2>6 DEF RevokedFamiliesAudited
    <2>a. ASSUME NEW user \in Users, NEW f \in Families, NEW j \in Jtis,
                 NEW d \in Drift, Login(user, f, j, d)
          PROVE  RevokedFamiliesAudited'
      <3>1. Event("auth.login_success", user, NoFamily) \in AuditEvent
        BY DEF Event, AuditEvent
      <3> QED
        BY <2>a, <2>5, <3>1 DEF Login
    <2>b. ASSUME NEW user \in Users, LoginFailed(user)
          PROVE  RevokedFamiliesAudited'
      <3>1. Event("auth.login_failed", user, NoFamily) \in AuditEvent
        BY DEF Event, AuditEvent
      <3> QED
        BY <2>b, <2>5, <3>1 DEF LoginFailed, store
    <2>c. ASSUME NEW token \in issued, RefreshInvalid(token)
          PROVE  RevokedFamiliesAudited'
      BY <2>c, <2>6 DEF RefreshInvalid, store
    <2>d. ASSUME NEW token \in issued, NEW d \in Drift, RefreshReuse(token, d)
          PROVE  RevokedFamiliesAudited'
      <3> DEFINE e == Event("auth.refresh_reuse_detected", token.sub, token.familyId)
      <3>1. token.sub \in Users /\ token.familyId \in Families
        BY <2>1 DEF TypeOK, RefreshToken
      <3>2. e \in AuditEvent
        BY <2>3, <3>1
      <3>3. events' = Emit(events, e)
            /\ revokedFamilies' = revokedFamilies \cup {token.familyId}
        BY <2>d DEF RefreshReuse
      <3>4. Recorded(events', e)
        BY <2>2, <3>2, <3>3, EmitRemembers
      <3>5. Traced(token.familyId)'
        BY <3>1, <3>4
      <3> QED
        BY <2>4, <3>2, <3>3, <3>5 DEF RevokedFamiliesAudited
    <2>e. ASSUME NEW token \in issued, NEW j \in Jtis, NEW d \in Drift, NEW x \in Drift,
                 RefreshRotate(token, j, d, x)
          PROVE  RevokedFamiliesAudited'
      <3> DEFINE user == refreshTokens[token.jti].user
                 next == SignedToken(user, token.familyId, j, now + d)
                 e == Event("auth.refresh_rotated", next.sub, token.familyId)
      <3>1. user \in Users /\ token.familyId \in Families /\ next.sub = user
        BY <2>e, <2>1 DEF RefreshRotate, Accepted, Stored, TypeOK, RefreshTokenRecord,
                          RefreshToken, SignedToken
      <3>2. e \in AuditEvent
        BY <3>1 DEF Event, AuditEvent
      <3>3. events' = Emit(events, e) /\ revokedFamilies' = revokedFamilies
        BY <2>e DEF RefreshRotate
      <3> QED
        BY <2>5, <3>2, <3>3
    <2>f. ASSUME NEW token \in issued, Logout(token)
          PROVE  RevokedFamiliesAudited'
      <3>1. Event("auth.logout", token.sub, NoFamily) \in AuditEvent
        BY <2>1 DEF Event, AuditEvent, TypeOK, RefreshToken
      <3> QED
        BY <2>f, <2>5, <3>1 DEF Logout
    <2>g. ASSUME NEW token \in issued, LogoutInvalid(token)
          PROVE  RevokedFamiliesAudited'
      <3>1. Event("auth.logout_invalid_token", NoToken, NoFamily) \in AuditEvent
        BY DEF Event, AuditEvent
      <3> QED
        BY <2>g, <2>5, <3>1 DEF LogoutInvalid, store
    <2>h. CASE Restart
      BY <2>h DEF Restart, RevokedFamiliesAudited
    <2>i. CASE ClockStep
      BY <2>i, <2>6 DEF ClockStep, store
    <2>j. CASE UNCHANGED vars
      BY <2>j, <2>6 DEF vars
    <2> QED
      BY <1>1, <2>a, <2>b, <2>c, <2>d, <2>e, <2>f, <2>g, <2>h, <2>i, <2>j DEF Next
  <1>2. Init => RevokedFamiliesAudited
    BY DEF Init, RevokedFamiliesAudited
  <1> QED
    BY <1>1, <1>2, Inductive, PTL DEF Spec

=============================================================================
