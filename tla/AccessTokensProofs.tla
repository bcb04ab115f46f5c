-------------------------- MODULE AccessTokensProofs --------------------------
(***************************************************************************)
(* Theorems about AccessTokens, for every value of its constants.          *)
(*                                                                         *)
(* The inductive invariant ties a token to the past of the account: the    *)
(* role it speaks for was held when the login read the account, the token  *)
(* was signed at most MaxDelay later, and its two dates are those of the   *)
(* signing clock, cut to whole seconds.                                    *)
(***************************************************************************)
EXTENDS AccessTokens, TLAPS

\* A pending login read a role that the account held at that time.
LoginHeld == login # NoLogin => lastHeld[login.role] >= login.at

\* What is known of a token: whose role it carries, and its dates.
Dated(k) ==
    /\ k.exp * Second <= k.at + MaxSkew + Ttl * Second
    /\ k.exp * Second > k.at - MaxSkew + (Ttl - 1) * Second
    /\ k.iat * Second <= k.at + MaxSkew

Vouched(k) ==
    /\ k.permissions = Grants[k.role]
    /\ k.at <= now
    /\ lastHeld[k.role] >= 0
    /\ lastHeld[k.role] + MaxDelay >= k.at

TokenInv == \A k \in tokens : Dated(k) /\ Vouched(k)

IInv == TypeOK /\ LoginHeld /\ TokenInv

(***************************************************************************)
(* Whole seconds                                                           *)
(***************************************************************************)
\* Cutting a time to whole seconds loses less than a second.
LEMMA WholeSeconds ==
    ASSUME NEW t \in Nat
    PROVE  /\ SecondOf(t) \in Nat
           /\ SecondOf(t) * Second <= t
           /\ t < SecondOf(t) * Second + Second
  BY AccessTokensAssumption, SMTT(60) DEF SecondOf

\* A second is not shorter than a tick.
LEMMA SecondsAreFewer ==
    ASSUME NEW q \in Nat, NEW t \in Nat, NEW d \in Nat, q * Second <= t + d * Second
    PROVE  q <= t + d
  <1>1. Second \in Nat /\ Second >= 1
    BY AccessTokensAssumption
  <1>2. SUFFICES ASSUME q >= t + d + 1 PROVE FALSE
    OBVIOUS
  <1>3. q * Second >= (t + d + 1) * Second
    BY <1>1, <1>2, SMTT(60)
  <1>4. (t + d + 1) * Second = t * Second + d * Second + Second
    BY <1>1, SMTT(60)
  <1>5. t * Second >= t
    BY <1>1, SMTT(60)
  <1>6. d * Second \in Nat /\ t * Second \in Nat /\ q * Second \in Nat
    BY <1>1
  <1> QED
    BY <1>1, <1>3, <1>4, <1>5, <1>6

\* A token that is signed has its type and the dates of the clock.
LEMMA SignedIsDated ==
    ASSUME TypeOK, NEW role \in Roles
    PROVE  Signed(role) \in AccessToken /\ Dated(Signed(role))
  <1> DEFINE clock == Clock(Auth)
             iat == SecondOf(clock)
             exp == SecondOf(clock + Ttl * Second)
  <1>1. /\ Second \in Nat \ {0} /\ Ttl \in Nat \ {0} /\ MaxSkew \in Nat /\ MaxNow \in Nat
        /\ Auth \in Services /\ Grants[role] \in SUBSET Permission
    BY AccessTokensAssumption
  <1>2. /\ now \in Nat /\ MaxSkew <= now /\ now <= MaxNow
        /\ skew[Auth] \in Int /\ - MaxSkew <= skew[Auth] /\ skew[Auth] <= MaxSkew
    BY <1>1 DEF TypeOK, Skews
  <1>3. clock \in Nat /\ clock <= now + MaxSkew /\ now - MaxSkew <= clock
    BY <1>1, <1>2 DEF Clock
  <1> HIDE DEF clock
  <1>4. Ttl * Second \in Nat /\ (Ttl - 1) * Second = Ttl * Second - Second
    BY <1>1, SMTT(60)
  <1>5. iat \in Nat /\ iat * Second <= clock
    BY <1>3, WholeSeconds
  <1>6. /\ exp \in Nat
        /\ exp * Second <= clock + Ttl * Second
        /\ clock + Ttl * Second < exp * Second + Second
    BY <1>3, <1>4, WholeSeconds
  <1> HIDE DEF iat, exp
  <1>7. iat <= clock
    <2>1. iat * Second <= clock + 0 * Second
      BY <1>1, <1>3, <1>5
    <2> QED
      BY <1>3, <1>5, <2>1, SecondsAreFewer
  <1>8. exp <= clock + Ttl
    BY <1>1, <1>3, <1>6, SecondsAreFewer
  <1>9. /\ Signed(role).role = role /\ Signed(role).permissions = Grants[role]
        /\ Signed(role).iat = iat /\ Signed(role).exp = exp /\ Signed(role).at = now
    BY DEF Signed, iat, exp, clock
  <1>10. Signed(role) \in AccessToken
    <2>1. iat \in 0 .. MaxNow + MaxSkew /\ exp \in 0 .. MaxNow + MaxSkew + Ttl /\ now \in 0 .. MaxNow
      BY <1>1, <1>2, <1>3, <1>5, <1>6, <1>7, <1>8
    <2> QED
      BY <1>1, <2>1 DEF Signed, AccessToken, iat, exp, clock
  <1>11. Dated(Signed(role))
    <2>1. iat * Second \in Nat /\ exp * Second \in Nat
      BY <1>1, <1>5, <1>6
    <2>2. iat * Second <= now + MaxSkew
      BY <1>1, <1>2, <1>3, <1>5, <2>1
    <2>3. exp * Second <= now + MaxSkew + Ttl * Second
      BY <1>1, <1>2, <1>3, <1>4, <1>6, <2>1
    <2>4. exp * Second > now - MaxSkew + (Ttl - 1) * Second
      BY <1>1, <1>2, <1>3, <1>4, <1>6, <2>1
    <2> QED
      BY <1>9, <2>2, <2>3, <2>4 DEF Dated
  <1> QED
    BY <1>10, <1>11

(***************************************************************************)
(* The invariant                                                           *)
(***************************************************************************)
LEMMA InitEstablishes == Init => IInv
  <1>1. MaxSkew \in Nat /\ MaxNow \in Nat /\ MaxSkew <= MaxNow /\ MaxDelay \in Nat /\ NoRole \notin Roles
    BY AccessTokensAssumption
  <1> QED
    BY <1>1, SMTT(30) DEF Init, IInv, TypeOK, LoginHeld, TokenInv, AccessToken, Skews

\* What a step may do to the past: it only grows.
PastGrows == \A r \in Roles : lastHeld'[r] \in Int /\ lastHeld'[r] >= lastHeld[r]

\* Tokens that a step keeps stay vouched for.
LEMMA KeptTokens ==
    ASSUME IInv, TypeOK', tokens' = tokens, now' \in Int, now' >= now, PastGrows
    PROVE  TokenInv'
  <1> SUFFICES ASSUME NEW k \in tokens PROVE (Dated(k) /\ Vouched(k))'
    BY DEF TokenInv
  <1>1. k \in AccessToken /\ now \in Int /\ MaxDelay \in Nat
    BY AccessTokensAssumption DEF IInv, TypeOK
  <1>2. k.role \in Roles /\ k.at \in Int
    BY <1>1 DEF AccessToken
  <1>3. lastHeld[k.role] \in Int /\ lastHeld'[k.role] \in Int /\ lastHeld'[k.role] >= lastHeld[k.role]
    BY <1>2 DEF PastGrows, IInv, TypeOK
  <1>4. Dated(k) /\ Vouched(k)
    BY DEF IInv, TokenInv
  <1>5. Dated(k)'
    BY <1>4 DEF Dated
  <1>6. Vouched(k)'
    BY <1>1, <1>2, <1>3, <1>4 DEF Vouched
  <1> QED
    BY <1>5, <1>6

LEMMA TickPreserves == IInv /\ Tick => IInv'
  <1> SUFFICES ASSUME IInv, Tick PROVE IInv'
    OBVIOUS
  <1>1. /\ MaxSkew \in Nat /\ MaxNow \in Nat /\ MaxDelay \in Nat /\ NoRole \notin Roles
        /\ now \in MaxSkew .. MaxNow /\ lastHeld \in [Roles -> -1 .. now]
        /\ account \in Roles \cup {NoRole}
        /\ now < MaxNow /\ now' = now + 1 /\ lastHeld' = Holds(now')
        /\ tokens' = tokens
    BY AccessTokensAssumption DEF IInv, TypeOK, Tick
  <1>2. lastHeld' \in [Roles -> -1 .. now'] /\ PastGrows
    BY <1>1 DEF Holds, PastGrows
  <1>3. account # NoRole => lastHeld'[account] = now'
    BY <1>1 DEF Holds
  <1>4. TypeOK'
    BY <1>1, <1>2, <1>3 DEF IInv, TypeOK, Tick, Skews
  <1>5. LoginHeld'
    BY <1>1, <1>2 DEF IInv, TypeOK, LoginHeld, PastGrows, Tick
  <1>6. TokenInv'
    BY <1>1, <1>2, <1>4, KeptTokens
  <1> QED
    BY <1>4, <1>5, <1>6 DEF IInv

LEMMA AdjustPreserves == ASSUME NEW s \in Services PROVE IInv /\ Adjust(s) => IInv'
  <1> SUFFICES ASSUME IInv, Adjust(s) PROVE IInv'
    OBVIOUS
  <1>1. TypeOK'
    BY DEF IInv, TypeOK, Adjust, Skews
  <1>2. PastGrows /\ now' \in Int /\ now' >= now
    BY AccessTokensAssumption DEF IInv, TypeOK, Adjust, PastGrows
  <1>3. LoginHeld' /\ tokens' = tokens
    BY DEF IInv, LoginHeld, Adjust
  <1> QED
    BY <1>1, <1>2, <1>3, KeptTokens DEF IInv

LEMMA SetAccountPreserves ==
    ASSUME NEW role \in Roles \cup {NoRole} PROVE IInv /\ SetAccount(role) => IInv'
  <1> SUFFICES ASSUME IInv, SetAccount(role) PROVE IInv'
    OBVIOUS
  <1>1. /\ MaxSkew \in Nat /\ MaxNow \in Nat /\ NoRole \notin Roles
        /\ now \in MaxSkew .. MaxNow /\ lastHeld \in [Roles -> -1 .. now]
        /\ account' = role /\ now' = now /\ tokens' = tokens
        /\ lastHeld' = [r \in Roles |-> IF r = role THEN now ELSE lastHeld[r]]
    BY AccessTokensAssumption DEF IInv, TypeOK, SetAccount
  <1>2. lastHeld' \in [Roles -> -1 .. now'] /\ PastGrows
    BY <1>1 DEF PastGrows
  <1>3. account' # NoRole => lastHeld'[account'] = now'
    BY <1>1
  <1>4. TypeOK'
    BY <1>1, <1>2, <1>3 DEF IInv, TypeOK, SetAccount, Skews
  <1>5. LoginHeld'
    BY <1>1, <1>2 DEF IInv, TypeOK, LoginHeld, PastGrows, SetAccount
  <1> QED
    BY <1>1, <1>2, <1>4, <1>5, KeptTokens DEF IInv

LEMMA AuthenticatePreserves == IInv /\ Authenticate => IInv'
  <1> SUFFICES ASSUME IInv, Authenticate PROVE IInv'
    OBVIOUS
  <1>1. /\ MaxSkew \in Nat /\ MaxNow \in Nat /\ MaxDelay \in Nat
        /\ now \in MaxSkew .. MaxNow /\ lastHeld \in [Roles -> -1 .. now]
        /\ account \in Roles /\ lastHeld[account] = now
        /\ login' = [role |-> account, at |-> now]
        /\ now' = now /\ lastHeld' = lastHeld /\ tokens' = tokens
    BY AccessTokensAssumption DEF IInv, TypeOK, Authenticate
  <1>2. login' \in [role : Roles, at : 0 .. now'] /\ now' <= login'.at + MaxDelay
    BY <1>1
  <1>3. TypeOK'
    BY <1>1, <1>2 DEF IInv, TypeOK, Authenticate, Skews
  <1>4. LoginHeld'
    BY <1>1 DEF LoginHeld
  <1>5. PastGrows
    BY <1>1 DEF PastGrows
  <1> QED
    BY <1>1, <1>3, <1>4, <1>5, KeptTokens DEF IInv

LEMMA CreateUserTokensPreserves == IInv /\ CreateUserTokens => IInv'
  <1> SUFFICES ASSUME IInv, CreateUserTokens PROVE IInv'
    OBVIOUS
  <1> DEFINE new == Signed(login.role)
  <1>1. /\ login \in [role : Roles, at : 0 .. now] /\ now <= login.at + MaxDelay
        /\ lastHeld[login.role] >= login.at
        /\ tokens' = tokens \cup {new} /\ login' = NoLogin
        /\ now' = now /\ lastHeld' = lastHeld /\ account' = account /\ skew' = skew
    BY DEF IInv, TypeOK, LoginHeld, CreateUserTokens
  <1>2. /\ MaxSkew \in Nat /\ MaxDelay \in Nat /\ MaxNow \in Nat /\ now \in Nat
        /\ lastHeld \in [Roles -> -1 .. now] /\ login.role \in Roles /\ login.at \in Nat
    BY <1>1, AccessTokensAssumption DEF IInv, TypeOK
  <1>3. new \in AccessToken /\ Dated(new)
    BY <1>2, SignedIsDated DEF IInv
  <1>4. Vouched(new)
    <2>1. new.role = login.role /\ new.permissions = Grants[login.role] /\ new.at = now
      BY DEF Signed
    <2>2. lastHeld[login.role] \in Int
      BY <1>2
    <2> HIDE DEF new
    <2> QED
      BY <1>1, <1>2, <2>1, <2>2 DEF Vouched
  <1> HIDE DEF new
  <1>5. TypeOK'
    BY <1>1, <1>3 DEF IInv, TypeOK, Skews
  <1>6. LoginHeld'
    BY <1>1 DEF LoginHeld
  <1>7. TokenInv'
    <2> SUFFICES ASSUME NEW k \in tokens' PROVE (Dated(k) /\ Vouched(k))'
      BY DEF TokenInv
    <2>1. Dated(k) /\ Vouched(k)
      BY <1>1, <1>3, <1>4 DEF IInv, TokenInv
    <2> QED
      BY <1>1, <2>1 DEF Dated, Vouched
  <1> QED
    BY <1>5, <1>6, <1>7 DEF IInv

LEMMA LoginFailsPreserves == IInv /\ LoginFails => IInv'
  <1> SUFFICES ASSUME IInv, LoginFails PROVE IInv'
    OBVIOUS
  <1>1. TypeOK' /\ LoginHeld'
    BY DEF IInv, TypeOK, LoginHeld, LoginFails, Skews
  <1>2. PastGrows /\ now' \in Int /\ now' >= now /\ tokens' = tokens
    BY AccessTokensAssumption DEF IInv, TypeOK, LoginFails, PastGrows
  <1> QED
    BY <1>1, <1>2, KeptTokens DEF IInv

LEMMA StepPreserves == IInv /\ [Next]_vars => IInv'
  <1> SUFFICES ASSUME IInv, [Next]_vars PROVE IInv'
    OBVIOUS
  <1>1. CASE Tick
    BY <1>1, TickPreserves
  <1>2. CASE \E s \in Services : Adjust(s)
    BY <1>2, AdjustPreserves
  <1>3. CASE \E r \in Roles \cup {NoRole} : SetAccount(r)
    BY <1>3, SetAccountPreserves
  <1>4. CASE Authenticate
    BY <1>4, AuthenticatePreserves
  <1>5. CASE CreateUserTokens
    BY <1>5, CreateUserTokensPreserves
  <1>6. CASE LoginFails
    BY <1>6, LoginFailsPreserves
  <1>7. CASE UNCHANGED vars
    BY <1>7 DEF vars, IInv, TypeOK, LoginHeld, TokenInv, Dated, Vouched, Skews
  <1> QED
    BY <1>1, <1>2, <1>3, <1>4, <1>5, <1>6, <1>7 DEF Next

LEMMA Invariance == Spec => []IInv
  BY InitEstablishes, StepPreserves, PTL DEF Spec

(***************************************************************************)
(* The theorems                                                            *)
(***************************************************************************)
\* The accounts, clocks, logins and tokens keep their types; both dates of a
\* token stay within the clocks of the run.
THEOREM TypeCorrect == Spec => []TypeOK
  <1>1. IInv => TypeOK
    BY DEF IInv
  <1> QED
    BY <1>1, Invariance, PTL

\* What VerifyToken tells of the true time, whatever the clock of the service.
LEMMA VerifiedIsRecent ==
    ASSUME IInv, NEW s \in Services, NEW k \in tokens, VerifyToken(s, k)
    PROVE  /\ k.role \in Roles /\ k.permissions = Grants[k.role]
           /\ lastHeld[k.role] >= 0 /\ now < lastHeld[k.role] + Staleness
  <1>1. /\ Second \in Nat /\ Ttl \in Nat /\ MaxSkew \in Nat /\ MaxDelay \in Nat
        /\ now \in Int /\ skew[s] \in Int /\ skew[s] >= - MaxSkew
        /\ k \in AccessToken /\ Dated(k) /\ Vouched(k)
    BY AccessTokensAssumption DEF IInv, TypeOK, TokenInv, Skews
  <1>2. /\ k.role \in Roles /\ k.at \in Int /\ k.exp \in Int
        /\ lastHeld[k.role] \in Int
    BY <1>1 DEF AccessToken, IInv, TypeOK
  <1>3. k.exp * Second \in Int /\ Ttl * Second \in Int
    BY <1>1, <1>2
  <1>4. now + skew[s] < k.exp * Second /\ k.exp * Second <= k.at + MaxSkew + Ttl * Second
    BY <1>1, <1>2, <1>3 DEF VerifyToken, Clock, Dated
  <1>5. lastHeld[k.role] >= 0 /\ lastHeld[k.role] + MaxDelay >= k.at
    BY <1>1 DEF Vouched
  <1>6. now < lastHeld[k.role] + (Ttl * Second + MaxDelay + 2 * MaxSkew)
    BY <1>1, <1>2, <1>3, <1>4, <1>5
  <1> QED
    BY <1>1, <1>2, <1>5, <1>6 DEF Vouched, Staleness

\* No service is told of a change of role or of a deactivation, yet a token is
\* never honoured for longer than its lifetime, the login and the clocks add up
\* to: for every set of services, roles and grants.
THEOREM AuthorityExpires == Spec => []AuthorityIsRecent
  <1>1. IInv => AuthorityIsRecent
    <2> SUFFICES ASSUME IInv, NEW s \in Services, NEW k \in tokens
                 PROVE  /\ \A resource \in Resources, action \in Actions :
                            RequirePermission(s, k, resource, action) =>
                                \E r \in Roles :
                                    /\ CoreHasPermission(Grants[r], resource, action)
                                    /\ lastHeld[r] >= 0 /\ now < lastHeld[r] + Staleness
                        /\ \A r \in Roles :
                            RequireRole(s, k, r) =>
                                lastHeld[r] >= 0 /\ now < lastHeld[r] + Staleness
      BY DEF AuthorityIsRecent
    <2>1. ASSUME NEW resource \in Resources, NEW action \in Actions,
                 RequirePermission(s, k, resource, action)
          PROVE  \E r \in Roles :
                    /\ CoreHasPermission(Grants[r], resource, action)
                    /\ lastHeld[r] >= 0 /\ now < lastHeld[r] + Staleness
      <3>1. VerifyToken(s, k) /\ CoreHasPermission(k.permissions, resource, action)
        BY <2>1 DEF RequirePermission
      <3>2. /\ k.role \in Roles /\ k.permissions = Grants[k.role]
            /\ lastHeld[k.role] >= 0 /\ now < lastHeld[k.role] + Staleness
        BY <3>1, VerifiedIsRecent
      <3>3. CoreHasPermission(Grants[k.role], resource, action)
        BY <3>1, <3>2
      <3> QED
        BY <3>2, <3>3
    <2>2. ASSUME NEW r \in Roles, RequireRole(s, k, r)
          PROVE  lastHeld[r] >= 0 /\ now < lastHeld[r] + Staleness
      <3>1. VerifyToken(s, k) /\ k.role = r
        BY <2>2 DEF RequireRole
      <3> QED
        BY <3>1, VerifiedIsRecent
    <2> QED
      BY <2>1, <2>2
  <1> QED
    BY <1>1, Invariance, PTL

\* A token is honoured by every service for the promised lifetime, less the
\* second that is cut off and the disagreement of the clocks.
THEOREM TokensLast == Spec => []TokensLastTheirTtl
  <1>1. IInv => TokensLastTheirTtl
    <2> SUFFICES ASSUME IInv, NEW s \in Services, NEW k \in tokens,
                        k.at + 2 * MaxSkew <= now,
                        now + 2 * MaxSkew <= k.at + (Ttl - 1) * Second
                 PROVE  VerifyToken(s, k)
      BY DEF TokensLastTheirTtl
    <2>1. /\ Second \in Nat /\ Ttl \in Nat /\ MaxSkew \in Nat /\ now \in Int
          /\ skew[s] \in Int /\ - MaxSkew <= skew[s] /\ skew[s] <= MaxSkew
          /\ k \in AccessToken /\ Dated(k)
      BY AccessTokensAssumption DEF IInv, TypeOK, TokenInv, Skews
    <2>2. k.at \in Int /\ k.exp \in Int /\ k.iat \in Int
      BY <2>1 DEF AccessToken
    <2>3. k.exp * Second \in Int /\ k.iat * Second \in Int /\ (Ttl - 1) * Second \in Int
      BY <2>1, <2>2
    <2>4. k.exp * Second > k.at - MaxSkew + (Ttl - 1) * Second /\ k.iat * Second <= k.at + MaxSkew
      BY <2>1 DEF Dated
    <2>5. k.exp * Second > now + skew[s] /\ k.iat * Second <= now + skew[s]
      BY <2>1, <2>2, <2>3, <2>4
    <2> QED
      BY <2>5 DEF VerifyToken, Clock
  <1> QED
    BY <1>1, Invariance, PTL

=============================================================================
