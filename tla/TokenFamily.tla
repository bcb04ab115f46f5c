----------------------------- MODULE TokenFamily -----------------------------
(***************************************************************************)
(* What rotating refresh tokens promise, whatever the bookkeeping: a token *)
(* is live from the moment it is issued until it is spent or revoked, and  *)
(* never again.  Spending a token is the only way to get a successor in    *)
(* its family, so a family has at most one live token, and once it has     *)
(* none it is over.                                                        *)
(***************************************************************************)
CONSTANT Token              \* records with a field familyId

VARIABLES issued, live

FamilyOf(S) == {t.familyId : t \in S}

Init == issued = {} /\ live = {}

\* A login starts a family that no earlier token belongs to.
Issue(t) ==
    /\ t.familyId \notin FamilyOf(issued)
    /\ issued' = issued \cup {t}
    /\ live' = live \cup {t}

\* A refresh exchanges the live token for its successor.
Rotate(t, next) ==
    /\ t \in live
    /\ next \notin issued
    /\ next.familyId = t.familyId
    /\ issued' = issued \cup {next}
    /\ live' = (live \ {t}) \cup {next}

\* Logout, reuse detection, loss of the store: some tokens die.
Kill(S) ==
    /\ live' = live \ S
    /\ UNCHANGED issued

Next ==
    \/ \E S \in SUBSET live : Kill(S)
    \/ \E t \in live, next \in Token : Rotate(t, next)
    \/ \E t \in Token : Issue(t)

Spec == Init /\ [][Next]_<<issued, live>>

-----------------------------------------------------------------------------
TypeOK == issued \subseteq Token /\ live \subseteq issued

OneLivePerFamily ==
    \A s, t \in live : s.familyId = t.familyId => s = t

\* A token that is not live stays so; a family that is over stays over.
DeadStaysDead ==
    [][ /\ \A t \in issued : t \notin live => t \notin live'
        /\ \A t \in issued : t.familyId \notin FamilyOf(live)
                                => t.familyId \notin FamilyOf(live') ]_<<issued, live>>

=============================================================================
