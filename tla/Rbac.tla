-------------------------------- MODULE Rbac --------------------------------
(***************************************************************************)
(* The two permission checks of the repository as pure operators.  A       *)
(* permission is a record [resource, action], either of which may be the   *)
(* wildcard.                                                               *)
(*   HasPermission  apps/gateway/src/rbac.ts, one test over all grants;    *)
(*   CoreHasPermission  shared_security_core/auth/rbac.py, four tests in   *)
(*                  a row, each over all grants.                           *)
(* The gateway writes a permission "resource:action", the core a dict with *)
(* two keys; both are the record here.                                     *)
(***************************************************************************)
CONSTANTS Resources, Actions, Wildcard

ASSUME RbacAssumption == Wildcard \notin Resources \cup Actions

Permission == [resource : Resources \cup {Wildcard},
               action : Actions \cup {Wildcard}]

\* rbac.ts: some grant matches the resource and the action.
HasPermission(grants, resource, action) ==
    \E p \in grants :
        /\ p.resource \in {Wildcard, resource}
        /\ p.action \in {Wildcard, action}

Granted(grants, resource, action) ==
    [resource |-> resource, action |-> action] \in grants

\* rbac.py: *:*, then *:action, then resource:*, then resource:action.
CoreHasPermission(grants, resource, action) ==
    \/ Granted(grants, Wildcard, Wildcard)
    \/ Granted(grants, Wildcard, action)
    \/ Granted(grants, resource, Wildcard)
    \/ Granted(grants, resource, action)

=============================================================================
