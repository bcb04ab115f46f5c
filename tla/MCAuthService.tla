---------------------------- MODULE MCAuthService ----------------------------
(* Small instances of AuthService for TLC. *)
EXTENDS AuthService, TLC

CONSTANTS alice, bob, p, q, admin, analyst, j1, j2

\* The administrator that the migration inserts,
MCSeed == [id \in {1} |-> [name |-> alice, password |-> p, role |-> admin, active |-> TRUE]]

\* who is logged in.
MCSeedTokens == {[jti |-> j1, userId |-> 1, role |-> admin, password |-> p]}

RequestSymmetry == Permutations(Requests)

=============================================================================
