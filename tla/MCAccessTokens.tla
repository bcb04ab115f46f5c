---------------------------- MODULE MCAccessTokens ---------------------------
(* A small instance of AccessTokens for TLC. *)
EXTENDS AccessTokens

CONSTANTS admin, auditor, read, update, any

MCGrants ==
    [r \in {admin, auditor} |->
        {[resource |-> any, action |-> IF r = admin THEN any ELSE read]}]

=============================================================================
