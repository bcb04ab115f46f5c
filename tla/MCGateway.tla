------------------------------ MODULE MCGateway ------------------------------
(* A small instance of Gateway for TLC. *)
EXTENDS Gateway, TLC

\* An administrator's token that expires early, two that may use one service
\* each, and a refresh token sent where an access token belongs.
MCTokens ==
    {[type |-> "access", exp |-> 1,
      grants |-> {[resource |-> Wildcard, action |-> Wildcard]}],
     [type |-> "access", exp |-> 9,
      grants |-> {[resource |-> "scans", action |-> "read"]}],
     [type |-> "access", exp |-> 9,
      grants |-> {[resource |-> "network", action |-> "read"]}],
     [type |-> "refresh", exp |-> 9,
      grants |-> {[resource |-> Wildcard, action |-> Wildcard]}]}

\* Two upstreams stand for the three: the host of one is not allowlisted.
MCPermissionOf ==
    [route \in {"audit", "services", "scanner", "network"} |->
        [resource |-> CASE route = "audit"    -> "audit"
                        [] route = "services" -> "services"
                        [] route = "scanner"  -> "scans"
                        [] OTHER              -> "network",
         action |-> "read"]]

=============================================================================
