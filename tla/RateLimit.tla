------------------------------ MODULE RateLimit ------------------------------
(***************************************************************************)
(* The onRequest hook of the rate limiter                                  *)
(* (apps/gateway/src/rateLimit.ts) with the history that its promise is    *)
(* about.  The hook awaits nothing, so a request is one action.  The Map   *)
(* of buckets dies with the process.  The clock only moves forward here;   *)
(* what a wall clock set back does to tokens is in GatewayAuth.            *)
(***************************************************************************)
EXTENDS FixedWindow, Sequences

CONSTANT MaxBoots   \* bound: number of process restarts

ASSUME RateLimitAssumption == MaxBoots \in Nat

VARIABLES
    boots,          \* restarts so far
    served,         \* history: the instants of the requests let pass, by client
    refused         \* the client of the request refused last, if the last was

limiterVars == <<buckets, now, boots, served, refused>>

Instants == 0 .. MaxNow

LimiterInit ==
    /\ buckets = [c \in {} |-> 0]
    /\ now = 0
    /\ boots = 0
    /\ served = [c \in Clients |-> <<>>]
    /\ refused = {}

\* The onRequest hook for a request that is neither /healthz nor /readyz.
Hit(client) ==
    /\ Count(client)
    /\ IF OverLimit(buckets'[client])
       THEN refused' = {client} /\ UNCHANGED served
       ELSE refused' = {} /\ served' = [served EXCEPT ![client] = Append(@, now)]
    /\ UNCHANGED <<now, boots>>

Elapse ==
    /\ now < MaxNow
    /\ now' = now + 1
    /\ refused' = {}
    /\ UNCHANGED <<buckets, boots, served>>

Restart ==
    /\ boots < MaxBoots
    /\ boots' = boots + 1
    /\ buckets' = [c \in {} |-> 0]
    /\ refused' = {}
    /\ UNCHANGED <<now, served>>

LimiterNext == (\E c \in Clients : Hit(c)) \/ Elapse \/ Restart

LimiterSpec == LimiterInit /\ [][LimiterNext]_limiterVars

(***************************************************************************)
(* Properties                                                              *)
(***************************************************************************)
LimiterTypeOK ==
    /\ DOMAIN buckets \subseteq Clients
    /\ \A c \in DOMAIN buckets : buckets[c] \in Bucket
    /\ now \in Instants
    /\ boots \in 0 .. MaxBoots
    /\ served \in [Clients -> Seq(Instants)]
    /\ refused \subseteq Clients

\* Fixed windows let two of them be spent back to back, and no more: less than a
\* window of time takes in fewer than twice the quota of requests let pass, and
\* one quota more for every restart.
BurstBound ==
    \A c \in Clients : \A i, j \in DOMAIN served[c] :
        j >= i + (2 + boots) * RateLimitMax - 1 => served[c][j] >= served[c][i] + Window

\* A 429 is earned: the client had its whole quota in the past window.  A refused
\* client that keeps trying does not put off the end of its window.
RefusalIsEarned ==
    \A c \in refused :
        /\ Len(served[c]) >= RateLimitMax
        /\ \A i \in DOMAIN served[c] :
                i > Len(served[c]) - RateLimitMax => served[c][i] > now - Window

=============================================================================
