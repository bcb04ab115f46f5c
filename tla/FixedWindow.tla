----------------------------- MODULE FixedWindow -----------------------------
(***************************************************************************)
(* The buckets of the gateway's rate limiter                               *)
(* (apps/gateway/src/rateLimit.ts): one fixed window of                    *)
(* config.rateLimitWindowMs per client address, opened by the first        *)
(* request after the previous one closed.                                  *)
(***************************************************************************)
EXTENDS Integers

CONSTANTS
    Clients,        \* client addresses
    RateLimitMax,   \* config.rateLimitMax
    Window,         \* config.rateLimitWindowMs
    MaxHits,        \* bound: requests counted in a bucket
    MaxNow          \* bound: last instant of the clock

ASSUME FixedWindowAssumption ==
    /\ RateLimitMax \in Nat
    /\ Window \in Nat \ {0}
    /\ MaxHits \in Nat
    /\ MaxNow \in Nat

VARIABLES
    buckets,        \* Map client -> Bucket
    now             \* Date.now()

Bucket == [count : 1 .. MaxHits, resetAt : Nat]

Open(client) == client \in DOMAIN buckets /\ buckets[client].resetAt > now

\* Faulty variant: every request moves the window.
CountedSliding(client) ==
    [count |-> IF Open(client) THEN buckets[client].count + 1 ELSE 1,
     resetAt |-> now + Window]

\* The bucket after one more request of the client.
Counted(client) ==
    IF Open(client) THEN [buckets[client] EXCEPT !.count = @ + 1]
                    ELSE [count |-> 1, resetAt |-> now + Window]

\* Faulty variant: one request too many passes.
OverLimitByOne(bucket) == bucket.count > RateLimitMax + 1

OverLimit(bucket) == bucket.count > RateLimitMax

\* buckets.set(key, bucket)
Count(client) ==
    /\ Counted(client).count <= MaxHits
    /\ buckets' = [c \in DOMAIN buckets \cup {client} |->
                      IF c = client THEN Counted(client) ELSE buckets[c]]

=============================================================================
