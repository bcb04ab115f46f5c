----------------------------- MODULE MCRateLimit -----------------------------
(* A small instance of RateLimit for TLC. *)
EXTENDS RateLimit, TLC

ClientSymmetry == Permutations(Clients)

=============================================================================
