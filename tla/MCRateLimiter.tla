--------------------------- MODULE MCRateLimiter ---------------------------
(* An instance of RateLimiter for TLC.                                     *)
EXTENDS RateLimiter, TLC

CONSTANTS c1, c2

Permutation == Permutations(Clients)

=============================================================================
