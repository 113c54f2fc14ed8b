--------------------------- MODULE MCRateLimiter ----------------------------
(* An instance of RateLimiter for TLC: a request takes two ticks, a bucket  *)
(* holds one request and a half, and is evicted just after it is full.      *)
EXTENDS RateLimiter, TLC
Symmetry == Permutations(Addresses) \cup Permutations(Callers)
=============================================================================
