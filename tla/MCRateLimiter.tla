--------------------------- MODULE MCRateLimiter ---------------------------
(* Model-checking instances of RateLimiter. *)
EXTENDS RateLimiter, TLC

Symmetry == Permutations(Thread) \cup Permutations(Subject)
=============================================================================
