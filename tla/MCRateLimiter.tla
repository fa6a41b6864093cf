--------------------------- MODULE MCRateLimiter ---------------------------
(* Small instances of RateLimiter for TLC: requests are alike.             *)
EXTENDS RateLimiter, TLC

ReqSymmetry == Permutations(Reqs)
=============================================================================
