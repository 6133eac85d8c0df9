--------------------------- MODULE MCRateLimiter ---------------------------
(***************************************************************************)
(* Model values for checking RateLimiter with TLC.                         *)
(***************************************************************************)
EXTENDS RateLimiter, TLC

ClientSymmetry == Permutations(Clients)

============================================================================
