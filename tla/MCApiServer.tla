---------------------------- MODULE MCApiServer ----------------------------
(***************************************************************************)
(* The Go api service with its own deadlines, in ticks of five seconds.    *)
(* The values of the constants are in the configuration; no symmetry is    *)
(* declared, the run checks liveness.                                      *)
(***************************************************************************)
EXTENDS ApiServer

============================================================================
