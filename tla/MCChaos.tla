------------------------------ MODULE MCChaos ------------------------------
(***************************************************************************)
(* The ChaosController on small instances; the values of the constants are *)
(* in the configurations.  No symmetry is declared: the main run checks    *)
(* liveness.                                                               *)
(***************************************************************************)
EXTENDS Chaos

============================================================================
