---------------------------- MODULE MCOrderPath ----------------------------
(***************************************************************************)
(* The path of an order on a small instance; the values of the constants   *)
(* are in the configurations.  No symmetry is declared: the main run       *)
(* checks liveness.                                                        *)
(***************************************************************************)
EXTENDS OrderPath

============================================================================
