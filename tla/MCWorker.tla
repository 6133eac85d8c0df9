------------------------------ MODULE MCWorker ------------------------------
(***************************************************************************)
(* The worker with its ChaosController on a small instance; the values of  *)
(* the constants are in the configuration.                                 *)
(***************************************************************************)
EXTENDS Worker

=============================================================================
