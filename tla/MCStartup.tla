----------------------------- MODULE MCStartup -----------------------------
(***************************************************************************)
(* The start of the three Python services in every environment.            *)
(***************************************************************************)
EXTENDS Startup

============================================================================
