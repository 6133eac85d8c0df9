-------------------------- MODULE MCNetworkDaemon --------------------------
(***************************************************************************)
(* The daemon with two targets: one that has all the checks and is slow or *)
(* down, and a healthy one without a URL.                                  *)
(***************************************************************************)
EXTENDS NetworkDaemon

TwoTargets == << <<"dns", "tcp", "http">>, <<"dns", "tcp">> >>

============================================================================
