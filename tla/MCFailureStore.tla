--------------------------- MODULE MCFailureStore ---------------------------
(***************************************************************************)
(* Model values for checking FailureStore with TLC.                        *)
(***************************************************************************)
EXTENDS FailureStore

\* A cfg file has no negative numbers.
AskedLimits == -1..3

=============================================================================
