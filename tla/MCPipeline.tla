----------------------------- MODULE MCPipeline -----------------------------
(***************************************************************************)
(* The application of the api on a small instance; the values of the other *)
(* constants are in the configuration.                                     *)
(***************************************************************************)
EXTENDS Pipeline, TLC

\* No ids, both, and a correlation id equal to the default of the context.
BroughtHeaders ==
  {[request_id |-> "", correlation_id |-> ""],
   [request_id |-> "rid", correlation_id |-> "cid"],
   [request_id |-> "", correlation_id |-> "-"]}

RequestSymmetry == Permutations(Requests)

=============================================================================
