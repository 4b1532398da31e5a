--------------------------- MODULE MCObservability ---------------------------
(* Observability on small instances. *)
EXTENDS MCRunExecution, Observability

CONSTANT o1
=============================================================================
