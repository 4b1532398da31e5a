--------------------------- MODULE MCRunExecution ---------------------------
(* RunExecution on small instances. *)
EXTENDS RunExecution, TLC

CONSTANTS r1, r2, a1, a2, w1, w2

Ask(t) == [tool |-> t, deny |-> FALSE]

\* One request for each way through the gateway.
AllRequests ==
    {Ask("browser"), Ask("email"), [tool |-> "file", deny |-> TRUE], Ask("search")}

Symmetry == Permutations(Runs) \cup Permutations(ApiSessions) \cup Permutations(Workers)
=============================================================================
