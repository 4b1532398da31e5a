---------------------------- MODULE MCEvaluation ----------------------------
(* Evaluation on small instances. *)
EXTENDS Evaluation, TLC

CONSTANTS e1, v1

Case(ruling, expected) == [ruling |-> ruling, expected |-> expected]

\* A case that may pass, one whose tool is not the expected one, one that needs
\* approval and one that is denied.
SomeKinds ==
    {Case("ALLOW", TRUE), Case("ALLOW", FALSE), Case("REQUIRE_APPROVAL", TRUE), Case("DENY", TRUE)}
=============================================================================
