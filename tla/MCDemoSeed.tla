----------------------------- MODULE MCDemoSeed -----------------------------
(* DemoSeed with the manifest of the demo. *)
EXTENDS DemoSeed, SeedManifest, TLC

\* No runs; or both of the input that two seeds share, and one of another.
Shared == EvaluationRunSeeds[4].input
SomeLegacy == {<<>>, <<Shared, GeneralSeeds[1].input, Shared>>}
=============================================================================
