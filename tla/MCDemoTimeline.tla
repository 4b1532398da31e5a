---------------------------- MODULE MCDemoTimeline ----------------------------
(* DemoTimeline on a small instance. *)
EXTENDS MCRunExecution, DemoTimeline
=============================================================================
