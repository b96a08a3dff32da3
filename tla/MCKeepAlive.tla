---------------------------- MODULE MCKeepAlive ----------------------------
(* Small instances of KeepAlive and of its refinement for TLC: both signals *)
(* main() handles.                                                          *)
EXTENDS KeepAliveRefinement

MCSignals == {"SIGINT", "SIGTERM"}

=============================================================================
