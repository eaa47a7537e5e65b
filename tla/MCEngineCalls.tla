---------------------------- MODULE MCEngineCalls ----------------------------
(* Bounds for model checking EngineCalls. *)
EXTENDS EngineCalls, TLC
CONSTANTS c1, c2, c3, f1, f2

MCCaller == {c1, c2, c3}
MCFingerprint == {f1, f2}

=============================================================================
