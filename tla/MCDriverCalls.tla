---------------------------- MODULE MCDriverCalls ----------------------------
(* Bounds for model checking DriverCalls. *)
EXTENDS DriverCalls, TLC
CONSTANTS c1, c2, h1, h2

MCCall == {c1, c2}
MCHandle == {h1, h2}
MCPooled == {h1}
MCKindsOf == c1 :> {"transaction"} @@ c2 :> Kind

=============================================================================
