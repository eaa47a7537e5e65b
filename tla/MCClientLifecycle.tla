-------------------------- MODULE MCClientLifecycle --------------------------
(* Two clients of one database and one of another. *)
EXTENDS ClientLifecycle, TLC
CONSTANTS k1, k2, k3, f1, f2, o1, o2

MCClient == {k1, k2, k3}
MCFingerprint == {f1, f2}
MCConfigOf == (k1 :> f1) @@ (k2 :> f1) @@ (k3 :> f2)
MCOp == {o1, o2}
MCCaller == 1 .. 3
Symmetry == Permutations(MCOp) \cup Permutations({k1, k2})

=============================================================================
