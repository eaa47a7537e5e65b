----------------------------- MODULE MCTaskQueue -----------------------------
(* Bounds for model checking TaskQueue. *)
EXTENDS TaskQueue
CONSTANTS w1, w2

MCPriority == {0, 1}
MCSignalled == {2, 3}
MCLimited == {1, 3}
MCWaiter == {w1, w2}

=============================================================================
