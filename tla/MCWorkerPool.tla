---------------------------- MODULE MCWorkerPool ----------------------------
(* Three tasks, one of them with args that cannot be cloned, and two slots: *)
(* enough for both slots to be lost while others poll.                     *)
EXTENDS WorkerPool

CONSTANTS t1, t2, t3

MCTask == {t1, t2, t3}
MCUnclonable == {t3}

=============================================================================
