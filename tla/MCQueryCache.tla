---------------------------- MODULE MCQueryCache ----------------------------
(* Three keys for two entries, so that storing evicts, a clock that passes *)
(* the ttl twice, and two writes: one reported, one not, or both.          *)
EXTENDS QueryCache, TLC

CONSTANTS c1, c2, k1, k2, k3

MCCall == {c1, c2}
MCKey == {k1, k2, k3}
MCSymmetry == Permutations(MCCall) \cup Permutations(MCKey)

=============================================================================
