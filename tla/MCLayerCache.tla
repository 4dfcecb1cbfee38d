---------------------------- MODULE MCLayerCache ----------------------------
(* Model values for the keys, the nodes and the threads of the cache.      *)
EXTENDS LayerCache, TLC

CONSTANTS n1, n2, t1, t2, k1, k2

OneNode == {n1}
TwoNodes == {n1, n2}
OneThread == {t1}
TwoThreads == {t1, t2}
TwoKeys == {k1, k2}
SymmetricKeys == Permutations(TwoKeys)
SymmetricAll == Permutations(TwoThreads) \cup Permutations(TwoKeys) \cup Permutations(TwoNodes)
=============================================================================
