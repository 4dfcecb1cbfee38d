--------------------------- MODULE MCCacheClient ---------------------------
(* Where the points of the nodes and the layers lie on a small ring.       *)
EXTENDS CacheClient

CONSTANTS n1, n2, l1, l2

TwoNodes == {n1, n2}
TwoLayers == {l1, l2}

\* n1 and n2 take turns, and the ring begins and ends with n1.
SmallPoints == [x \in TwoNodes \X (0..1) |->
    IF x[1] = n1 THEN (IF x[2] = 0 THEN 6 ELSE 1) ELSE (IF x[2] = 0 THEN 3 ELSE 4)]

\* One layer between the points of n2, the other behind the last point of the ring.
SmallHashes == [l \in TwoLayers |-> IF l = l1 THEN 3 ELSE 7]
=============================================================================
