------------------------------ MODULE HashRing ------------------------------
(***************************************************************************)
(* ConsistentHashRing of cache/cache_common.py without its threads: where  *)
(* a hash belongs, by definition, and how get_node finds it by bisection.  *)
(***************************************************************************)
EXTENDS Naturals, Sequences

CONSTANTS
    CacheNodes,  \* the URLs of the cache nodes
    Layers,      \* layer hashes
    Replicas,    \* virtual_replicas
    Size,        \* number of hash values: 2^256
    PointOf,     \* the hash of "node#i", for each node and i
    HashOf       \* the hash of a layer hash

Hashes == 0..(Size - 1)
Virtual == 0..(Replicas - 1)

\* SHA-256 gives different strings different hashes.
ASSUME RingAssumption ==
    /\ Size \in Nat /\ Replicas \in Nat \ {0}
    /\ PointOf \in [CacheNodes \X Virtual -> Hashes]
    /\ HashOf \in [Layers -> Hashes]
    /\ \A x, y \in CacheNodes \X Virtual : PointOf[x] = PointOf[y] => x = y

\* The points of a node, and the node of a point: the dictionary `ring` is the set
\* of its keys, because the node is determined by the point.
PointsOf(N) == {PointOf[x] : x \in N \X Virtual}
NodeAt(p) == CHOOSE n \in CacheNodes : p \in PointsOf({n})

-----------------------------------------------------------------------------
(* By definition: the next point, going up from the hash and round.        *)

\* How far it is from h up to the point p; a point at h itself is a whole turn away.
Distance(h, p) == IF p > h THEN p - h ELSE p + Size - h

IsOwner(S, h, p) == p \in S /\ \A q \in S : Distance(h, p) <= Distance(h, q)
Owner(S, h) == CHOOSE p \in S : IsOwner(S, h, p)

-----------------------------------------------------------------------------
(* By bisection, on a list that is sorted unless a thread is adding to it. *)

\* bisect_right(keys, h)
BisectRight(keys, h) ==
    LET I == 0..Len(keys)
        search[r \in I \X I] ==
            LET mid == (r[1] + r[2]) \div 2
            IN IF r[1] >= r[2] THEN r[1]
               ELSE search[IF h < keys[mid + 1] THEN <<r[1], mid>> ELSE <<mid + 1, r[2]>>]
    IN search[<<0, Len(keys)>>]

\* Mutant of Wrapped: past the end it is the last point, not the first.
Clamped(keys, idx) == IF idx = Len(keys) THEN Len(keys) ELSE idx + 1

\* The position, from 1, that index idx stands for: past the end it is the first.
Wrapped(keys, idx) == IF idx = Len(keys) THEN 1 ELSE idx + 1
=============================================================================
