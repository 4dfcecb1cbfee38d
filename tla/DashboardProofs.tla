-------------------------- MODULE DashboardProofs ---------------------------
(***************************************************************************)
(* Proof that a broadcast passes over a client only for a removal made by  *)
(* somebody else, for every number of sockets and of broadcasts under way. *)
(***************************************************************************)
EXTENDS Dashboard, FiniteSetTheorems, SequenceTheorems, WellFoundedInduction, TLAPS

-----------------------------------------------------------------------------
(* list.remove.                                                            *)

Smaller == {p \in Nat \X Nat : p[1] < p[2]}

LEMMA LeastOf ==
    ASSUME NEW T, T \subseteq Nat, T # {}
    PROVE  \E n \in T : \A k \in T : n <= k
<1>1. IsWellFoundedOn(Smaller, Nat)   BY NatLessThanWellFounded DEF OpToRel, Smaller
<1>2. PICK n \in T : \A k \in T : ~ (<<k, n>> \in Smaller)   BY <1>1, WFMin
<1>3. \A k \in T : ~ (k < n)   BY <1>2 DEF Smaller
<1> QED  BY <1>3

\* How many members of K there are up to i.
Rank(K, i) == Cardinality(K \cap 1..i)

\* It grows by one at each of them, from zero to their number.
Ranked(K, n) ==
    /\ \A i \in Nat : Rank(K, i) \in Nat
    /\ Rank(K, 0) = 0 /\ Rank(K, n) = Cardinality(K)
    /\ \A i \in Nat : Rank(K, i + 1) = IF i + 1 \in K THEN Rank(K, i) + 1 ELSE Rank(K, i)

LEMMA RankGrows == ASSUME NEW n \in Nat, NEW K \in SUBSET (1..n) PROVE Ranked(K, n)
<1>1. \A i \in Nat : IsFiniteSet(K \cap 1..i)
  <2> SUFFICES ASSUME NEW i \in Nat PROVE IsFiniteSet(K \cap 1..i)
    OBVIOUS
  <2>1. IsFiniteSet(1..i)   BY FS_Interval
  <2>2. K \cap 1..i \in SUBSET (1..i)   OBVIOUS
  <2> QED  BY <2>1, <2>2, FS_Subset
<1>2. \A i \in Nat : Rank(K, i) \in Nat   BY <1>1, FS_CardinalityType DEF Rank
<1>3. Rank(K, 0) = 0
  <2>1. K \cap 1..0 = {}   OBVIOUS
  <2> QED  BY <2>1, FS_EmptySet DEF Rank
<1>4. Rank(K, n) = Cardinality(K)
  <2>1. K \cap 1..n = K   OBVIOUS
  <2> QED  BY <2>1 DEF Rank
<1>5. ASSUME NEW i \in Nat
      PROVE  Rank(K, i + 1) = IF i + 1 \in K THEN Rank(K, i) + 1 ELSE Rank(K, i)
  <2>1. CASE i + 1 \in K
    <3>1. K \cap 1..(i + 1) = (K \cap 1..i) \cup {i + 1}   BY <2>1
    <3>2. i + 1 \notin K \cap 1..i   OBVIOUS
    <3>3. Cardinality((K \cap 1..i) \cup {i + 1}) = Cardinality(K \cap 1..i) + 1
      BY <1>1, <3>2, FS_AddElement
    <3> QED  BY <2>1, <3>1, <3>3 DEF Rank
  <2>2. CASE i + 1 \notin K
    <3>1. K \cap 1..(i + 1) = K \cap 1..i   BY <2>2
    <3> QED  BY <2>2, <3>1 DEF Rank
  <2> QED  BY <2>1, <2>2
<1> QED  BY <1>2, <1>3, <1>4, <1>5 DEF Ranked

\* The k-th member of a set of positions is there, and not far behind the position k.
LEMMA KthMember ==
    ASSUME NEW n \in Nat, NEW K \in SUBSET (1..n), NEW k \in 1..Cardinality(K)
    PROVE  /\ Cardinality(K) \in 0..n
           /\ \E i \in K : Rank(K, i) = k
           /\ \A i \in K : Rank(K, i) = k => k <= i /\ i <= k + (n - Cardinality(K))
<1>0. /\ \A i \in Nat : Rank(K, i) \in Nat
      /\ Rank(K, 0) = 0 /\ Rank(K, n) = Cardinality(K)
      /\ \A i \in Nat : Rank(K, i + 1) = IF i + 1 \in K THEN Rank(K, i) + 1 ELSE Rank(K, i)
  <2>1. Ranked(K, n)   BY RankGrows
  <2> QED  BY <2>1 DEF Ranked
<1>1. \A a \in Nat : IsFiniteSet(1..a) /\ Cardinality(1..a) = a
  BY FS_Interval
<1>2. Cardinality(K) \in 0..n
  <2>1. IsFiniteSet(1..n) /\ Cardinality(1..n) = n   BY <1>1
  <2>2. Cardinality(K) <= Cardinality(1..n)   BY <2>1, FS_Subset
  <2>3. Cardinality(K) \in Nat   BY <1>0
  <2> QED  BY <2>1, <2>2, <2>3
<1>3. \E i \in K : Rank(K, i) = k
  <2> DEFINE T == {i \in Nat : Rank(K, i) >= k}
  <2>1. n \in T   BY <1>0, <1>2
  <2>2. PICK i \in T : \A j \in T : i <= j   BY <2>1, LeastOf
  <2>3. i # 0   BY <1>0, <2>2
  <2>4. i - 1 \in Nat /\ (i - 1) + 1 = i   BY <2>3
  <2>5. ~ (Rank(K, i - 1) >= k)   BY <2>2, <2>4
  <2>6. Rank(K, i) = IF i \in K THEN Rank(K, i - 1) + 1 ELSE Rank(K, i - 1)   BY <1>0, <2>4
  <2>7. Rank(K, i) >= k /\ Rank(K, i - 1) \in Nat /\ k \in Nat   BY <1>0, <2>4
  <2> QED  BY <2>5, <2>6, <2>7
<1>4. ASSUME NEW i \in K, Rank(K, i) = k
      PROVE  k <= i /\ i <= k + (n - Cardinality(K))
  <2>0. i \in 1..n /\ i \in Nat   OBVIOUS
  <2>1. (1..i) \cap K = K \cap 1..i /\ (1..n) \cap K = K   OBVIOUS
  <2>2. IsFiniteSet((1..i) \ K) /\ Cardinality((1..i) \ K) = i - k
    <3>1. IsFiniteSet(1..i) /\ Cardinality(1..i) = i   BY <1>1, <2>0
    <3>2. /\ IsFiniteSet((1..i) \ K)
          /\ Cardinality((1..i) \ K) = Cardinality(1..i) - Cardinality((1..i) \cap K)
      BY <3>1, FS_Difference
    <3>3. Cardinality((1..i) \cap K) = k   BY <1>4, <2>1 DEF Rank
    <3> QED  BY <3>1, <3>2, <3>3
  <2>6. IsFiniteSet((1..n) \ K) /\ Cardinality((1..n) \ K) = n - Cardinality(K)
    <3>1. IsFiniteSet(1..n) /\ Cardinality(1..n) = n   BY <1>1
    <3>2. /\ IsFiniteSet((1..n) \ K)
          /\ Cardinality((1..n) \ K) = Cardinality(1..n) - Cardinality((1..n) \cap K)
      BY <3>1, FS_Difference
    <3> QED  BY <2>1, <3>1, <3>2
  <2>3. (1..i) \ K \in SUBSET ((1..n) \ K)   BY <2>0
  <2>4. Cardinality((1..i) \ K) <= Cardinality((1..n) \ K)   BY <2>3, <2>6, FS_Subset
  <2>5. Cardinality((1..i) \ K) \in Nat   BY <2>2, FS_CardinalityType
  <2> QED  BY <1>2, <2>0, <2>2, <2>4, <2>5, <2>6
<1> QED  BY <1>2, <1>3, <1>4

\* d has come of c by removals that move each member by no more than what was removed:
\* w says where they were.
Moved(c, d, w) ==
    /\ w \in [1..Len(d) -> 1..Len(c)]
    /\ \A k \in 1..Len(d) : d[k] = c[w[k]] /\ k <= w[k] /\ w[k] <= k + (Len(c) - Len(d))
    /\ \A k, l \in 1..Len(d) : w[k] = w[l] => k = l

LEMMA WithoutProperties ==
    ASSUME NEW S, NEW c \in Seq(S), NEW gone
    PROVE  /\ Without(c, gone) \in Seq(S) /\ Len(Without(c, gone)) \in 0..Len(c)
           /\ \E w : Moved(c, Without(c, gone), w)
<1> DEFINE K == {i \in 1..Len(c) : c[i] \notin gone}
           kth(k) == CHOOSE i \in K : Cardinality(K \cap 1..i) = k
           w == [k \in 1..Cardinality(K) |-> kth(k)]
<1>0. Len(c) \in Nat /\ K \in SUBSET (1..Len(c))   OBVIOUS
<1>1. Without(c, gone) = [k \in 1..Cardinality(K) |-> c[kth(k)]]   BY DEF Without
<1>2. Cardinality(K) \in 0..Len(c)
  <2> HIDE DEF K
  <2>1. IsFiniteSet(1..Len(c)) /\ Cardinality(1..Len(c)) = Len(c)
    <3>1. 1 \in Int /\ Len(c) \in Int   BY <1>0
    <3>2. IsFiniteSet(1..Len(c))
          /\ Cardinality(1..Len(c)) = IF 1 > Len(c) THEN 0 ELSE Len(c) - 1 + 1
      BY <3>1, FS_Interval
    <3> QED  BY <1>0, <3>2
  <2>2. IsFiniteSet(K) /\ Cardinality(K) <= Cardinality(1..Len(c))   BY <1>0, <2>1, FS_Subset
  <2>3. Cardinality(K) \in Nat   BY <2>2, FS_CardinalityType
  <2> QED  BY <1>0, <2>1, <2>2, <2>3
<1> HIDE DEF K
<1>3. \A k \in 1..Cardinality(K) : /\ kth(k) \in K /\ Rank(K, kth(k)) = k
                                   /\ k <= kth(k) /\ kth(k) <= k + (Len(c) - Cardinality(K))
  <2> SUFFICES ASSUME NEW k \in 1..Cardinality(K)
               PROVE  /\ kth(k) \in K /\ Rank(K, kth(k)) = k
                      /\ k <= kth(k) /\ kth(k) <= k + (Len(c) - Cardinality(K))
    OBVIOUS
  <2>1. /\ \E i \in K : Rank(K, i) = k
        /\ \A i \in K : Rank(K, i) = k => k <= i /\ i <= k + (Len(c) - Cardinality(K))
    BY <1>0, KthMember
  <2>2. \E i \in K : Cardinality(K \cap 1..i) = k   BY <2>1 DEF Rank
  <2>3. kth(k) \in K /\ Rank(K, kth(k)) = k   BY <2>2 DEF Rank
  <2> QED  BY <2>1, <2>3
<1> HIDE DEF kth
<1>4. /\ Without(c, gone) \in Seq(S) /\ Len(Without(c, gone)) = Cardinality(K)
      /\ \A k \in 1..Cardinality(K) : Without(c, gone)[k] = c[kth(k)]
  <2>0. \A i \in 1..Len(c) : c[i] \in S   OBVIOUS
  <2>1. \A k \in 1..Cardinality(K) : c[kth(k)] \in S   BY <1>0, <1>3, <2>0
  <2>2. Cardinality(K) \in Nat   BY <1>0, <1>2
  <2> DEFINE t == [k \in 1..Cardinality(K) |-> c[kth(k)]]
  <2>3. t \in [1..Cardinality(K) -> S]   BY <2>1
  <2>4. t \in Seq(S) /\ Len(t) = Cardinality(K)   BY <2>2, <2>3, IsASeq
  <2> QED  BY <1>1, <2>4
<1>5. w \in [1..Cardinality(K) -> 1..Len(c)] /\ \A k \in 1..Cardinality(K) : w[k] = kth(k)
  BY <1>0, <1>3
<1>6. \A k, l \in 1..Cardinality(K) : w[k] = w[l] => k = l   BY <1>3, <1>5
<1> HIDE DEF w
<1>7. \A k \in 1..Cardinality(K) :
         /\ Without(c, gone)[k] = c[w[k]]
         /\ k <= w[k] /\ w[k] <= k + (Len(c) - Cardinality(K))
  BY <1>3, <1>4, <1>5
<1>8. PICK n : n = Cardinality(K)   OBVIOUS
<1>9. /\ Len(Without(c, gone)) = n /\ w \in [1..n -> 1..Len(c)]
      /\ \A k \in 1..n : /\ Without(c, gone)[k] = c[w[k]]
                         /\ k <= w[k] /\ w[k] <= k + (Len(c) - n)
      /\ \A k, l \in 1..n : w[k] = w[l] => k = l
  BY <1>4, <1>5, <1>6, <1>7, <1>8
<1>10. Without(c, gone) \in Seq(S) /\ n \in 0..Len(c)   BY <1>2, <1>4, <1>8
<1> PICK t : t = Without(c, gone)   OBVIOUS
<1>11. Moved(c, t, w)   BY <1>9 DEF Moved
<1> QED  BY <1>9, <1>10, <1>11

-----------------------------------------------------------------------------
(* Broadcasts over a list that others change.                              *)

\* A broadcast: its loop variable, and its histories.
ABroadcast(b) ==
    /\ b \in [at: {b.at}, dead: {b.dead}, sent: {b.sent}, shifts: {b.shifts}]
    /\ b.at \in Nat \ {0} /\ b.shifts \in Nat /\ b.dead \in Seq(Sockets)

(***************************************************************************)
(* The positions before that of the loop at which the list has no client   *)
(* the broadcast has dealt with: one that has moved there, or none, since  *)
(* the list has become shorter than that.                                  *)
(***************************************************************************)
Skipped(b, c) ==
    {i \in 1..(b.at - 1) : i > Len(c) \/ c[i] \notin b.sent \cup ToSet(b.dead)}
Counts(b, c) == ABroadcast(b) /\ Cardinality(Skipped(b, c)) <= b.shifts

BroadcastInv ==
    /\ connections \in Seq(Sockets)
    /\ \A m \in DOMAIN sending : Counts(sending[m], connections)

LEMMA SkippedFinite ==
    ASSUME NEW b, ABroadcast(b), NEW c
    PROVE  /\ IsFiniteSet(Skipped(b, c)) /\ Cardinality(Skipped(b, c)) \in Nat
           /\ Skipped(b, c) \in SUBSET Nat
<1>1. b.at - 1 \in Int   BY DEF ABroadcast
<1>2. IsFiniteSet(1..(b.at - 1))   BY <1>1, FS_Interval
<1>3. Skipped(b, c) \in SUBSET (1..(b.at - 1))   BY DEF Skipped
<1>4. IsFiniteSet(Skipped(b, c))   BY <1>2, <1>3, FS_Subset
<1> QED  BY <1>3, <1>4, FS_CardinalityType

\* Fewer positions are skipped, and no fewer removals counted.
LEMMA CountsFewer ==
    ASSUME NEW b, NEW c, Counts(b, c), NEW a, ABroadcast(a), NEW d, b.shifts <= a.shifts,
           Skipped(a, d) \subseteq Skipped(b, c)
    PROVE  Counts(a, d)
<1>1. /\ IsFiniteSet(Skipped(b, c)) /\ Cardinality(Skipped(b, c)) \in Nat
      /\ Cardinality(Skipped(a, d)) \in Nat
  BY SkippedFinite DEF Counts
<1>2. Cardinality(Skipped(a, d)) <= Cardinality(Skipped(b, c))   BY <1>1, FS_Subset
<1>3. b.shifts \in Nat /\ a.shifts \in Nat /\ Cardinality(Skipped(b, c)) <= b.shifts
  BY DEF Counts, ABroadcast
<1> QED  BY <1>1, <1>2, <1>3 DEF Counts

\* The loop moves on, having sent to the client or failed to.
LEMMA CountsMove ==
    ASSUME NEW c \in Seq(Sockets), NEW b, Counts(b, c), ~ AtEnd(b, c)
    PROVE  Counts(Sent(b, c), c) /\ Counts(Failed(b, c), c)
<1>1. ABroadcast(b) /\ b.at \in 1..Len(c) /\ c[b.at] \in Sockets
  BY DEF Counts, ABroadcast, AtEnd
<1> DEFINE s == c[b.at]
<1>2. /\ ABroadcast(Sent(b, c)) /\ Sent(b, c).at = b.at + 1 /\ Sent(b, c).shifts = b.shifts
      /\ Sent(b, c).sent = b.sent \cup {s} /\ Sent(b, c).dead = b.dead
  <2>1. Sent(b, c) \in [at: {b.at + 1}, dead: {b.dead}, sent: {b.sent \cup {s}},
                        shifts: {b.shifts}]
    BY <1>1 DEF Sent, ABroadcast
  <2>2. b.at + 1 \in Nat \ {0}   BY <1>1 DEF ABroadcast
  <2> PICK r : r = Sent(b, c)   OBVIOUS
  <2>3. r.at = b.at + 1 /\ r.shifts = b.shifts /\ r.sent = b.sent \cup {s} /\ r.dead = b.dead
        /\ r \in [at: {r.at}, dead: {r.dead}, sent: {r.sent}, shifts: {r.shifts}]
    BY <2>1
  <2> QED  BY <1>1, <2>2, <2>3 DEF ABroadcast
<1>3. /\ ABroadcast(Failed(b, c)) /\ Failed(b, c).at = b.at + 1 /\ Failed(b, c).shifts = b.shifts
      /\ Failed(b, c).sent = b.sent /\ Failed(b, c).dead = Append(b.dead, s)
  <2>1. Failed(b, c) \in [at: {b.at + 1}, dead: {Append(b.dead, s)}, sent: {b.sent},
                          shifts: {b.shifts}]
    BY <1>1 DEF Failed, ABroadcast
  <2>2. b.at + 1 \in Nat \ {0} /\ Append(b.dead, s) \in Seq(Sockets)   BY <1>1 DEF ABroadcast
  <2> PICK r : r = Failed(b, c)   OBVIOUS
  <2>3. /\ r.at = b.at + 1 /\ r.shifts = b.shifts /\ r.sent = b.sent
        /\ r.dead = Append(b.dead, s)
        /\ r \in [at: {r.at}, dead: {r.dead}, sent: {r.sent}, shifts: {r.shifts}]
    BY <2>1
  <2> QED  BY <1>1, <2>2, <2>3 DEF ABroadcast
<1>4. ToSet(Append(b.dead, s)) = ToSet(b.dead) \cup {s}
  <2>1. b.dead \in Seq(Sockets) /\ s \in Sockets   BY <1>1 DEF ABroadcast
  <2> HIDE DEF s
  <2>2. /\ Len(Append(b.dead, s)) = Len(b.dead) + 1 /\ Append(b.dead, s)[Len(b.dead) + 1] = s
        /\ \A i \in 1..Len(b.dead) : Append(b.dead, s)[i] = b.dead[i]
        /\ DOMAIN Append(b.dead, s) = 1..(Len(b.dead) + 1) /\ DOMAIN b.dead = 1..Len(b.dead)
        /\ Len(b.dead) \in Nat
    BY <2>1
  <2> QED  BY <2>2 DEF ToSet
<1>5. ASSUME NEW a, a.at = b.at + 1, a.sent \cup ToSet(a.dead) = b.sent \cup ToSet(b.dead) \cup {s}
      PROVE  Skipped(a, c) \subseteq Skipped(b, c)
  <2> SUFFICES ASSUME NEW i \in Skipped(a, c) PROVE i \in Skipped(b, c)
    OBVIOUS
  <2>1. /\ i \in 1..b.at
        /\ i > Len(c) \/ c[i] \notin b.sent \cup ToSet(b.dead) \cup {s}
    BY <1>1, <1>5 DEF Skipped
  <2>2. Len(c) \in Nat   OBVIOUS
  <2>3. i # b.at   BY <1>1, <2>1, <2>2
  <2>4. i \in 1..(b.at - 1)   BY <1>1, <2>1, <2>3
  <2> QED  BY <2>1, <2>4 DEF Skipped
<1>6. Skipped(Sent(b, c), c) \subseteq Skipped(b, c)   BY <1>2, <1>5
<1>7. Skipped(Failed(b, c), c) \subseteq Skipped(b, c)   BY <1>3, <1>4, <1>5
<1>8. b.shifts \in Nat   BY <1>1 DEF ABroadcast
<1> QED  BY <1>2, <1>3, <1>6, <1>7, <1>8, CountsFewer

\* A client is listed: it comes last, behind the loop or at a position skipped already.
LEMMA CountsAppend ==
    ASSUME NEW c \in Seq(Sockets), NEW b, Counts(b, c), NEW s \in Sockets
    PROVE  Counts(b, Append(c, s))
<1>1. /\ Len(Append(c, s)) = Len(c) + 1 /\ Len(c) \in Nat
      /\ \A i \in 1..Len(c) : Append(c, s)[i] = c[i]
  OBVIOUS
<1>2. Skipped(b, Append(c, s)) \subseteq Skipped(b, c)
  <2> SUFFICES ASSUME NEW i \in Skipped(b, Append(c, s)) PROVE i \in Skipped(b, c)
    OBVIOUS
  <2>1. /\ i \in 1..(b.at - 1)
        /\ i > Len(c) + 1 \/ Append(c, s)[i] \notin b.sent \cup ToSet(b.dead)
    BY <1>1 DEF Skipped
  <2>2. CASE i \in 1..Len(c)
    <3>1. c[i] \notin b.sent \cup ToSet(b.dead)   BY <1>1, <2>1, <2>2
    <3> QED  BY <2>1, <3>1 DEF Skipped
  <2>3. CASE i \notin 1..Len(c)
    <3>1. i > Len(c)   BY <1>1, <2>1, <2>3 DEF Counts, ABroadcast
    <3> QED  BY <2>1, <3>1 DEF Skipped
  <2> QED  BY <2>2, <2>3
<1>3. ABroadcast(b) /\ b.shifts <= b.shifts   BY DEF Counts, ABroadcast
<1> QED  BY <1>2, <1>3, CountsFewer

\* Clients are removed: what has moved to a position before the loop was before it, or
\* behind it by no more than was removed.
LEMMA CountsShift ==
    ASSUME NEW c \in Seq(Sockets), NEW b, Counts(b, c), NEW gone
    PROVE  Counts([b EXCEPT !.shifts = @ + Len(c) - Len(Without(c, gone))], Without(c, gone))
<1> PICK d : d = Without(c, gone)   OBVIOUS
<1> PICK e : e = Len(c) - Len(d)   OBVIOUS
<1>1. d \in Seq(Sockets) /\ Len(d) \in 0..Len(c) /\ Len(c) \in Nat /\ Len(d) \in Nat
  BY WithoutProperties
<1>2. PICK w : /\ w \in [1..Len(d) -> 1..Len(c)]
               /\ \A k \in 1..Len(d) : d[k] = c[w[k]] /\ k <= w[k] /\ w[k] <= k + e
               /\ \A k, l \in 1..Len(d) : w[k] = w[l] => k = l
  <2>1. \E w : Moved(c, d, w)   BY WithoutProperties
  <2> QED  BY <2>1 DEF Moved
<1>3. e \in Nat /\ Len(c) = Len(d) + e   BY <1>1
<1> PICK a : a = [b EXCEPT !.shifts = @ + Len(c) - Len(d)]   OBVIOUS
<1>4. /\ ABroadcast(b) /\ b.at \in Nat \ {0} /\ b.shifts \in Nat
      /\ Cardinality(Skipped(b, c)) <= b.shifts
  BY DEF Counts, ABroadcast
<1>5. /\ ABroadcast(a) /\ a.at = b.at /\ a.sent = b.sent /\ a.dead = b.dead
      /\ a.shifts = b.shifts + e
  <2>1. a \in [at: {b.at}, dead: {b.dead}, sent: {b.sent}, shifts: {b.shifts + Len(c) - Len(d)}]
    BY <1>4 DEF ABroadcast
  <2>2. b.shifts + Len(c) - Len(d) = b.shifts + e /\ b.shifts + e \in Nat   BY <1>1, <1>3, <1>4
  <2>3. /\ a.at = b.at /\ a.sent = b.sent /\ a.dead = b.dead /\ a.shifts = b.shifts + e
        /\ a \in [at: {a.at}, dead: {a.dead}, sent: {a.sent}, shifts: {a.shifts}]
    BY <2>1, <2>2
  <2> QED  BY <1>4, <2>2, <2>3 DEF ABroadcast
<1> DEFINE M == Skipped(b, c) \cup (b.at..(b.at - 1 + e))
           v == [k \in Skipped(a, d) |-> IF k <= Len(d) THEN w[k] ELSE k + e]
<1>6. IsFiniteSet(M) /\ Cardinality(M) <= b.shifts + e
  <2> DEFINE I == b.at..(b.at - 1 + e)
  <2>1. IsFiniteSet(I) /\ Cardinality(I) = e
    <3>1. b.at \in Int /\ b.at - 1 + e \in Int   BY <1>3, <1>4
    <3>2. IsFiniteSet(I)
          /\ Cardinality(I) = IF b.at > b.at - 1 + e THEN 0 ELSE (b.at - 1 + e) - b.at + 1
      BY <3>1, FS_Interval
    <3> QED  BY <1>3, <1>4, <3>2
  <2>2. IsFiniteSet(Skipped(b, c)) /\ Cardinality(Skipped(b, c)) \in Nat
    BY <1>4, SkippedFinite
  <2>3. Skipped(b, c) \cap I \in SUBSET I   OBVIOUS
  <2>4. IsFiniteSet(Skipped(b, c) \cap I)   BY <2>1, <2>3, FS_Subset
  <2>5. Cardinality(Skipped(b, c) \cap I) \in Nat   BY <2>4, FS_CardinalityType
  <2> HIDE DEF I
  <2>6. /\ IsFiniteSet(Skipped(b, c) \cup I)
        /\ Cardinality(Skipped(b, c) \cup I) =
             Cardinality(Skipped(b, c)) + Cardinality(I) - Cardinality(Skipped(b, c) \cap I)
    BY <2>1, <2>2, FS_Union
  <2> QED  BY <1>3, <1>4, <2>1, <2>2, <2>5, <2>6 DEF I
<1>7. ASSUME NEW k \in Skipped(a, d)
      PROVE  /\ v[k] \in M /\ k \in Nat /\ k > 0
             /\ k <= Len(d) => v[k] = w[k] /\ v[k] <= Len(c) /\ k \in 1..Len(d)
             /\ k > Len(d) => v[k] = k + e /\ v[k] > Len(c)
  <2>1. k \in 1..(b.at - 1) /\ (k > Len(d) \/ d[k] \notin b.sent \cup ToSet(b.dead))
    BY <1>5 DEF Skipped
  <2>2. k \in Nat /\ k > 0 /\ k <= b.at - 1   BY <1>4, <2>1
  <2>3. CASE k <= Len(d)
    <3>1. k \in 1..Len(d)   BY <1>1, <2>2, <2>3
    <3>2. v[k] = w[k] /\ w[k] \in 1..Len(c)   BY <1>2, <2>3, <3>1
    <3>3. c[w[k]] \notin b.sent \cup ToSet(b.dead)
      <4>1. ~ (k > Len(d))   BY <1>1, <2>2, <2>3
      <4> QED  BY <1>2, <2>1, <3>1, <4>1
    <3>4. w[k] <= k + e /\ w[k] \in Nat /\ w[k] >= 1   BY <1>1, <1>2, <3>1, <3>2
    <3>5. w[k] \in 1..(b.at - 1) \/ w[k] \in b.at..(b.at - 1 + e)
      BY <1>3, <1>4, <2>2, <3>4
    <3>6. v[k] \in M   BY <3>2, <3>3, <3>5 DEF Skipped
    <3>7. v[k] <= Len(c)   BY <1>1, <3>2
    <3> QED  BY <1>1, <2>2, <2>3, <3>1, <3>2, <3>6, <3>7
  <2>4. CASE k > Len(d)
    <3>1. ~ (k <= Len(d))   BY <1>1, <2>2, <2>4
    <3>2. v[k] = k + e   BY <3>1
    <3>3. k + e > Len(c)   BY <1>1, <1>3, <2>2, <2>4
    <3>4. k + e \in 1..(b.at - 1) \/ k + e \in b.at..(b.at - 1 + e)
      BY <1>3, <1>4, <2>2
    <3>5. v[k] \in M   BY <3>2, <3>3, <3>4 DEF Skipped
    <3> QED  BY <1>1, <2>2, <2>4, <3>1, <3>2, <3>3, <3>5
  <2> QED  BY <1>1, <2>2, <2>3, <2>4
<1> HIDE DEF M
<1>8. v \in [Skipped(a, d) -> M]   BY <1>7
<1> HIDE DEF v
<1>9. \A k, l \in Skipped(a, d) : v[k] = v[l] => k = l
  <2> SUFFICES ASSUME NEW k \in Skipped(a, d), NEW l \in Skipped(a, d), v[k] = v[l]
               PROVE  k = l
    OBVIOUS
  <2>1. k \in Nat /\ l \in Nat   BY <1>7
  <2>2. CASE k <= Len(d) /\ l <= Len(d)   BY <1>2, <1>7, <2>2
  <2>3. CASE k > Len(d) /\ l > Len(d)
    <3>1. k + e = l + e   BY <1>7, <2>3
    <3> QED  BY <1>3, <2>1, <3>1
  <2>4. CASE (k <= Len(d) /\ l > Len(d)) \/ (l <= Len(d) /\ k > Len(d))
    <3>1. (v[k] <= Len(c) /\ v[l] > Len(c)) \/ (v[l] <= Len(c) /\ v[k] > Len(c))
      BY <1>7, <2>4
    <3>2. \A x : x \in M => x \in Int
      <4>1. Skipped(b, c) \in SUBSET Nat   BY <1>4, SkippedFinite
      <4> QED  BY <4>1 DEF M
    <3>3. v[k] \in Int   BY <1>7, <3>2
    <3> QED  BY <1>1, <3>1, <3>3
  <2> QED  BY <1>1, <2>1, <2>2, <2>3, <2>4
<1>10. v \in Injection(Skipped(a, d), M)   BY <1>8, <1>9 DEF Injection, IsInjective
<1>11. Cardinality(Skipped(a, d)) <= Cardinality(M)   BY <1>6, <1>10, FS_Injection
<1>12. Cardinality(Skipped(a, d)) \in Nat /\ Cardinality(M) \in Nat
  BY <1>5, <1>6, SkippedFinite, FS_CardinalityType
<1>13. Cardinality(Skipped(a, d)) <= a.shifts   BY <1>3, <1>4, <1>5, <1>6, <1>11, <1>12
<1> QED  BY <1>5, <1>13 DEF Counts

LEMMA CountsStarted == ASSUME NEW c PROVE Counts(Started, c)
<1>1. ABroadcast(Started) /\ Started.at = 1 /\ Started.shifts = 0
  BY EmptySeq DEF Started, ABroadcast
<1>2. Skipped(Started, c) = {}   BY <1>1 DEF Skipped
<1> QED  BY <1>1, <1>2, FS_EmptySet DEF Counts

-----------------------------------------------------------------------------
(* The steps.                                                              *)

\* A step that begins a broadcast, and leaves the list alone.
LEMMA BeginKeeps ==
    ASSUME BroadcastInv, NEW message, Begin(message), UNCHANGED connections
    PROVE  BroadcastInv'
<1>1. /\ DOMAIN sending' = DOMAIN sending \cup {message}
      /\ sending'[message] = Started
      /\ \A m \in DOMAIN sending : sending'[m] = sending[m]
  BY DEF Begin, CanBegin
<1>2. ASSUME NEW m \in DOMAIN sending' PROVE Counts(sending'[m], connections)
  BY <1>1, CountsStarted DEF BroadcastInv
<1> QED  BY <1>2 DEF BroadcastInv

\* The broadcasts stay, and the list grows at most by a client.
LEMMA GrowKeeps ==
    ASSUME BroadcastInv, UNCHANGED sending, NEW s \in Sockets,
           connections' \in {connections, Append(connections, s)}
    PROVE  BroadcastInv'
<1>1. connections' \in Seq(Sockets)   BY DEF BroadcastInv
<1>2. ASSUME NEW m \in DOMAIN sending PROVE Counts(sending[m], connections')
  BY CountsAppend DEF BroadcastInv
<1> QED  BY <1>1, <1>2 DEF BroadcastInv

\* Somebody removes clients from the list, while the broadcasts bs go on.
LEMMA RemovalKeeps ==
    ASSUME BroadcastInv, NEW gone, connections' = Without(connections, gone), NEW bs,
           DOMAIN bs \subseteq DOMAIN sending, \A m \in DOMAIN bs : bs[m] = sending[m],
           sending' = Shifted(bs)
    PROVE  BroadcastInv'
<1>1. connections \in Seq(Sockets) /\ \A m \in DOMAIN bs : Counts(bs[m], connections)
  BY DEF BroadcastInv
<1>2. connections' \in Seq(Sockets)   BY <1>1, WithoutProperties
<1>3. ASSUME NEW m \in DOMAIN bs PROVE Counts(sending'[m], connections')
  <2>1. sending'[m] = [bs[m] EXCEPT !.shifts = @ + Len(connections)
                                                 - Len(Without(connections, gone))]
    BY <1>3 DEF Shifted
  <2>2. Counts([bs[m] EXCEPT !.shifts = @ + Len(connections) - Len(Without(connections, gone))],
               Without(connections, gone))
    BY <1>1, <1>3, CountsShift
  <2> QED  BY <2>1, <2>2
<1>4. DOMAIN sending' = DOMAIN bs   BY DEF Shifted
<1> QED  BY <1>2, <1>3, <1>4 DEF BroadcastInv

LEMMA BroadcastStep == BroadcastInv /\ [Next]_vars => BroadcastInv'
<1> SUFFICES ASSUME BroadcastInv, [Next]_vars PROVE BroadcastInv'
  OBVIOUS
<1>0. connections \in Seq(Sockets) /\ \A m \in DOMAIN sending : Counts(sending[m], connections)
  BY DEF BroadcastInv
<1>1. CASE UNCHANGED <<sending, connections>>   BY <1>0, <1>1 DEF BroadcastInv
<1>2. ASSUME NEW m \in DOMAIN sending, SendNext(m) \/ SendFails(m) PROVE BroadcastInv'
  <2>1. /\ ~ AtEnd(sending[m], connections) /\ UNCHANGED connections
        /\ \/ sending' = [sending EXCEPT ![m] = Sent(sending[m], connections)]
           \/ sending' = [sending EXCEPT ![m] = Failed(sending[m], connections)]
    BY <1>2 DEF SendNext, SendFails, Advance, sockets
  <2>2. /\ Counts(Sent(sending[m], connections), connections)
        /\ Counts(Failed(sending[m], connections), connections)
    BY <1>0, <2>1, CountsMove
  <2>3. ASSUME NEW k \in DOMAIN sending' PROVE Counts(sending'[k], connections)
    <3>1. k \in DOMAIN sending   BY <2>1
    <3>2. CASE k = m   BY <2>1, <2>2, <3>2
    <3>3. CASE k # m
      <4>1. sending'[k] = sending[k]   BY <2>1, <3>1, <3>3
      <4> QED  BY <1>0, <3>1, <4>1
    <3> QED  BY <3>2, <3>3
  <2> QED  BY <1>0, <2>1, <2>3 DEF BroadcastInv
<1>3. ASSUME NEW m \in DOMAIN sending, BroadcastEnds(m) PROVE BroadcastInv'
  <2> DEFINE bs == [k \in DOMAIN sending \ {m} |-> sending[k]]
  <2>1. PICK gone : connections' = Without(connections, gone)
    BY <1>3 DEF BroadcastEnds, Swept
  <2>2. sending' = Shifted(bs)   BY <1>3 DEF BroadcastEnds
  <2>3. DOMAIN bs \subseteq DOMAIN sending /\ \A k \in DOMAIN bs : bs[k] = sending[k]
    OBVIOUS
  <2> HIDE DEF bs
  <2> QED  BY <2>1, <2>2, <2>3, RemovalKeeps
<1>4. CASE WorkerDies \/ ContainerStarts \/ ContainerDies \/ Heartbeat \/ RequestLost
  BY <1>1, <1>4
  DEF WorkerDies, ContainerStarts, ContainerDies, ContainerEvent, Heartbeat, RequestLost, sockets
<1>5. CASE HeartbeatArrives \/ NoticeArrives \/ \E e \in due : HandlerEnds(e)
  <2>1. PICK message : Begin(message)
    BY <1>5 DEF HeartbeatArrives, NoticeArrives, HandlerEnds
  <2>2. UNCHANGED connections
    BY <1>5 DEF HeartbeatArrives, NoticeArrives, HandlerEnds, sockets
  <2> QED  BY <2>1, <2>2, BeginKeeps
<1>6. CASE Connect \/ PeerCloses \/ SocketCloses \/ Restart \/ Receive
  BY <1>1, <1>6 DEF Connect, PeerCloses, SocketCloses, Restart, Receive, sockets
<1>7. CASE Crash
  <2>1. sending' = << >> /\ connections' = << >>   BY <1>7 DEF Crash
  <2>2. connections' \in Seq(Sockets) /\ DOMAIN sending' = {}   BY <2>1
  <2> QED  BY <2>2 DEF BroadcastInv
<1>8. ASSUME NEW s \in Sockets, Accepted(s) PROVE BroadcastInv'
  <2>1. UNCHANGED sending /\ connections' = Append(connections, s)   BY <1>8 DEF Accepted
  <2> QED  BY <2>1, GrowKeeps
<1>9. ASSUME NEW s \in Sockets, Disconnect(s) PROVE BroadcastInv'
  <2>1. connections' = Without(connections, {s}) /\ sending' = Shifted(sending)
    BY <1>9 DEF Disconnect
  <2> QED  BY <2>1, RemovalKeeps
<1>10. CASE \E i \in Pages : PollAnswered(i) \/ PollFails(i) \/ PollShown(i)
  BY <1>1, <1>10 DEF PollAnswered, PollFails, PollShown, sockets
<1>11. CASE UNCHANGED vars   BY <1>1, <1>11 DEF vars, sockets
<1> QED  BY <1>2, <1>3, <1>4, <1>5, <1>6, <1>7, <1>8, <1>9, <1>10, <1>11 DEF Next

LEMMA BroadcastInit == Init => BroadcastInv
<1> SUFFICES ASSUME Init PROVE BroadcastInv
  OBVIOUS
<1>1. Peer \in Sockets   BY DEF Sockets
<1>2. connections \in Seq(Sockets)   BY <1>1 DEF Init
<1>3. DOMAIN sending = {}   BY DEF Init
<1> QED  BY <1>2, <1>3 DEF BroadcastInv

\* The clients that were missed are at positions that were skipped.
LEMMA MissedWereSkipped ==
    ASSUME NEW c \in Seq(Sockets), NEW b, Counts(b, c), AtEnd(b, c)
    PROVE  Cardinality(Missed(b, c)) <= b.shifts
<1> DEFINE at == [s \in Missed(b, c) |-> CHOOSE i \in 1..Len(c) : c[i] = s]
<1>1. ASSUME NEW s \in Missed(b, c)
      PROVE  at[s] \in Skipped(b, c) /\ c[at[s]] = s
  <2>1. \E i \in 1..Len(c) : c[i] = s   BY <1>1 DEF Missed, ToSet
  <2>2. at[s] \in 1..Len(c) /\ c[at[s]] = s   BY <2>1
  <2>3. s \notin b.sent \cup ToSet(b.dead)   BY <1>1 DEF Missed
  <2>4. at[s] \in 1..(b.at - 1)   BY <2>2 DEF Counts, ABroadcast, AtEnd
  <2> QED  BY <2>2, <2>3, <2>4 DEF Skipped
<1>2. at \in [Missed(b, c) -> Skipped(b, c)]   BY <1>1
<1> HIDE DEF at
<1>3. at \in Injection(Missed(b, c), Skipped(b, c))
  BY <1>1, <1>2 DEF Injection, IsInjective
<1>4. ABroadcast(b) /\ b.shifts \in Nat /\ Cardinality(Skipped(b, c)) <= b.shifts
  BY DEF Counts, ABroadcast
<1>5. IsFiniteSet(Skipped(b, c)) /\ Cardinality(Skipped(b, c)) \in Nat   BY <1>4, SkippedFinite
<1>6. /\ IsFiniteSet(Missed(b, c))
      /\ Cardinality(Missed(b, c)) <= Cardinality(Skipped(b, c))
  BY <1>3, <1>5, FS_Injection
<1>7. Cardinality(Missed(b, c)) \in Nat   BY <1>6, FS_CardinalityType
<1> QED  BY <1>4, <1>5, <1>6, <1>7

(***************************************************************************)
(* WebSocketManager.broadcast goes over active_connections by position,    *)
(* while others append to it and remove from it (ws_manager.py:14, 17,     *)
(* 23-29).  Whoever it has neither reached nor found dead at its end was   *)
(* passed over for a removal made since it began, one for each; a client   *)
(* that is listed meanwhile is missed for no other reason.                 *)
(***************************************************************************)
THEOREM MissedClientsAreShifted == Spec => []MissedBounded
<1>1. BroadcastInv => MissedBounded
  BY MissedWereSkipped DEF BroadcastInv, MissedBounded
<1> QED  BY <1>1, BroadcastInit, BroadcastStep, PTL DEF Spec
=============================================================================
