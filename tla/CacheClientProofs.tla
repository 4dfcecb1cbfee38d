------------------------- MODULE CacheClientProofs -------------------------
(***************************************************************************)
(* Proofs about HashRing and CacheClient, for any number of cache nodes,   *)
(* points, layers and threads: what sorted() and bisect_right() return,    *)
(* that bisection finds the owner of a hash and that a change of the ring  *)
(* moves only the keys it has to, and the invariants of the client.        *)
(***************************************************************************)
EXTENDS CacheClient, FiniteSetTheorems, WellFoundedInduction, TLAPS

(* Induction over the naturals, for sets.                                  *)

Smaller == {ss \in Nat \X Nat : ss[1] < ss[2]}

LEMMA LeastNumber ==
    ASSUME NEW T, T \subseteq Nat, T # {}
    PROVE  \E m \in T : \A k \in T : m <= k
<1>1. IsWellFoundedOn(Smaller, Nat)   BY NatLessThanWellFounded DEF OpToRel, Smaller
<1>2. PICK m \in T : \A k \in T : ~ (<<k, m>> \in Smaller)   BY <1>1, WFMin
<1>3. \A k \in T : ~ (k < m)   BY <1>2 DEF Smaller
<1> QED  BY <1>3

LEMMA EveryNumber ==
    ASSUME NEW S, 0 \in S, \A n \in Nat : n \in S => n + 1 \in S
    PROVE  Nat \subseteq S
<1> SUFFICES ASSUME Nat \ S # {} PROVE FALSE  OBVIOUS
<1>1. PICK m \in Nat \ S : \A k \in Nat \ S : m <= k  BY LeastNumber
<1>2. m # 0 /\ m - 1 \in Nat /\ m - 1 \in S  BY <1>1
<1> QED BY <1>1, <1>2

LEMMA ListOfNumbers ==
    ASSUME NEW T, T \subseteq Nat, NEW s \in Seq(T)
    PROVE  s \in Seq(Nat)
<1>1. Len(s) \in Nat /\ DOMAIN s = 1..Len(s) /\ \A i \in 1..Len(s) : s[i] \in T   OBVIOUS
<1>2. s = [i \in 1..Len(s) |-> s[i]]   OBVIOUS
<1>3. s \in [1..Len(s) -> Nat]   BY <1>1, <1>2
<1> QED  BY <1>1, <1>3

-----------------------------------------------------------------------------
(* sorted()                                                                *)

LEMMA OneToN ==
    ASSUME NEW n \in Nat   PROVE IsFiniteSet(1..n) /\ Cardinality(1..n) = n
<1>1. IsFiniteSet(1..n) /\ Cardinality(1..n) = IF 1 > n THEN 0 ELSE n - 1 + 1   BY FS_Interval
<1> QED  BY <1>1

Ascending(s) == \A i, j \in 1..Len(s) : i < j => s[i] <= s[j]

Under(s, x) == Cardinality({i \in DOMAIN s : s[i] < x})
UpTo(s, x) == Cardinality({i \in DOMAIN s : s[i] <= x})
Placed(s, k, x) == x \in Range(s) /\ Under(s, x) < k /\ k <= UpTo(s, x)

LEMMA Counts ==
    ASSUME NEW s \in Seq(Nat), NEW x \in Nat
    PROVE  /\ Under(s, x) \in Nat /\ UpTo(s, x) \in Nat /\ UpTo(s, x) <= Len(s)
           /\ \A y \in Nat : y < x => UpTo(s, y) <= Under(s, x)
           /\ x \in Range(s) => Under(s, x) < UpTo(s, x)
<1>1. DOMAIN s = 1..Len(s) /\ Len(s) \in Nat   OBVIOUS
<1>2. IsFiniteSet(DOMAIN s) /\ Cardinality(DOMAIN s) = Len(s)
  <2>1. IsFiniteSet(1..Len(s)) /\ Cardinality(1..Len(s)) = Len(s)   BY <1>1, OneToN, Zenon
  <2> QED  BY <1>1, <2>1
<1> DEFINE U(y) == {i \in DOMAIN s : s[i] < y}
           V(y) == {i \in DOMAIN s : s[i] <= y}
<1>3. IsFiniteSet(U(x)) /\ IsFiniteSet(V(x)) /\ Cardinality(V(x)) <= Len(s)
  BY <1>2, FS_Subset
<1>4. Cardinality(U(x)) \in Nat /\ Cardinality(V(x)) \in Nat   BY <1>3, FS_CardinalityType
<1>0. \A y : Under(s, y) = Cardinality(U(y)) /\ UpTo(s, y) = Cardinality(V(y))
  BY DEF Under, UpTo
<1>5. ASSUME NEW y \in Nat, y < x PROVE UpTo(s, y) <= Under(s, x)
  <2>1. V(y) \subseteq U(x)   BY <1>5, <1>1
  <2> HIDE DEF U, V
  <2>2. Cardinality(V(y)) <= Cardinality(U(x))   BY <1>3, <2>1, FS_Subset
  <2> QED  BY <1>0, <2>2
<1>6. ASSUME x \in Range(s) PROVE Under(s, x) < UpTo(s, x)
  <2>1. PICK i \in DOMAIN s : s[i] = x   BY <1>6 DEF Range
  <2>2. U(x) \subseteq V(x) /\ U(x) # V(x)   BY <1>1, <2>1
  <2> HIDE DEF U, V
  <2>3. Cardinality(U(x)) <= Cardinality(V(x)) /\ Cardinality(U(x)) # Cardinality(V(x))
    BY <1>3, <2>2, FS_Subset
  <2> QED  BY <1>0, <1>4, <2>3
<1> HIDE DEF U, V
<1> QED  BY <1>0, <1>3, <1>4, <1>5, <1>6

LEMMA OnePlace ==
    ASSUME NEW s \in Seq(Nat), NEW k \in 1..Len(s)
    PROVE  \E x : Placed(s, k, x)
<1>1. DOMAIN s = 1..Len(s) /\ Len(s) \in Nat /\ Range(s) \subseteq Nat   BY DEF Range
<1> DEFINE T == {x \in Range(s) : k <= UpTo(s, x)}
<1>2. \A n \in Nat : n <= Len(s) /\ n >= 1 =>
         \E x \in Range(s) : \A i \in 1..n : s[i] <= x
  <2> DEFINE P == {n \in Nat : n <= Len(s) /\ n >= 1 =>
                     \E x \in Range(s) : \A i \in 1..n : s[i] <= x}
  <2>1. 0 \in P   OBVIOUS
  <2>2. ASSUME NEW n \in Nat, n \in P PROVE n + 1 \in P
    <3> SUFFICES ASSUME n + 1 <= Len(s)
                 PROVE  \E x \in Range(s) : \A i \in 1..(n + 1) : s[i] <= x
      OBVIOUS
    <3>1. s[n + 1] \in Range(s) /\ s[n + 1] \in Nat
      <4>1. n + 1 \in DOMAIN s   BY <1>1
      <4>2. s[n + 1] \in Range(s)   BY <4>1 DEF Range
      <4> QED  BY <1>1, <4>2
    <3>2. CASE n = 0   BY <3>1, <3>2
    <3>3. CASE n # 0
      <4>1. PICK x \in Range(s) : \A i \in 1..n : s[i] <= x   BY <2>2, <3>3
      <4>2. \A i \in 1..n : s[i] \in Nat   BY <1>1
      <4> QED  BY <1>1, <3>1, <4>1, <4>2
    <3> QED  BY <3>2, <3>3
  <2> HIDE DEF P
  <2>3. Nat \subseteq P   BY <2>1, <2>2, EveryNumber
  <2> QED  BY <2>3 DEF P
<1>3. T # {}
  <2>1. PICK x \in Range(s) : \A i \in 1..Len(s) : s[i] <= x   
    <3>1. Len(s) \in Nat /\ Len(s) <= Len(s) /\ Len(s) >= 1   BY <1>1
    <3> QED  BY <1>2, <3>1, Zenon
  <2>2. {i \in DOMAIN s : s[i] <= x} = 1..Len(s)   BY <1>1, <2>1
  <2>3. UpTo(s, x) = Len(s)   
    <3>1. Cardinality(1..Len(s)) = Len(s)   BY <1>1, OneToN, Zenon
    <3> QED  BY <2>2, <3>1 DEF UpTo
  <2> QED  BY <1>1, <2>3
<1>4. PICK x \in T : \A y \in T : x <= y   BY <1>1, <1>3, LeastNumber
<1>5. Under(s, x) < k
  <2> DEFINE B == {y \in Range(s) : y < x}
  <2>1. CASE B = {}
    <3>1. {i \in DOMAIN s : s[i] < x} = {}   BY <2>1 DEF Range
    <3>2. Under(s, x) = 0   BY <3>1, FS_EmptySet, Zenon DEF Under
    <3> QED  BY <3>2
  <2>2. CASE B # {}
    <3> DEFINE D == {d \in Nat : \E y \in B : d = x - y}
    <3>1. PICK d \in D : \A e \in D : d <= e
      <4>0. PICK y \in B : TRUE   BY <2>2
      <4>1. x - y \in D   BY <1>1, <4>0
      <4> QED  BY <4>1, LeastNumber
    <3>2. PICK y \in B : d = x - y   OBVIOUS
    <3>3. \A z \in B : z <= y
      <4> TAKE z \in B
      <4>1. x \in Nat /\ z \in Nat /\ y \in Nat /\ z < x   BY <1>1
      <4>2. x - z \in D   BY <4>1
      <4>3. d <= x - z   BY <3>1, <4>2
      <4> HIDE DEF D, B
      <4> QED  BY <3>2, <4>1, <4>3
    <3>4. {i \in DOMAIN s : s[i] < x} = {i \in DOMAIN s : s[i] <= y}
      BY <1>1, <3>3 DEF Range
    <3>5. y \in Nat /\ ~ (k <= UpTo(s, y))   BY <1>1, <1>4
    <3>6. Under(s, x) = UpTo(s, y)   BY <3>4, Zenon DEF Under, UpTo
    <3>7. UpTo(s, y) \in Nat   BY <3>5, Counts
    <3> QED  BY <3>5, <3>6, <3>7
  <2> QED  BY <2>1, <2>2
<1> QED  BY <1>4, <1>5 DEF Placed

\* Sorted lists the same numbers, in ascending order.
LEMMA SortedIsSorted ==
    ASSUME NEW s \in Seq(Nat)
    PROVE  /\ Sorted(s) \in Seq(Range(s)) /\ Len(Sorted(s)) = Len(s)
           /\ Range(Sorted(s)) = Range(s)
           /\ \A i, j \in 1..Len(s) : i < j => Sorted(s)[i] <= Sorted(s)[j]
<1> DEFINE t == Sorted(s)
<1>1. DOMAIN s = 1..Len(s) /\ Len(s) \in Nat /\ Range(s) \subseteq Nat   BY DEF Range
<1>2. \A k \in 1..Len(s) : t[k] = CHOOSE x \in Range(s) : Under(s, x) < k /\ k <= UpTo(s, x)
  BY <1>1 DEF Sorted, Under, UpTo
<1>3. DOMAIN t = 1..Len(s)   BY <1>1 DEF Sorted
<1>4. \A k \in 1..Len(s) : Placed(s, k, t[k])
  BY <1>2, OnePlace DEF Placed
<1>5. t = [k \in 1..Len(s) |-> t[k]]
  <2>1. t = [k \in 1..Len(s) |-> CHOOSE x \in Range(s) : Under(s, x) < k /\ k <= UpTo(s, x)]
    BY <1>1, Zenon DEF Sorted, Under, UpTo
  <2> QED  BY <2>1
<1> HIDE DEF t
<1>6. t \in Seq(Range(s)) /\ Len(t) = Len(s)   BY <1>1, <1>3, <1>4, <1>5 DEF Placed
<1>7. ASSUME NEW k \in 1..Len(s), NEW m \in 1..Len(s), NEW x, NEW y,
             Placed(s, k, x), Placed(s, m, y), k <= m
      PROVE  x <= y
  <2>1. x \in Nat /\ y \in Nat   BY <1>1, <1>7 DEF Placed
  <2>2. ASSUME y < x PROVE FALSE
    <3>1. UpTo(s, y) <= Under(s, x)   BY <2>1, <2>2, Counts
    <3>2. UpTo(s, y) \in Nat /\ Under(s, x) \in Nat   BY <2>1, Counts
    <3> QED  BY <1>7, <3>1, <3>2 DEF Placed
  <2> QED  BY <2>1, <2>2
<1>8. \A i, j \in 1..Len(s) : i < j => t[i] <= t[j]   BY <1>4, <1>7
<1>9. Range(s) \subseteq Range(t)
  <2> SUFFICES ASSUME NEW x \in Range(s) PROVE x \in Range(t)   OBVIOUS
  <2>1. x \in Nat /\ Under(s, x) \in Nat /\ UpTo(s, x) \in Nat /\ UpTo(s, x) <= Len(s)
        /\ Under(s, x) < UpTo(s, x)
    BY <1>1, Counts
  <2>2. PICK k \in 1..Len(s) : k = Under(s, x) + 1   BY <1>1, <2>1
  <2>3. Placed(s, k, x)   BY <2>1, <2>2 DEF Placed
  <2>4. t[k] <= x /\ x <= t[k]   BY <1>4, <1>7, <2>3
  <2>5. t[k] \in Nat   BY <1>1, <1>4 DEF Placed
  <2> QED  BY <1>3, <2>1, <2>4, <2>5 DEF Range
<1>10. Range(t) \subseteq Range(s)   BY <1>3, <1>4 DEF Range, Placed
<1> QED  BY <1>6, <1>8, <1>9, <1>10 DEF t

\* SetToSeq lists a finite set.
LEMMA ListOfSet ==
    ASSUME NEW S, IsFiniteSet(S)
    PROVE  SetToSeq(S) \in Seq(S) /\ Range(SetToSeq(S)) = S
<1> DEFINE n == Cardinality(S)
<1>1. n \in Nat   BY FS_CardinalityType
<1>2. ExistsBijection(1..n, S)   BY FS_CardinalityType
<1>3. PICK f \in Bijection(1..n, S) : TRUE   BY <1>2 DEF ExistsBijection
<1>4. f \in [1..n -> S] /\ IsInjective(f)   BY DEF Bijection, Injection, IsInjective
<1> DEFINE g == SetToSeq(S)
<1>5. g \in [1..n -> S] /\ IsInjective(g)   BY <1>4 DEF SetToSeq
<1>6. g \in Injection(1..n, S)   BY <1>5 DEF Injection, IsInjective
<1>7. g \in Surjection(1..n, S)
  <2>1. Cardinality(1..n) = n   BY <1>1, OneToN, Zenon
  <2> QED  BY <1>6, <2>1, FS_Injection
<1> HIDE DEF g
<1>8. g \in Seq(S)   BY <1>1, <1>5
<1>9. Range(g) = S   BY <1>5, <1>7 DEF Surjection, Range
<1> QED  BY <1>8, <1>9 DEF g

-----------------------------------------------------------------------------
(* bisect_right()                                                          *)

Ranges(list) == (0..Len(list)) \X (0..Len(list))
Middle(r) == (r[1] + r[2]) \div 2
Narrowed(list, h, r) ==
    IF h < list[Middle(r) + 1] THEN <<r[1], Middle(r)>> ELSE <<Middle(r) + 1, r[2]>>
SearchBody(f, list, h, r) == IF r[1] >= r[2] THEN r[1] ELSE f[Narrowed(list, h, r)]
IsSearch(f, list, h) == f = [r \in Ranges(list) |-> SearchBody(f, list, h, r)]
Wide(r, n) == r[2] <= r[1] + n

LEMMA NarrowedIsNarrower ==
    ASSUME NEW list, Len(list) \in Nat, NEW h, NEW r \in Ranges(list), r[1] < r[2],
           NEW n \in Nat, Wide(r, n + 1)
    PROVE  /\ Middle(r) \in Nat /\ r[1] <= Middle(r) /\ Middle(r) < r[2]
           /\ Narrowed(list, h, r) \in Ranges(list) /\ Wide(Narrowed(list, h, r), n)
<1>1. r[1] \in 0..Len(list) /\ r[2] \in 0..Len(list)   BY DEF Ranges
<1>2. Middle(r) \in Nat /\ r[1] <= Middle(r) /\ Middle(r) < r[2]   BY <1>1 DEF Middle
<1> QED  BY <1>1, <1>2 DEF Narrowed, Ranges, Wide

LEMMA SearchExists ==
    ASSUME NEW list, Len(list) \in Nat, NEW h
    PROVE  \E f : IsSearch(f, list, h)
<1> DEFINE R == Ranges(list)
           Fits(f, n) == \A r \in R : Wide(r, n) => f[r] = SearchBody(f, list, h, r)
           P == {n \in Nat : \E f : Fits(f, n)}
<1>1. 0 \in P
  <2> DEFINE f == [r \in R |-> r[1]]
  <2>1. \A r \in R : Wide(r, 0) => r[1] >= r[2]   BY DEF Ranges, Wide
  <2>2. Fits(f, 0)   BY <2>1 DEF SearchBody
  <2> QED  BY <2>2
<1>2. ASSUME NEW n \in Nat, n \in P PROVE n + 1 \in P
  <2>1. PICK f : Fits(f, n)   BY <1>2
  <2> DEFINE g == [r \in R |-> SearchBody(f, list, h, r)]
  <2>2. \A r \in R : Wide(r, n) => g[r] = f[r]   BY <2>1
  <2>3. \A r \in R : g[r] = SearchBody(f, list, h, r)   OBVIOUS
  <2> HIDE DEF g
  <2>4. ASSUME NEW r \in R, Wide(r, n + 1)   PROVE g[r] = SearchBody(g, list, h, r)
    <3>1. CASE r[1] >= r[2]   BY <2>3, <3>1 DEF SearchBody
    <3>2. CASE ~ (r[1] >= r[2])
      <4>1. r[1] < r[2]   BY <3>2 DEF Ranges
      <4>2. Narrowed(list, h, r) \in R /\ Wide(Narrowed(list, h, r), n)
        BY <2>4, <4>1, NarrowedIsNarrower
      <4>3. g[Narrowed(list, h, r)] = f[Narrowed(list, h, r)]   BY <2>2, <4>2
      <4> QED  BY <2>3, <3>2, <4>3 DEF SearchBody
    <3> QED  BY <3>1, <3>2
  <2> QED  BY <2>4
<1> HIDE DEF P
<1>3. Nat \subseteq P   BY <1>1, <1>2, EveryNumber
<1>4. PICK f : Fits(f, Len(list))   BY <1>3 DEF P
<1> DEFINE g == [r \in R |-> f[r]]
<1>5. \A r \in R : Wide(r, Len(list))   BY DEF Ranges, Wide
<1>6. \A r \in R : r[1] < r[2] => Narrowed(list, h, r) \in R
  <2> TAKE r \in R
  <2>1. Wide(r, Len(list) + 1)   BY DEF Ranges, Wide
  <2> QED  BY <2>1, NarrowedIsNarrower
<1>7. \A r \in R : f[r] = SearchBody(g, list, h, r)
  <2> TAKE r \in R
  <2>1. f[r] = SearchBody(f, list, h, r)   BY <1>4, <1>5
  <2>2. CASE r[1] >= r[2]   BY <2>1, <2>2 DEF SearchBody
  <2>3. CASE ~ (r[1] >= r[2])
    <3>1. r[1] < r[2]   BY <2>3 DEF Ranges
    <3>2. g[Narrowed(list, h, r)] = f[Narrowed(list, h, r)]   BY <1>6, <3>1
    <3> QED  BY <2>1, <2>3, <3>2 DEF SearchBody
  <2> QED  BY <2>2, <2>3
<1>8. g = [r \in R |-> SearchBody(g, list, h, r)]   BY <1>7
<1> HIDE DEF g
<1> QED  BY <1>8 DEF IsSearch

\* What the cells outside a range are, and what an index that splits the list is.
Brackets(list, h, r) == Ascending(list) =>
                           /\ \A i \in 1..r[1] : list[i] <= h
                           /\ \A i \in (r[2] + 1)..Len(list) : h < list[i]
Splits(list, h, k) == /\ k \in 0..Len(list)
                      /\ Ascending(list) => \A i \in 1..Len(list) : i <= k <=> list[i] <= h

\* A list of numbers in order, by its cells.
LEMMA AscendingCells ==
    ASSUME NEW list \in Seq(Nat), Ascending(list)
    PROVE  /\ \A i \in 1..Len(list) : list[i] \in Nat
           /\ \A i, j \in 1..Len(list) : i <= j => list[i] <= list[j]
<1>1. ASSUME NEW i \in 1..Len(list) PROVE list[i] \in Nat   OBVIOUS
<1>2. ASSUME NEW i \in 1..Len(list), NEW j \in 1..Len(list), i <= j PROVE list[i] <= list[j]
  <2>1. CASE i = j   BY <1>1, <2>1
  <2>2. CASE i < j   BY <2>2 DEF Ascending
  <2> QED  BY <1>2, <2>1, <2>2
<1> QED  BY <1>1, <1>2

LEMMA NarrowedBrackets ==
    ASSUME NEW list \in Seq(Nat), NEW h \in Nat, NEW r \in Ranges(list), r[1] < r[2],
           Brackets(list, h, r)
    PROVE  Brackets(list, h, Narrowed(list, h, r))
<1> SUFFICES ASSUME Ascending(list)
             PROVE  LET q == Narrowed(list, h, r)
                    IN  /\ \A i \in 1..q[1] : list[i] <= h
                        /\ \A i \in (q[2] + 1)..Len(list) : h < list[i]
  BY DEF Brackets
<1>0. r[1] \in 0..Len(list) /\ r[2] \in 0..Len(list)   BY DEF Ranges
<1>1. PICK m \in Nat : m = Middle(r) /\ r[1] <= m /\ m < r[2] /\ m + 1 \in 1..Len(list)
  <2>1. Middle(r) \in Nat /\ r[1] <= Middle(r) /\ Middle(r) < r[2]   BY <1>0 DEF Middle
  <2> QED  BY <1>0, <2>1
<1>2. /\ \A i \in 1..r[1] : list[i] <= h
      /\ \A i \in (r[2] + 1)..Len(list) : h < list[i]
  BY DEF Brackets
<1>3. /\ \A i \in 1..Len(list) : list[i] \in Nat
      /\ \A i, j \in 1..Len(list) : i <= j => list[i] <= list[j]
  BY AscendingCells
<1>4. CASE h < list[m + 1]
  <2>1. Narrowed(list, h, r) = <<r[1], m>>   BY <1>1, <1>4 DEF Narrowed
  <2>2. ASSUME NEW i \in (m + 1)..Len(list) PROVE h < list[i]
    <3>1. i \in 1..Len(list) /\ m + 1 <= i   BY <1>1
    <3>2. list[m + 1] <= list[i] /\ list[m + 1] \in Nat /\ list[i] \in Nat
      BY <1>1, <1>3, <3>1
    <3> QED  BY <1>4, <3>2
  <2> QED  BY <1>2, <2>1, <2>2
<1>5. CASE ~ (h < list[m + 1])
  <2>1. Narrowed(list, h, r) = <<m + 1, r[2]>>   BY <1>1, <1>5 DEF Narrowed
  <2>2. ASSUME NEW i \in 1..(m + 1) PROVE list[i] <= h
    <3>1. i \in 1..Len(list) /\ i <= m + 1   BY <1>1
    <3>2. list[i] <= list[m + 1] /\ list[m + 1] \in Nat /\ list[i] \in Nat
      BY <1>1, <1>3, <3>1
    <3> QED  BY <1>5, <3>2
  <2> QED  BY <1>2, <2>1, <2>2
<1> QED  BY <1>4, <1>5

\* bisect.bisect_right on a sorted list: what is at most h comes before the index.
LEMMA BisectRightSplits ==
    ASSUME NEW list \in Seq(Nat), NEW h \in Nat
    PROVE  /\ BisectRight(list, h) \in 0..Len(list)
           /\ Ascending(list) =>
                 \A i \in 1..Len(list) : i <= BisectRight(list, h) <=> list[i] <= h
<1> DEFINE R == Ranges(list)
           s == CHOOSE f : IsSearch(f, list, h)
           P == {n \in Nat : \A r \in R :
                    r[1] <= r[2] /\ Wide(r, n) /\ Brackets(list, h, r) => Splits(list, h, s[r])}
           all == <<0, Len(list)>>
<1>0. Len(list) \in Nat   OBVIOUS
<1>1. BisectRight(list, h) = s[all]
  BY Zenon DEF BisectRight, IsSearch, SearchBody, Middle, Narrowed, Ranges
<1>2. IsSearch(s, list, h)   BY <1>0, SearchExists
<1>3. \A r \in R : s[r] = SearchBody(s, list, h, r)   BY <1>2, Zenon DEF IsSearch
<1> HIDE DEF s
<1>4. ASSUME NEW r \in R, r[1] = r[2], Brackets(list, h, r) PROVE Splits(list, h, s[r])
  <2>1. r[1] \in 0..Len(list) /\ r[2] \in 0..Len(list)   BY DEF Ranges
  <2>2. s[r] = r[1]   BY <1>3, <1>4, <2>1 DEF SearchBody
  <2>3. ASSUME Ascending(list), NEW i \in 1..Len(list) PROVE i <= r[1] <=> list[i] <= h
    <3>1. list[i] \in Nat   BY <2>3, AscendingCells
    <3>2. i <= r[1] => list[i] <= h   BY <1>4, <2>1, <2>3 DEF Brackets
    <3>3. ~ (i <= r[1]) => h < list[i]   BY <1>4, <2>1, <2>3 DEF Brackets
    <3> QED  BY <3>1, <3>2, <3>3
  <2> QED  BY <2>1, <2>2, <2>3 DEF Splits
<1>5. 0 \in P
  <2>1. \A r \in R : r[1] <= r[2] /\ Wide(r, 0) => r[1] = r[2]   BY DEF Ranges, Wide
  <2> QED  BY <1>4, <2>1
<1>6. ASSUME NEW n \in Nat, n \in P PROVE n + 1 \in P
  <2> SUFFICES ASSUME NEW r \in R, r[1] < r[2], Wide(r, n + 1), Brackets(list, h, r)
               PROVE  Splits(list, h, s[r])
    <3>1. \A r \in R : r[1] <= r[2] => r[1] < r[2] \/ r[1] = r[2]   BY DEF Ranges
    <3> QED  BY <1>4, <3>1
  <2> DEFINE q == Narrowed(list, h, r)
  <2>1. r[1] \in 0..Len(list) /\ r[2] \in 0..Len(list)   BY DEF Ranges
  <2>2. /\ Middle(r) \in Nat /\ r[1] <= Middle(r) /\ Middle(r) < r[2]
        /\ q \in R /\ Wide(q, n)
    BY <1>0, NarrowedIsNarrower
  <2>3. s[r] = s[q]   BY <1>3, <2>1 DEF SearchBody
  <2>4. q[1] <= q[2]   BY <2>1, <2>2 DEF Narrowed
  <2>5. Brackets(list, h, q)   BY NarrowedBrackets
  <2> HIDE DEF q, R
  <2> QED  BY <1>6, <2>2, <2>3, <2>4, <2>5
<1> HIDE DEF P
<1>7. Nat \subseteq P   BY <1>5, <1>6, EveryNumber
<1>8. all \in R /\ all[1] <= all[2] /\ Wide(all, Len(list)) /\ Brackets(list, h, all)
  BY <1>0 DEF Ranges, Wide, Brackets
<1>9. Len(list) \in P   BY <1>0, <1>7
<1> HIDE DEF all, R
<1>10. Splits(list, h, s[all])   BY <1>8, <1>9 DEF P
<1> QED  BY <1>1, <1>10 DEF Splits

-----------------------------------------------------------------------------
(* The ring.                                                               *)

\* Two points at the same distance from a hash are the same point.
LEMMA DistanceIsInjective ==
    ASSUME NEW h \in Hashes, NEW p \in Hashes, NEW q \in Hashes,
           Distance(h, p) = Distance(h, q)
    PROVE  p = q
  <1>1. Size \in Nat
    BY RingAssumption
  <1>. QED
    BY <1>1, SMT DEF Distance, Hashes

\* Distances are natural numbers, so that they can be compared.
LEMMA DistanceIsNatural ==
    ASSUME NEW h \in Hashes, NEW p \in Hashes
    PROVE  Distance(h, p) \in Nat
  <1>1. Size \in Nat
    BY RingAssumption
  <1>. QED
    BY <1>1, SMT DEF Distance, Hashes

\* A hash has at most one owner.
LEMMA OwnerIsUnique ==
    ASSUME NEW S \in SUBSET Hashes, NEW h \in Hashes, NEW p, NEW q,
           IsOwner(S, h, p), IsOwner(S, h, q)
    PROVE  p = q
  <1>1. p \in Hashes /\ q \in Hashes
    BY DEF IsOwner
  <1>2. Distance(h, p) <= Distance(h, q) /\ Distance(h, q) <= Distance(h, p)
    BY DEF IsOwner
  <1>3. Distance(h, p) \in Nat /\ Distance(h, q) \in Nat
    BY <1>1, DistanceIsNatural
  <1>4. Distance(h, p) = Distance(h, q)
    BY <1>2, <1>3, SMT
  <1>. QED
    BY <1>1, <1>4, DistanceIsInjective

\* Owner is the owner, once there is one.
LEMMA OwnerIs ==
    ASSUME NEW S \in SUBSET Hashes, NEW h \in Hashes, NEW p, IsOwner(S, h, p)
    PROVE  Owner(S, h) = p
  <1>1. p \in S
    BY DEF IsOwner
  <1>2. IsOwner(S, h, Owner(S, h))
    BY <1>1 DEF Owner
  <1>. QED
    BY <1>2, OwnerIsUnique

\* remove_node (cache_common.py:339-346): a hash keeps its owner unless the owner
\* itself is among the removed points R.
THEOREM RemovalMovesOnlyItsKeys ==
    ASSUME NEW S \in SUBSET Hashes, NEW R, NEW h \in Hashes, NEW p,
           IsOwner(S, h, p), p \notin R
    PROVE  Owner(S \ R, h) = Owner(S, h)
  <1>1. S \ R \in SUBSET Hashes
    OBVIOUS
  <1>2. IsOwner(S \ R, h, p)
    BY DEF IsOwner
  <1>3. Owner(S \ R, h) = p
    BY <1>1, <1>2, OwnerIs
  <1>4. Owner(S, h) = p
    BY OwnerIs
  <1>. QED
    BY <1>3, <1>4

\* add_node (cache_common.py:329-337): a hash keeps its owner or moves to one of the
\* points A that were added.
THEOREM AdditionMovesKeysToItself ==
    ASSUME NEW S \in SUBSET Hashes, NEW A \in SUBSET Hashes, NEW h \in Hashes,
           NEW p, IsOwner(S, h, p), NEW q, IsOwner(S \cup A, h, q)
    PROVE  Owner(S \cup A, h) = Owner(S, h) \/ Owner(S \cup A, h) \in A
  <1>1. Owner(S \cup A, h) = q
    BY OwnerIs
  <1>2. CASE q \in A
    BY <1>1, <1>2
  <1>3. CASE q \notin A
    <2>1. IsOwner(S, h, q)
      BY <1>3 DEF IsOwner
    <2>. QED
      BY <1>1, <2>1, OwnerIs
  <1>. QED
    BY <1>2, <1>3

-----------------------------------------------------------------------------
\* Every point of a node is a hash.
LEMMA PointsAreHashes ==
    ASSUME NEW N \in SUBSET CacheNodes
    PROVE  PointsOf(N) \in SUBSET Hashes
  <1>1. \A x \in N \X Virtual : x \in CacheNodes \X Virtual
    OBVIOUS
  <1>. QED
    BY <1>1, RingAssumption DEF PointsOf

\* A point belongs to one node: remove_node takes no point of another node along.
LEMMA PointsAreDisjoint ==
    ASSUME NEW N \in SUBSET CacheNodes, NEW M \in SUBSET CacheNodes
    PROVE  PointsOf(N \ M) = PointsOf(N) \ PointsOf(M)
  <1>1. ASSUME NEW p \in PointsOf(N \ M)
        PROVE  p \in PointsOf(N) \ PointsOf(M)
    <2>1. PICK n \in N \ M, i \in Virtual : p = PointOf[<<n, i>>]
      BY <1>1 DEF PointsOf
    <2>2. p \in PointsOf(N)
      BY <2>1 DEF PointsOf
    <2>3. ASSUME p \in PointsOf(M) PROVE FALSE
      <3>1. PICK m \in M, j \in Virtual : p = PointOf[<<m, j>>]
        BY <2>3 DEF PointsOf
      <3>2. <<n, i>> = <<m, j>>
        BY <2>1, <3>1, RingAssumption
      <3>. QED
        BY <2>1, <3>1, <3>2
    <2>. QED
      BY <2>2, <2>3
  <1>2. ASSUME NEW p \in PointsOf(N) \ PointsOf(M)
        PROVE  p \in PointsOf(N \ M)
    <2>1. PICK n \in N, i \in Virtual : p = PointOf[<<n, i>>]
      BY <1>2 DEF PointsOf
    <2>2. n \notin M
      BY <1>2, <2>1 DEF PointsOf
    <2>. QED
      BY <2>1, <2>2 DEF PointsOf
  <1>. QED
    BY <1>1, <1>2

\* remove_node, in terms of nodes: a layer whose owner is not a point of the removed
\* node n stays on its node.
THEOREM OtherNodesKeepTheirLayers ==
    ASSUME NEW N \in SUBSET CacheNodes, NEW n \in N, NEW l \in Layers,
           NEW p, IsOwner(PointsOf(N), HashOf[l], p), p \notin PointsOf({n})
    PROVE  NodeAt(Owner(PointsOf(N \ {n}), HashOf[l]))
               = NodeAt(Owner(PointsOf(N), HashOf[l]))
  <1>1. PointsOf(N) \in SUBSET Hashes /\ HashOf[l] \in Hashes
    BY PointsAreHashes, RingAssumption
  <1>2. PointsOf(N \ {n}) = PointsOf(N) \ PointsOf({n})
    BY PointsAreDisjoint
  <1>3. Owner(PointsOf(N) \ PointsOf({n}), HashOf[l]) = Owner(PointsOf(N), HashOf[l])
    BY <1>1, RemovalMovesOnlyItsKeys
  <1>. QED
    BY <1>2, <1>3

-----------------------------------------------------------------------------
\* get_node (cache_common.py:348-355): on a list of keys in ascending order, bisect_right
\* and the wrap to 0 past the end lead to the owner of h.
THEOREM BisectionFindsOwner ==
    ASSUME NEW s \in Seq(Hashes), s # << >>, NEW h \in Hashes, Ascending(s)
    PROVE  s[Wrapped(s, BisectRight(s, h))] = Owner(Range(s), h)
  <1>. DEFINE S == Range(s)
              idx == BisectRight(s, h)
              w == Wrapped(s, idx)
  <1>1. Len(s) \in Nat \ {0} /\ Hashes \subseteq Nat /\ s \in Seq(Nat)
    <2>1. Hashes \subseteq Nat
      BY RingAssumption DEF Hashes
    <2>2. s \in Seq(Nat)
      BY <2>1, ListOfNumbers
    <2>. QED
      BY <2>1, <2>2
  <1>0. idx \in 0..Len(s) /\ \A i \in 1..Len(s) : i <= idx <=> s[i] <= h
    BY <1>1, BisectRightSplits DEF Ascending
  <1>. HIDE DEF idx
  <1>2. w \in 1..Len(s)
    BY <1>0, <1>1 DEF Wrapped
  <1>3. S \in SUBSET Hashes /\ s[w] \in S
    BY <1>2 DEF Range
  <1>4. ASSUME NEW i \in 1..Len(s)
        PROVE  Distance(h, s[w]) <= Distance(h, s[i])
    <2>. DEFINE a == s[w]
                b == s[i]
    <2>1. a \in 0..(Size - 1) /\ b \in 0..(Size - 1) /\ h \in 0..(Size - 1) /\ Size \in Nat
      BY <1>2, <1>4, RingAssumption DEF Hashes
    <2>2. w <= i => a <= b
      <3>1. w < i => a <= b
        BY <1>2, <1>4 DEF Ascending
      <3>. QED
        BY <1>2, <1>4, <2>1, <3>1
    <2>3. i <= idx <=> b <= h
      BY <1>0, <1>4
    <2>4. w <= idx <=> a <= h
      BY <1>0, <1>2
    <2>5. CASE idx = Len(s)
      <3>1. w = 1 /\ w <= i /\ i <= idx /\ w <= idx
        BY <1>0, <1>1, <1>4, <2>5 DEF Wrapped
      <3>2. a <= b /\ b <= h /\ a <= h
        BY <2>2, <2>3, <2>4, <3>1
      <3>. HIDE DEF a, b
      <3>. QED
        BY <2>1, <3>2 DEF Distance, a, b
    <2>6. CASE idx # Len(s)
      <3>1. w = idx + 1
        BY <2>6 DEF Wrapped
      <3>2. ~(a <= h)
        BY <1>0, <2>4, <3>1
      <3>3. (i <= idx) \/ (w <= i)
        BY <1>0, <1>4, <3>1
      <3>4. b <= h \/ a <= b
        BY <2>2, <2>3, <3>3
      <3>. HIDE DEF a, b
      <3>. QED
        BY <2>1, <3>2, <3>4 DEF Distance, a, b
    <2>. QED
      BY <2>5, <2>6
  <1>5. IsOwner(S, h, s[w])
    BY <1>3, <1>4 DEF IsOwner, Range
  <1>6. Owner(S, h) = s[w]
    BY <1>3, <1>5, OwnerIs
  <1>. QED
    BY <1>6 DEF idx

-----------------------------------------------------------------------------
(* The invariant of the client.                                            *)

Points == PointsOf(CacheNodes)
Cells == CacheNodes \X Virtual

CallerState == [pc: CallerPc, layer: Layers \cup {None}, node: CacheNodes \cup {None},
                tried: SUBSET CacheNodes, at: Nat, sorted: Seq(Points),
                left: SUBSET CacheNodes, failed: SUBSET CacheNodes]
Outcome == [how: {"none", "hit", "miss", "unreachable", "raised", "stored", "error"},
            layer: Layers \cup {None}]

\* What the variables hold, and what a step can rely on in the thread it is taken by.
Typed ==
    /\ nodes \subseteq CacheNodes /\ ring \subseteq Points /\ keys \in Seq(Points)
    /\ caller \in CallerState /\ checks \in [Checks -> Thread] /\ last \in Outcome
    /\ reachable \subseteq CacheNodes /\ holds \in [CacheNodes -> SUBSET Layers]
    /\ promised \subseteq Layers /\ missed \subseteq CacheNodes
    /\ calls \in 0..MaxCalls /\ downs \in 0..MaxDowns
    /\ caller.pc # "idle" => caller.layer \in Layers
    /\ caller.pc \in {"request", "schedule"} \cup Removing => caller.node \in CacheNodes
    /\ caller.pc = "pop" => caller.at \in Virtual
    /\ \A t \in Checks : /\ checks[t].pc = "free" <=> checks[t].node = None
                         /\ checks[t].pc \in Looking => checks[t].at = 0
                         /\ checks[t].pc \in {"point", "append"} => checks[t].at \in Virtual

\* Every cache node holds what is promised, and what the put in progress has sent it.
Stored ==
    /\ \A l \in promised : \A n \in CacheNodes : l \in holds[n]
    /\ caller.pc = "put" =>
          \A n \in CacheNodes \ (caller.left \cup caller.failed) : caller.layer \in holds[n]
    /\ StoredIsHit

\* The thread t is adding the node of x; it has put x on the ring; it has listed x in keys.
Adds(t, x) == checks[t].pc \in Adding /\ checks[t].node = x[1]
OnRingBy(t, x) ==
    /\ Adds(t, x)
    /\ \/ checks[t].pc = "point" /\ x[2] < checks[t].at
       \/ checks[t].pc = "append" /\ x[2] <= checks[t].at
       \/ checks[t].pc = "sort"
InKeysBy(t, x) == Adds(t, x) /\ (checks[t].pc = "sort" \/ x[2] < checks[t].at)
ToBePopped(x) == caller.pc = "pop" /\ caller.node = x[1] /\ x[2] >= caller.at

\* As long as no addition overlapped a removal, ring and keys are what the nodes and the
\* threads in the middle of a change say; several of these may be adding the same node.
RingInv ==
    ~overlapped =>
        /\ \A t \in Checks : checks[t].pc \in Adding => checks[t].node \in nodes
        /\ caller.pc \in Removing => caller.node \notin nodes /\ ~BeingAdded
        /\ \A x \in Cells :
              /\ PointOf[x] \in ring => x[1] \in nodes \/ ToBePopped(x)
              /\ x[1] \in nodes \/ ToBePopped(x) =>
                    PointOf[x] \in ring \/ \E t \in Checks : Adds(t, x)
              /\ \A t \in Checks : OnRingBy(t, x) => PointOf[x] \in ring
        /\ caller.pc \notin Removing =>
              /\ \A x \in Cells :
                    /\ PointOf[x] \in Range(keys) => x[1] \in nodes
                    /\ x[1] \in nodes =>
                          PointOf[x] \in Range(keys) \/ \E t \in Checks : Adds(t, x)
                    /\ \A t \in Checks : InKeysBy(t, x) => PointOf[x] \in Range(keys)
              /\ ~BeingAdded => Ascending(keys)
        /\ caller.pc = "assign" =>
              /\ \A x \in Cells : PointOf[x] \in Range(caller.sorted) <=> x[1] \in nodes
              /\ Ascending(caller.sorted)

\* A lookup that nothing disturbs has no node left on the ring that it tried.
LookupInv ==
    /\ BeingAdded => disturbed
    /\ ~overlapped /\ ~disturbed =>
          /\ caller.pc \in {"route", "pick", "schedule"} \cup Removing => caller.tried \cap nodes = {}
          /\ caller.pc = "request" => caller.tried \cap nodes \subseteq {caller.node}
          /\ caller.pc = "pick" => keys # << >> /\ caller.at \in 0..Len(keys)
    /\ NeverBlocked

ClientInv == Typed /\ AbsentHasCause /\ Stored /\ RingInv /\ LookupInv

-----------------------------------------------------------------------------
LEMMA PointsAreNumbers == Points \subseteq Hashes /\ Hashes \subseteq Nat /\ IsFiniteSet(Points)
<1>1. Points \subseteq Hashes   BY PointsAreHashes DEF Points
<1>2. Hashes \subseteq Nat   BY RingAssumption DEF Hashes
<1>3. IsFiniteSet(Hashes)   BY RingAssumption, FS_Interval DEF Hashes
<1> QED  BY <1>1, <1>2, <1>3, FS_Subset

LEMMA SortedPoints ==
    ASSUME NEW s \in Seq(Points)
    PROVE  Sorted(s) \in Seq(Points) /\ Range(Sorted(s)) = Range(s) /\ Ascending(Sorted(s))
<1>1. s \in Seq(Nat)   BY PointsAreNumbers, ListOfNumbers
<1>2. Range(s) \subseteq Points   BY DEF Range
<1> QED  BY <1>1, <1>2, SortedIsSorted DEF Ascending

LEMMA ListedPoints ==
    ASSUME NEW S, S \subseteq Points
    PROVE  LET s == Sorted(SetToSeq(S))
           IN  s \in Seq(Points) /\ Range(s) = S /\ Ascending(s)
<1>1. IsFiniteSet(S)   BY PointsAreNumbers, FS_Subset
<1>2. SetToSeq(S) \in Seq(S) /\ Range(SetToSeq(S)) = S   BY <1>1, ListOfSet
<1>3. SetToSeq(S) \in Seq(Points)   BY <1>2
<1> QED  BY <1>2, <1>3, SortedPoints

LEMMA PointOfCell ==
    /\ \A x \in Cells : PointOf[x] \in Points /\ NodeAt(PointOf[x]) = x[1] /\ x[1] \in CacheNodes
    /\ \A p \in Points : \E x \in Cells : p = PointOf[x]
    /\ \A x, y \in Cells : PointOf[x] = PointOf[y] => x = y
    /\ \A n \in CacheNodes, i \in Virtual : <<n, i>> \in Cells
<1>1. \A x \in Cells : PointOf[x] \in Points /\ x[1] \in CacheNodes   BY DEF Points, PointsOf, Cells
<1>2. ASSUME NEW x \in Cells PROVE NodeAt(PointOf[x]) = x[1]
  <2>1. PointOf[x] \in PointsOf({x[1]})   BY DEF PointsOf, Cells
  <2>2. \A n \in CacheNodes : PointOf[x] \in PointsOf({n}) => n = x[1]
    <3> TAKE n \in CacheNodes
    <3> HAVE PointOf[x] \in PointsOf({n})
    <3>1. PICK y \in {n} \X Virtual : PointOf[x] = PointOf[y]   BY DEF PointsOf
    <3>2. x = y   BY <3>1, RingAssumption DEF Cells
    <3> QED  BY <3>2
  <2> QED  BY <1>1, <2>1, <2>2 DEF NodeAt
<1>3. \A p \in Points : \E x \in Cells : p = PointOf[x]   BY DEF Points, PointsOf, Cells
<1>4. \A x, y \in Cells : PointOf[x] = PointOf[y] => x = y   BY RingAssumption DEF Cells
<1>5. \A n \in CacheNodes, i \in Virtual : <<n, i>> \in Cells   BY DEF Cells
<1> QED  BY <1>1, <1>2, <1>3, <1>4, <1>5

-----------------------------------------------------------------------------
LEMMA InitTyped == Init => Typed
<1> SUFFICES ASSUME Init PROVE Typed   OBVIOUS
<1>1. ring \subseteq Points /\ keys \in Seq(Points)   BY ListedPoints DEF Init, Points
<1> QED  BY <1>1, ClientAssumption
         DEF Init, Typed, CallerState, CallerPc, Outcome, Thread, Free, Removing, Adding, Looking

LEMMA CallsTyped ==
    ASSUME Typed, NEW l \in Layers, GetLayerScan(l) \/ PutLayerScan(l)   PROVE Typed'
<1>1. PICK pc \in {"route", "put"} : Begin(l, pc)   BY DEF GetLayerScan, PutLayerScan
<1>2. caller' \in CallerState /\ caller'.layer = l /\ caller'.pc = pc
  BY <1>1 DEF Begin, CallerState, CallerPc
<1>3. last' \in Outcome /\ calls' \in 0..MaxCalls
  BY <1>1, ClientAssumption DEF Begin, Outcome, Typed
<1> QED  BY <1>1, <1>2, <1>3 DEF Begin, Typed, ringVars, world, Removing

LEMMA LookupTyped ==
    ASSUME Typed, Route \/ Pick \/ Answered   PROVE Typed'
<1>1. CASE Route
  <2>1. BisectRight(keys, HashOf[caller.layer]) \in Nat
    <3>1. keys \in Seq(Nat) /\ HashOf[caller.layer] \in Nat
      BY <1>1, PointsAreNumbers, RingAssumption DEF Typed, Route
    <3>2. BisectRight(keys, HashOf[caller.layer]) \in 0..Len(keys)
      BY <3>1, BisectRightSplits, Zenon
    <3> QED  BY <3>1, <3>2
  <2>2. caller' \in CallerState /\ caller'.pc \in {"idle", "pick"} /\ caller'.layer = caller.layer
    <3>1. CASE ring = {}
      <4>1. Go("idle")   BY <1>1, <3>1 DEF Route, End
      <4> QED  BY <4>1 DEF Typed, Go, CallerState, CallerPc
    <3>2. CASE ring # {}
      <4>1. caller' = [caller EXCEPT !.pc = "pick", !.at = BisectRight(keys, HashOf[caller.layer])]
        BY <1>1, <3>2 DEF Route
      <4> QED  BY <2>1, <4>1 DEF Typed, CallerState, CallerPc
    <3> QED  BY <3>1, <3>2
  <2>3. last' \in Outcome   BY <1>1 DEF Typed, Route, End, CallerState, Outcome
  <2>4. UNCHANGED <<ringVars, checks, missed, calls, world>>   BY <1>1 DEF Route, End
  <2>5. caller.layer \in Layers   BY <1>1 DEF Typed, Route
  <2> QED  BY <2>2, <2>3, <2>4, <2>5 DEF Typed, ringVars, world, Removing
<1>2. CASE Pick
  <2> DEFINE k == keys[Wrapped(keys, caller.at)]
  <2>1. ~ Raises(caller.at) => NodeAt(k) \in CacheNodes
    BY PointOfCell DEF Raises, Typed
  <2> HIDE DEF k
  <2>2. /\ caller' \in CallerState /\ caller'.layer = caller.layer
        /\ \/ caller'.pc = "idle"
           \/ caller'.pc = "request" /\ caller'.node \in CacheNodes
    <3>1. CASE Raises(caller.at) \/ NodeAt(k) \in caller.tried
      <4>1. Go("idle")   BY <1>2, <3>1 DEF Pick, End, k
      <4> QED  BY <4>1 DEF Typed, Go, CallerState, CallerPc
    <3>2. CASE ~ (Raises(caller.at) \/ NodeAt(k) \in caller.tried)
      <4>1. caller' = [caller EXCEPT !.pc = "request", !.node = NodeAt(k), !.tried = @ \cup {NodeAt(k)}]
        BY <1>2, <3>2 DEF Pick, k
      <4>2. NodeAt(k) \in CacheNodes   BY <2>1, <3>2
      <4> QED  BY <4>1, <4>2 DEF Typed, CallerState, CallerPc
    <3> QED  BY <3>1, <3>2
  <2>3. last' \in Outcome   BY <1>2 DEF Typed, Pick, End, CallerState, Outcome
  <2>4. UNCHANGED <<ringVars, checks, missed, calls, world>>   BY <1>2 DEF Pick, End
  <2>5. caller.layer \in Layers   BY <1>2 DEF Typed, Pick
  <2> QED  BY <2>2, <2>3, <2>4, <2>5 DEF Typed, ringVars, world, Removing
<1>3. CASE Answered
  BY <1>3 DEF Typed, Answered, End, Go, CallerState, CallerPc, Outcome, ringVars, world, Removing
<1> QED  BY <1>1, <1>2, <1>3

LEMMA RemovalTyped ==
    ASSUME Typed, RequestFails \/ PopPoint \/ Rebuild \/ Assign   PROVE Typed'
<1>1. CASE RequestFails
  <2>1. /\ caller' \in CallerState /\ caller'.layer = caller.layer /\ caller'.node = caller.node
        /\ caller'.pc \in {"pop", "schedule"} /\ caller'.at = 0
    BY <1>1 DEF Typed, RequestFails, CallerState, CallerPc, Removing
  <2>2. 0 \in Virtual   BY RingAssumption DEF Virtual
  <2>3. caller.layer \in Layers /\ caller.node \in CacheNodes   BY <1>1 DEF Typed, RequestFails
  <2> QED  BY <1>1, <2>1, <2>2, <2>3 DEF Typed, RequestFails, world
<1>2. CASE PopPoint
  <2>1. /\ caller' \in CallerState /\ caller'.layer = caller.layer /\ caller'.node = caller.node
        /\ \/ caller'.pc = "rebuild"
           \/ caller'.pc = "pop" /\ caller'.at \in Virtual
    <3>1. caller.at \in Nat /\ caller.at <= Replicas - 1   BY <1>2, RingAssumption DEF Typed, PopPoint, Virtual
    <3>2. CASE caller.at = Replicas - 1
      BY <1>2, <3>2 DEF Typed, PopPoint, CallerState, CallerPc, Removing
    <3>3. CASE caller.at # Replicas - 1
      <4>1. caller' = [caller EXCEPT !.at = @ + 1] /\ caller.pc = "pop"   BY <1>2, <3>3 DEF PopPoint
      <4>2. caller.at + 1 \in Virtual   BY <3>1, <3>3, RingAssumption DEF Virtual
      <4>3. caller.at + 1 \in Nat   BY <3>1
      <4>4. caller' \in CallerState   BY <4>1, <4>3 DEF Typed, CallerState
      <4>5. /\ caller'.layer = caller.layer /\ caller'.node = caller.node
            /\ caller'.pc = "pop" /\ caller'.at = caller.at + 1
        BY <4>1 DEF Typed, CallerState
      <4> QED  BY <4>2, <4>4, <4>5
    <3> QED  BY <3>2, <3>3
  <2>2. caller.layer \in Layers /\ caller.node \in CacheNodes
    BY <1>2 DEF Typed, PopPoint, Removing
  <2> QED  BY <1>2, <2>1, <2>2 DEF Typed, PopPoint, world
<1>3. CASE Rebuild
  <2>1. Sorted(SetToSeq(ring)) \in Seq(Points)   BY ListedPoints DEF Typed
  <2> QED  BY <1>3, <2>1 DEF Typed, Rebuild, CallerState, CallerPc, ringVars, world, Removing
<1>4. CASE Assign
  BY <1>4 DEF Typed, Assign, Go, CallerState, CallerPc, world, Removing
<1> QED  BY <1>1, <1>2, <1>3, <1>4

LEMMA ScheduleTyped == ASSUME Typed, Schedule PROVE Typed'
<1>1. PICK t \in Checks :
         /\ checks[t].pc = "free"
         /\ checks' = [checks EXCEPT ![t] = [pc |-> "asleep", node |-> caller.node, at |-> 0]]
  BY DEF Schedule
<1>2. caller.node \in CacheNodes /\ caller.layer \in Layers /\ caller.node # None
  BY ClientAssumption DEF Typed, Schedule
<1>3. /\ checks' \in [Checks -> Thread]
      /\ \A u \in Checks : \/ checks'[u] = checks[u]
                          \/ /\ checks'[u].pc = "asleep" /\ checks'[u].at = 0
                             /\ checks'[u].node = caller.node
  BY <1>1, <1>2 DEF Typed, Thread, Looking
<1>4. caller' \in CallerState /\ caller'.layer = caller.layer /\ caller'.pc \in {"idle", "route"}
  BY DEF Typed, Schedule, NextRound, Go, CallerState, CallerPc
<1>5. last' \in Outcome   BY DEF Typed, Schedule, Outcome
<1> QED  BY <1>2, <1>3, <1>4, <1>5 DEF Typed, Schedule, ringVars, world, Removing

LEMMA PutTyped ==
    ASSUME Typed, PutEnds \/ \E n \in CacheNodes : PutToNode(n) \/ GoesDown(n) \/ ComesBack(n)
    PROVE  Typed'
<1>1. CASE PutEnds
  BY <1>1 DEF Typed, PutEnds, End, Go, CallerState, CallerPc, Outcome, ringVars, Removing
<1>2. ASSUME NEW n \in CacheNodes, PutToNode(n) PROVE Typed'
  BY <1>2 DEF Typed, PutToNode, PutTargets, CallerState, CallerPc, ringVars, Removing
<1>3. ASSUME NEW n \in CacheNodes, GoesDown(n) PROVE Typed'
  <2>1. /\ caller' \in CallerState /\ caller'.pc = caller.pc /\ caller'.layer = caller.layer
        /\ caller'.node = caller.node /\ caller'.at = caller.at
    <3>1. caller' = caller \/ caller' = [caller EXCEPT !.failed = @ \cup {n}]
      BY <1>3, Zenon DEF GoesDown
    <3> QED  BY <3>1 DEF Typed, CallerState
  <2>2. holds' \in [CacheNodes -> SUBSET Layers] /\ promised' \subseteq Layers
    BY <1>3 DEF Typed, GoesDown
  <2>3. /\ UNCHANGED <<nodes, ring, keys, checks, last, missed, calls>>
        /\ reachable' \subseteq CacheNodes /\ downs' \in 0..MaxDowns
    BY <1>3, ClientAssumption DEF Typed, GoesDown, ringVars
  <2> QED  BY <2>1, <2>2, <2>3 DEF Typed
<1>4. ASSUME NEW n \in CacheNodes, ComesBack(n) PROVE Typed'
  BY <1>4 DEF Typed, ComesBack, ringVars
<1> QED  BY <1>1, <1>2, <1>3, <1>4

LEMMA ThreadTyped ==
    ASSUME Typed, NEW t \in Checks,
           Wake(t) \/ IsMember(t) \/ Enter(t) \/ AddPoint(t) \/ AppendKey(t) \/ SortKeys(t)
    PROVE  Typed'
<1>0. None \notin CacheNodes   BY ClientAssumption
<1>1. CASE Wake(t)
  BY <1>0, <1>1 DEF Typed, Wake, Thread, Free, Looking, Adding, ringVars, world
<1>5. CASE IsMember(t)
  BY <1>0, <1>5 DEF Typed, IsMember, Thread, Free, Looking, Adding, ringVars, world
<1>6. CASE Enter(t)
  <2>1. checks[t].node \in CacheNodes /\ checks[t].at = 0   BY <1>6 DEF Typed, Enter, Thread, Looking
  <2> QED  BY <1>6, <2>1, RingAssumption DEF Typed, Enter, Thread, Looking, Adding, world, Virtual
<1>2. CASE AddPoint(t)
  <2>1. PointOf[<<checks[t].node, checks[t].at>>] \in Points
    <3>1. checks[t].pc \in {"point", "append"}   BY <1>2 DEF AddPoint
    <3>2. checks[t].node \in CacheNodes /\ checks[t].at \in Virtual
      BY <3>1 DEF Typed, Thread
    <3> QED  BY <3>2, PointOfCell
  <2> QED  BY <1>2, <2>1 DEF Typed, AddPoint, Thread, Looking, Adding, world
<1>3. CASE AppendKey(t)
  <2>1. PointOf[<<checks[t].node, checks[t].at>>] \in Points
    <3>1. checks[t].pc \in {"point", "append"}   BY <1>3 DEF AppendKey
    <3>2. checks[t].node \in CacheNodes /\ checks[t].at \in Virtual
      BY <3>1 DEF Typed, Thread
    <3> QED  BY <3>2, PointOfCell
  <2> QED  BY <1>3, <2>1, RingAssumption DEF Typed, AppendKey, Thread, Looking, Adding, world, Virtual
<1>4. CASE SortKeys(t)
  BY <1>0, <1>4, SortedPoints DEF Typed, SortKeys, Thread, Free, Looking, Adding, world
<1> QED  BY <1>1, <1>2, <1>3, <1>4, <1>5, <1>6

LEMMA StepTyped == Typed /\ [Next]_vars => Typed'
<1> SUFFICES ASSUME Typed, [Next]_vars PROVE Typed'   OBVIOUS
<1>1. CASE UNCHANGED vars   BY <1>1 DEF vars, ringVars, world, Typed
<1>2. CASE Next
  BY <1>2, CallsTyped, LookupTyped, RemovalTyped, ScheduleTyped, PutTyped, ThreadTyped DEF Next
<1> QED  BY <1>1, <1>2

-----------------------------------------------------------------------------
Cause(n) ==
    \/ n \in missed
    \/ \E t \in Checks : checks[t].pc \in Looking /\ checks[t].node = n
    \/ caller.node = n /\ caller.pc \in Removing \cup {"schedule"}

LEMMA StepKeepsCause == Typed /\ AbsentHasCause /\ [Next]_vars => AbsentHasCause'
<1> SUFFICES ASSUME Typed, AbsentHasCause, [Next]_vars, NEW m \in CacheNodes \ nodes'
             PROVE  Cause(m)'
  BY DEF AbsentHasCause, Cause
<1>0. m \notin nodes => Cause(m)   BY DEF AbsentHasCause, Cause
<1>1. CASE UNCHANGED vars   BY <1>0, <1>1 DEF vars, ringVars, Cause
<1>2. ASSUME NEW l \in Layers, GetLayerScan(l) \/ PutLayerScan(l)   PROVE Cause(m)'
  BY <1>0, <1>2 DEF Cause, GetLayerScan, PutLayerScan, Begin, ringVars, Removing
<1>3. CASE Route \/ Pick \/ Answered \/ PutEnds
  <2>1. UNCHANGED <<nodes, checks, missed>> /\ caller.pc \in {"route", "pick", "request", "put"}
    BY <1>3 DEF Route, Pick, Answered, PutEnds, End, ringVars
  <2> QED  BY <1>0, <2>1 DEF Cause, Removing
<1>4. CASE RequestFails
  <2>1. CASE m = caller.node
    BY <1>4, <2>1 DEF RequestFails, Cause, Typed, CallerState, Removing
  <2>2. CASE m # caller.node
    <3>1. Cause(m)   BY <1>0, <1>4, <2>2 DEF RequestFails
    <3> QED  BY <1>4, <3>1 DEF RequestFails, Cause, Removing
  <2> QED  BY <2>1, <2>2
<1>5. CASE PopPoint \/ Rebuild \/ Assign
  <2>1. /\ UNCHANGED <<nodes, checks, missed>> /\ caller'.node = caller.node
        /\ caller'.pc \in Removing \cup {"schedule"}
    BY <1>5 DEF PopPoint, Rebuild, Assign, Go, ringVars, Typed, CallerState, Removing
  <2> QED  BY <1>0, <2>1 DEF Cause
<1>6. CASE Schedule
  <2>1. PICK t \in Checks :
           /\ checks[t].pc = "free"
           /\ checks' = [checks EXCEPT ![t] = [pc |-> "asleep", node |-> caller.node, at |-> 0]]
    BY <1>6 DEF Schedule
  <2>2. checks'[t].pc \in Looking /\ checks'[t].node = caller.node   BY <2>1 DEF Typed, Looking
  <2>3. \A u \in Checks : checks[u].pc \in Looking => checks'[u] = checks[u]
    BY <2>1 DEF Typed, Looking
  <2>4. CASE m = caller.node   BY <2>2, <2>4 DEF Cause
  <2>5. CASE m # caller.node
    BY <1>0, <1>6, <2>3, <2>5 DEF Cause, Schedule, ringVars
  <2> QED  BY <2>4, <2>5
<1>7. ASSUME NEW n \in CacheNodes, PutToNode(n) \/ GoesDown(n) \/ ComesBack(n)   PROVE Cause(m)'
  <2>1. /\ UNCHANGED <<nodes, checks, missed>>
        /\ caller'.node = caller.node /\ caller'.pc = caller.pc
    BY <1>7 DEF PutToNode, GoesDown, ComesBack, ringVars, Typed, CallerState
  <2> QED  BY <1>0, <2>1 DEF Cause
<1>8. ASSUME NEW t \in Checks, Wake(t) \/ IsMember(t) \/ Enter(t)   PROVE Cause(m)'
  <2>1. /\ UNCHANGED caller /\ missed \subseteq missed' /\ nodes \subseteq nodes'
        /\ \A u \in Checks : u # t => checks'[u] = checks[u]
    BY <1>8 DEF Wake, IsMember, Enter, ringVars, Typed
  <2>2. Cause(m)   BY <1>0, <2>1
  <2>3. CASE m # checks[t].node   BY <2>1, <2>2, <2>3 DEF Cause
  <2>4. CASE m = checks[t].node
    <3>1. \/ m \in missed'
          \/ checks'[t].pc \in Looking /\ checks'[t].node = m
      <4>1. CASE Wake(t)   BY <2>4, <4>1 DEF Wake, Looking, Typed
      <4>2. CASE IsMember(t)   BY <2>1, <2>4, <4>2 DEF IsMember, Looking, Typed
      <4>3. CASE Enter(t)   BY <2>4, <4>3 DEF Enter
      <4> QED  BY <1>8, <4>1, <4>2, <4>3
    <3> QED  BY <3>1 DEF Cause
  <2> QED  BY <2>3, <2>4
<1>9. ASSUME NEW t \in Checks, AddPoint(t) \/ AppendKey(t) \/ SortKeys(t)   PROVE Cause(m)'
  <2>1. /\ UNCHANGED <<nodes, missed, caller>>
        /\ \A u \in Checks : checks[u].pc \in Looking => checks'[u] = checks[u]
    BY <1>9 DEF AddPoint, AppendKey, SortKeys, Typed, Looking
  <2> QED  BY <1>0, <2>1 DEF Cause
<1> QED  BY <1>1, <1>2, <1>3, <1>4, <1>5, <1>6, <1>7, <1>8, <1>9 DEF Next

-----------------------------------------------------------------------------
LEMMA RouteEffect ==
    ASSUME Typed, Route
    PROVE  /\ UNCHANGED <<ringVars, checks, world, missed, disturbed, overlapped>>
           /\ \/ ring = {} /\ caller'.pc = "idle" /\ last'.how = "unreachable"
              \/ /\ ring # {} /\ UNCHANGED last /\ caller'.pc = "pick"
                 /\ caller'.at = BisectRight(keys, HashOf[caller.layer])
                 /\ caller'.tried = caller.tried
<1>1. CASE ring = {}   BY <1>1 DEF Route, End, Go, Typed, CallerState
<1>2. CASE ring # {}
  <2> DEFINE idx == BisectRight(keys, HashOf[caller.layer])
  <2>1. /\ caller' = [caller EXCEPT !.pc = "pick", !.at = idx]
        /\ UNCHANGED <<ringVars, checks, world, missed, disturbed, overlapped, last>>
    BY <1>2 DEF Route
  <2> HIDE DEF idx
  <2>2. caller'.pc = "pick" /\ caller'.at = idx /\ caller'.tried = caller.tried
    BY <2>1 DEF Typed, CallerState
  <2> QED  BY <1>2, <2>1, <2>2 DEF idx
<1> QED  BY <1>1, <1>2

LEMMA PickEffect ==
    ASSUME Typed, Pick
    PROVE  LET n == NodeAt(keys[Wrapped(keys, caller.at)])
           IN  /\ UNCHANGED <<ringVars, checks, world, missed, disturbed, overlapped>>
               /\ \/ /\ Raises(caller.at) \/ n \in caller.tried
                     /\ caller'.pc = "idle" /\ last'.how \in {"unreachable", "raised"}
                  \/ /\ ~ Raises(caller.at) /\ n \notin caller.tried /\ UNCHANGED last
                     /\ caller'.pc = "request" /\ caller'.node = n
                     /\ caller'.tried = caller.tried \cup {n}
<1> DEFINE n == NodeAt(keys[Wrapped(keys, caller.at)])
<1>0. UNCHANGED <<ringVars, checks, world, missed, disturbed, overlapped>>
  BY DEF Pick, End
<1> HIDE DEF n
<1>1. CASE Raises(caller.at) \/ n \in caller.tried
  <2>1. Go("idle") /\ last'.how \in {"unreachable", "raised"}   BY <1>1 DEF Pick, End, n
  <2> QED  BY <1>0, <1>1, <2>1 DEF Go, Typed, CallerState, n
<1>2. CASE ~ (Raises(caller.at) \/ n \in caller.tried)
  <2>1. /\ caller' = [caller EXCEPT !.pc = "request", !.node = n, !.tried = @ \cup {n}]
        /\ UNCHANGED last
    BY <1>2 DEF Pick, n
  <2>2. caller'.pc = "request" /\ caller'.node = n /\ caller'.tried = caller.tried \cup {n}
    BY <2>1 DEF Typed, CallerState
  <2> QED  BY <1>0, <1>2, <2>1, <2>2 DEF n
<1> QED  BY <1>1, <1>2

-----------------------------------------------------------------------------
LEMMA StepKeepsStored == Typed /\ Stored /\ [Next]_vars => Stored'
<1> SUFFICES ASSUME Typed, Stored, [Next]_vars PROVE Stored'   OBVIOUS
<1>1. CASE UNCHANGED vars   BY <1>1 DEF vars, world, Stored, StoredIsHit
<1>2. ASSUME NEW l \in Layers, GetLayerScan(l) \/ PutLayerScan(l)   PROVE Stored'
  BY <1>2 DEF Stored, StoredIsHit, GetLayerScan, PutLayerScan, Begin, world
<1>3. CASE Route \/ Pick
  <2>1. /\ UNCHANGED <<holds, promised>> /\ caller'.pc # "put"
        /\ last' = last \/ last'.how \in {"unreachable", "raised"}
    BY <1>3, RouteEffect, PickEffect DEF world
  <2> QED  BY <2>1 DEF Stored, StoredIsHit
<1>4. CASE Answered
  <2>1. /\ UNCHANGED <<holds, promised>> /\ caller'.pc # "put" /\ caller.node \in CacheNodes
        /\ last'.how = "miss" => caller.layer \notin holds[caller.node]
        /\ last'.layer = caller.layer
    BY <1>4 DEF Answered, End, Go, world, Typed, CallerState
  <2> QED  BY <2>1 DEF Stored, StoredIsHit
<1>5. CASE RequestFails \/ PopPoint \/ Rebuild \/ Assign
  <2>1. UNCHANGED <<holds, promised, last>> /\ caller'.pc # "put"
    BY <1>5 DEF RequestFails, PopPoint, Rebuild, Assign, Go, world, Typed, CallerState
  <2> QED  BY <2>1 DEF Stored, StoredIsHit
<1>6. CASE Schedule
  <2>1. /\ UNCHANGED <<holds, promised>> /\ caller'.pc # "put"
        /\ last' = last \/ last'.how = "unreachable"
    BY <1>6 DEF Schedule, NextRound, Go, world, Typed, CallerState, Outcome
  <2> QED  BY <2>1 DEF Stored, StoredIsHit
<1>7. CASE PutEnds
  <2>1. /\ UNCHANGED holds /\ caller.pc = "put" /\ caller'.pc = "idle" /\ last'.how # "miss"
        /\ caller.left = {}
        /\ \/ promised' = promised
           \/ caller.failed = {} /\ promised' = promised \cup {caller.layer}
    <3>1. last'.how # "miss"   BY <1>7 DEF PutEnds, End
    <3>2. caller'.pc = "idle"   BY <1>7 DEF PutEnds, End, Go, Typed, CallerState
    <3> QED  BY <1>7, <3>1, <3>2 DEF PutEnds, PutTargets
  <2> QED  BY <2>1 DEF Stored, StoredIsHit
<1>8. ASSUME NEW n \in CacheNodes, PutToNode(n)   PROVE Stored'
  <2>1. /\ UNCHANGED <<promised, last>> /\ caller.pc = "put" /\ caller.layer \in Layers
        /\ caller'.pc = "put" /\ caller'.layer = caller.layer
        /\ caller'.left = caller.left \ {n}
    BY <1>8 DEF PutToNode, PutTargets, Typed, CallerState
  <2>2. CASE n \in reachable
    <3>1. /\ caller'.failed = caller.failed
          /\ holds' = [holds EXCEPT ![n] = @ \cup {caller.layer}]
      BY <1>8, <2>2 DEF PutToNode, Typed, CallerState
    <3>2. \A k \in CacheNodes : holds[k] \subseteq holds'[k]   BY <3>1 DEF Typed
    <3>3. caller.layer \in holds'[n]   BY <3>1 DEF Typed
    <3> QED  BY <2>1, <3>1, <3>2, <3>3 DEF Stored, StoredIsHit
  <2>3. CASE n \notin reachable
    <3>1. caller'.failed = caller.failed \cup {n} /\ holds' = holds
      BY <1>8, <2>3 DEF PutToNode, Typed, CallerState
    <3> QED  BY <2>1, <3>1 DEF Stored, StoredIsHit
  <2> QED  BY <2>2, <2>3
<1>9. ASSUME NEW n \in CacheNodes, GoesDown(n) \/ ComesBack(n)   PROVE Stored'
  <2>1. CASE UNCHANGED <<holds, promised, caller, last>>   BY <2>1 DEF Stored, StoredIsHit
  <2>2. CASE /\ GoesDown(n) /\ holds' = [holds EXCEPT ![n] = {}]
             /\ promised' = {} /\ caller' = [caller EXCEPT !.failed = @ \cup {n}]
    <3>1. /\ caller'.pc = caller.pc /\ caller'.layer = caller.layer
          /\ caller'.left = caller.left /\ caller'.failed = caller.failed \cup {n}
      BY <2>2 DEF Typed, CallerState
    <3>2. \A k \in CacheNodes : k # n => holds'[k] = holds[k]   BY <2>2 DEF Typed
    <3> QED  BY <2>2, <3>1, <3>2 DEF Stored, StoredIsHit
  <2> QED  BY <1>9, <2>1, <2>2 DEF GoesDown, ComesBack
<1>10. ASSUME NEW t \in Checks,
              Wake(t) \/ IsMember(t) \/ Enter(t) \/ AddPoint(t) \/ AppendKey(t) \/ SortKeys(t)
       PROVE  Stored'
  BY <1>10 DEF Wake, IsMember, Enter, AddPoint, AppendKey, SortKeys, world, Stored, StoredIsHit
<1> QED  BY <1>1, <1>2, <1>3, <1>4, <1>5, <1>6, <1>7, <1>8, <1>9, <1>10 DEF Next

-----------------------------------------------------------------------------
\* Steps that change neither the ring nor a thread that is changing it.
LEMMA RingKept ==
    ASSUME RingInv, UNCHANGED <<nodes, ring, keys>>, ~ overlapped' => ~ overlapped,
           \A t \in Checks : \/ checks'[t] = checks[t]
                             \/ checks[t].pc \notin Adding /\ checks'[t].pc \notin Adding,
           \/ caller.pc \notin Removing /\ caller'.pc \notin Removing
           \/ /\ caller'.pc = caller.pc /\ caller'.node = caller.node
              /\ caller'.at = caller.at /\ caller'.sorted = caller.sorted
    PROVE  RingInv'
<1> SUFFICES ASSUME ~ overlapped' PROVE RingInv'   BY DEF RingInv
<1>0. ~ overlapped   OBVIOUS
<1>1. BeingAdded' <=> BeingAdded   BY DEF BeingAdded
<1>2. \A x \in Cells : /\ ToBePopped(x)' <=> ToBePopped(x)
                       /\ \A t \in Checks : /\ Adds(t, x)' <=> Adds(t, x)
                                            /\ OnRingBy(t, x)' <=> OnRingBy(t, x)
                                            /\ InKeysBy(t, x)' <=> InKeysBy(t, x)
  BY DEF Adds, OnRingBy, InKeysBy, ToBePopped, Removing
<1>3. \A t \in Checks : checks'[t].pc \in Adding => checks'[t] = checks[t]   OBVIOUS
<1> QED  BY <1>0, <1>1, <1>2, <1>3 DEF RingInv, Removing

LEMMA CallerKeepsRing ==
    ASSUME Typed, RingInv,
           \/ \E l \in Layers : GetLayerScan(l) \/ PutLayerScan(l)
           \/ Route \/ Pick \/ Answered \/ Schedule \/ PutEnds
           \/ \E n \in CacheNodes : PutToNode(n) \/ GoesDown(n) \/ ComesBack(n)
    PROVE  RingInv'
<1>1. ASSUME NEW l \in Layers, GetLayerScan(l) \/ PutLayerScan(l)   PROVE RingInv'
  <2>1. /\ UNCHANGED <<nodes, ring, keys, overlapped, checks>>
        /\ caller.pc \notin Removing /\ caller'.pc \notin Removing
    BY <1>1 DEF GetLayerScan, PutLayerScan, Begin, ringVars, Removing
  <2> QED  BY <2>1, RingKept
<1>2. CASE Route \/ Pick
  <2>1. /\ UNCHANGED <<nodes, ring, keys, overlapped, checks>>
        /\ caller'.pc \in {"idle", "pick", "request"}
    BY <1>2, RouteEffect, PickEffect DEF ringVars
  <2>2. caller.pc \in {"route", "pick"}   BY <1>2 DEF Route, Pick
  <2> QED  BY <2>1, <2>2, RingKept DEF Removing
<1>3. CASE Answered \/ PutEnds
  <2>1. Go("idle") /\ UNCHANGED <<nodes, ring, keys, overlapped, checks>>
        /\ caller.pc \in {"request", "put"}
    BY <1>3 DEF Answered, PutEnds, End, ringVars
  <2>2. caller'.pc = "idle"   BY <2>1 DEF Go, Typed, CallerState
  <2> QED  BY <2>1, <2>2, RingKept DEF Removing
<1>4. CASE Schedule
  <2>1. PICK t \in Checks :
           /\ checks[t].pc = "free"
           /\ checks' = [checks EXCEPT ![t] = [pc |-> "asleep", node |-> caller.node, at |-> 0]]
    BY <1>4 DEF Schedule
  <2>2. /\ UNCHANGED <<nodes, ring, keys, overlapped>> /\ caller.pc = "schedule"
        /\ caller'.pc \in {"idle", "route"}
    BY <1>4 DEF Schedule, NextRound, Go, ringVars, Typed, CallerState
  <2>3. \A u \in Checks : \/ checks'[u] = checks[u]
                          \/ checks[u].pc \notin Adding /\ checks'[u].pc \notin Adding
    BY <2>1 DEF Typed, Adding
  <2> QED  BY <2>2, <2>3, RingKept DEF Removing
<1>5. ASSUME NEW n \in CacheNodes, PutToNode(n) \/ GoesDown(n) \/ ComesBack(n)   PROVE RingInv'
  <2>1. /\ UNCHANGED <<nodes, ring, keys, overlapped, checks>>
        /\ caller'.pc = caller.pc /\ caller'.node = caller.node
        /\ caller'.at = caller.at /\ caller'.sorted = caller.sorted
    BY <1>5 DEF PutToNode, GoesDown, ComesBack, ringVars, Typed, CallerState
  <2> QED  BY <2>1, RingKept
<1> QED  BY <1>1, <1>2, <1>3, <1>4, <1>5

\* With no thread in the middle of an addition the ring is that of its nodes, but for the
\* points a removal has still to take away.
LEMMA QuietCells ==
    ASSUME RingInv, ~ overlapped, ~ BeingAdded
    PROVE  /\ \A x \in Cells : PointOf[x] \in ring <=> x[1] \in nodes \/ ToBePopped(x)
           /\ caller.pc \notin Removing =>
                 /\ \A x \in Cells : PointOf[x] \in Range(keys) <=> x[1] \in nodes
                 /\ Ascending(keys)
<1>1. \A x \in Cells, t \in Checks : ~ Adds(t, x)   BY DEF BeingAdded, Adds
<1> QED  BY <1>1 DEF RingInv

LEMMA RemovalKeepsRing ==
    ASSUME Typed, RingInv, RequestFails \/ PopPoint \/ Rebuild \/ Assign
    PROVE  RingInv'
<1> SUFFICES ASSUME ~ overlapped' PROVE RingInv'   BY DEF RingInv
<1>0. ~ overlapped   BY Zenon DEF RequestFails, PopPoint, Rebuild, Assign
<1>1. UNCHANGED checks   BY DEF RequestFails, PopPoint, Rebuild, Assign
<1>2. BeingAdded' <=> BeingAdded   BY <1>1 DEF BeingAdded
<1>3. ~ BeingAdded => \A t \in Checks : /\ checks'[t].pc \notin Adding
                                        /\ \A x \in Cells : ~ OnRingBy(t, x)' /\ ~ InKeysBy(t, x)'
  BY <1>1 DEF BeingAdded, Adds, OnRingBy, InKeysBy
<1>4. \A x \in Cells : x[2] \in Nat /\ x[2] <= Replicas - 1 /\ Replicas \in Nat
  BY RingAssumption DEF Cells, Virtual
<1>5. CASE RequestFails
  <2>1. ~ (caller.node \in nodes /\ BeingAdded)   BY <1>5, Zenon DEF RequestFails
  <2>2. /\ caller'.pc = IF caller.node \in nodes THEN "pop" ELSE "schedule"
        /\ caller'.at = 0 /\ caller'.node = caller.node
    BY <1>5 DEF RequestFails, Typed, CallerState
  <2>3. UNCHANGED <<ring, keys>> /\ nodes' = nodes \ {caller.node} /\ caller.pc = "request"
    BY <1>5 DEF RequestFails
  <2>4. CASE caller.node \notin nodes
    <3>1. nodes' = nodes   BY <2>3, <2>4
    <3> QED  BY <1>0, <1>1, <2>2, <2>3, <2>4, <3>1, RingKept DEF Removing
  <2>5. CASE caller.node \in nodes
    <3>1. ~ BeingAdded /\ caller'.pc = "pop"   BY <2>1, <2>2, <2>5
    <3>2. \A x \in Cells : PointOf[x] \in ring <=> x[1] \in nodes
      BY <1>0, <2>3, <3>1, QuietCells DEF ToBePopped
    <3>3. \A x \in Cells : ToBePopped(x)' <=> x[1] = caller.node
      BY <1>4, <2>2, <3>1 DEF ToBePopped
    <3> QED  BY <1>2, <1>3, <2>2, <2>3, <2>5, <3>1, <3>2, <3>3 DEF RingInv, Removing
  <2> QED  BY <2>4, <2>5
<1>6. CASE PopPoint
  <2>1. /\ UNCHANGED <<nodes, keys>> /\ caller.pc = "pop"
        /\ ring' = ring \ {PointOf[<<caller.node, caller.at>>]}
    BY <1>6 DEF PopPoint
  <2>2. /\ caller.node \in CacheNodes /\ caller.at \in Virtual /\ caller.at \in Nat
        /\ <<caller.node, caller.at>> \in Cells
    BY <2>1, PointOfCell, RingAssumption DEF Typed, Removing, Virtual
  <2>3. /\ caller'.node = caller.node
        /\ \/ caller.at = Replicas - 1 /\ caller'.pc = "rebuild"
           \/ caller.at < Replicas - 1 /\ caller'.pc = "pop" /\ caller'.at = caller.at + 1
    <3>1. CASE caller.at = Replicas - 1   BY <1>6, <3>1 DEF PopPoint, Typed, CallerState
    <3>2. CASE caller.at # Replicas - 1
      <4>1. caller' = [caller EXCEPT !.at = @ + 1]   BY <1>6, <3>2 DEF PopPoint
      <4>2. caller'.node = caller.node /\ caller'.pc = "pop" /\ caller'.at = caller.at + 1
        BY <2>1, <4>1 DEF Typed, CallerState
      <4> QED  BY <2>2, <3>2, <4>2, RingAssumption DEF Virtual
    <3> QED  BY <3>1, <3>2
  <2>4. caller.node \notin nodes /\ ~ BeingAdded   BY <1>0, <2>1 DEF RingInv, Removing
  <2>5. \A x \in Cells : PointOf[x] \in ring' <=>
           PointOf[x] \in ring /\ x # <<caller.node, caller.at>>
    BY <2>1, <2>2, PointOfCell
  <2>6. \A x \in Cells : x = <<x[1], x[2]>>   BY DEF Cells
  <2>7. \A x \in Cells : ToBePopped(x)' <=> ToBePopped(x) /\ x # <<caller.node, caller.at>>
    <3> TAKE x \in Cells
    <3>1. ToBePopped(x) <=> caller.node = x[1] /\ x[2] >= caller.at   BY <2>1 DEF ToBePopped
    <3>2. x = <<caller.node, caller.at>> <=> caller.node = x[1] /\ x[2] = caller.at   BY <2>6
    <3>3. x[2] \in Nat /\ x[2] <= Replicas - 1 /\ Replicas \in Nat   BY <1>4
    <3> QED  BY <2>2, <2>3, <3>1, <3>2, <3>3 DEF ToBePopped
  <2>8. \A x \in Cells : PointOf[x] \in ring <=> x[1] \in nodes \/ ToBePopped(x)
    BY <1>0, <2>4, QuietCells
  <2>9. caller'.pc \in {"pop", "rebuild"}   BY <2>3
  <2>10. \A x \in Cells : x[1] \in nodes => x # <<caller.node, caller.at>>   BY <2>4, <2>6
  <2> QED  BY <1>2, <1>3, <2>1, <2>3, <2>4, <2>5, <2>7, <2>8, <2>9, <2>10
           DEF RingInv, Removing
<1>7. CASE Rebuild
  <2>1. UNCHANGED <<nodes, ring, keys>> /\ caller.pc = "rebuild"   BY <1>7 DEF Rebuild, ringVars
  <2>2. /\ caller'.node = caller.node /\ caller'.pc = "assign"
        /\ caller'.sorted = Sorted(SetToSeq(ring))
    BY <1>7 DEF Rebuild, Typed, CallerState
  <2>3. Range(caller'.sorted) = ring /\ Ascending(caller'.sorted)
    BY <2>2, ListedPoints DEF Typed
  <2>4. caller.node \notin nodes /\ ~ BeingAdded   BY <1>0, <2>1 DEF RingInv, Removing
  <2>5. \A x \in Cells : PointOf[x] \in ring <=> x[1] \in nodes
    BY <1>0, <2>1, <2>4, QuietCells DEF ToBePopped
  <2>6. \A x \in Cells : ~ ToBePopped(x)'   BY <2>2 DEF ToBePopped
  <2> QED  BY <1>2, <1>3, <2>1, <2>2, <2>3, <2>4, <2>5, <2>6 DEF RingInv, Removing
<1>8. CASE Assign
  <2>1. UNCHANGED <<nodes, ring>> /\ caller.pc = "assign" /\ keys' = caller.sorted
    BY <1>8 DEF Assign
  <2>2. caller'.pc = "schedule"   BY <1>8 DEF Assign, Go, Typed, CallerState
  <2>3. ~ BeingAdded   BY <1>0, <2>1 DEF RingInv, Removing
  <2>4. /\ \A x \in Cells : PointOf[x] \in Range(keys') <=> x[1] \in nodes
        /\ Ascending(keys')
    BY <1>0, <2>1 DEF RingInv
  <2>5. \A x \in Cells : PointOf[x] \in ring <=> x[1] \in nodes
    BY <1>0, <2>1, <2>3, QuietCells DEF ToBePopped
  <2>6. \A x \in Cells : ~ ToBePopped(x)'   BY <2>2 DEF ToBePopped
  <2> QED  BY <1>2, <1>3, <2>1, <2>2, <2>3, <2>4, <2>5, <2>6 DEF RingInv, Removing
<1> QED  BY <1>5, <1>6, <1>7, <1>8

LEMMA AppendedRange ==
    ASSUME NEW T, NEW s \in Seq(T), NEW p \in T
    PROVE  Range(Append(s, p)) = Range(s) \cup {p}
<1> DEFINE u == Append(s, p)
<1>1. Len(u) = Len(s) + 1 /\ DOMAIN u = 1..(Len(s) + 1) /\ DOMAIN s = 1..Len(s) /\ Len(s) \in Nat
  OBVIOUS
<1>2. u[Len(s) + 1] = p /\ \A i \in 1..Len(s) : u[i] = s[i]   OBVIOUS
<1> HIDE DEF u
<1>3. \A i \in DOMAIN u : i \in DOMAIN s \/ i = Len(s) + 1   BY <1>1
<1>4. Range(u) \subseteq Range(s) \cup {p}   BY <1>1, <1>2, <1>3 DEF Range
<1>5. Range(s) \subseteq Range(u)
  <2> SUFFICES ASSUME NEW i \in DOMAIN s PROVE s[i] \in Range(u)   BY DEF Range
  <2>1. i \in DOMAIN u /\ u[i] = s[i]   BY <1>1, <1>2
  <2> QED  BY <2>1, Zenon DEF Range
<1>6. p \in Range(u)
  <2>1. Len(s) + 1 \in DOMAIN u   BY <1>1
  <2> QED  BY <1>2, <2>1, Zenon DEF Range
<1> QED  BY <1>4, <1>5, <1>6 DEF u

LEMMA LookKeepsOut ==
    ASSUME Typed, NEW t \in Checks, Wake(t) \/ IsMember(t)
    PROVE  checks'[t].pc \notin Adding
<1>1. CASE Wake(t)
  <2>1. checks'[t] = Free \/ checks'[t] = [checks[t] EXCEPT !.pc = "member"]
    BY <1>1 DEF Wake, Typed
  <2> QED  BY <2>1 DEF Typed, Thread, Free, Adding
<1>2. CASE IsMember(t)
  <2>1. checks'[t] = Free \/ checks'[t] = [checks[t] EXCEPT !.pc = "enter"]
    BY <1>2 DEF IsMember, Typed
  <2> QED  BY <2>1 DEF Typed, Thread, Free, Adding
<1> QED  BY <1>1, <1>2

\* What a thread does to the ring and to keys agrees with what the others have done, even
\* when they add the same node.
LEMMA AdditionKeepsRing ==
    ASSUME Typed, RingInv, NEW t \in Checks,
           Wake(t) \/ IsMember(t) \/ Enter(t) \/ AddPoint(t) \/ AppendKey(t) \/ SortKeys(t)
    PROVE  RingInv'
<1> SUFFICES ASSUME ~ overlapped' PROVE RingInv'   BY DEF RingInv
<1>0. ~ overlapped   BY Zenon DEF Wake, IsMember, Enter, AddPoint, AppendKey, SortKeys
<1>1. UNCHANGED caller   BY DEF Wake, IsMember, Enter, AddPoint, AppendKey, SortKeys
<1>2. \A u \in Checks : u # t => checks'[u] = checks[u]
  BY DEF Wake, IsMember, Enter, AddPoint, AppendKey, SortKeys, Typed
<1>3. \A x \in Cells : ToBePopped(x)' <=> ToBePopped(x)   BY <1>1 DEF ToBePopped
<1>4. \A x \in Cells : x[2] \in Nat /\ x[2] <= Replicas - 1 /\ Replicas \in Nat
  BY RingAssumption DEF Cells, Virtual
<1>5. \A x \in Cells, u \in Checks : u # t => /\ Adds(u, x)' <=> Adds(u, x)
                                              /\ OnRingBy(u, x)' <=> OnRingBy(u, x)
                                              /\ InKeysBy(u, x)' <=> InKeysBy(u, x)
  BY <1>2 DEF Adds, OnRingBy, InKeysBy
<1>6. CASE Wake(t) \/ IsMember(t)
  <2>1. UNCHANGED <<nodes, ring, keys>> /\ checks[t].pc \in Looking
    BY <1>6 DEF Wake, IsMember, ringVars, Looking
  <2>2. checks'[t].pc \notin Adding   BY <1>6, LookKeepsOut
  <2>3. \A u \in Checks : \/ checks'[u] = checks[u]
                          \/ checks[u].pc \notin Adding /\ checks'[u].pc \notin Adding
    BY <1>2, <2>1, <2>2 DEF Looking, Adding
  <2> QED  BY <1>0, <1>1, <2>1, <2>3, RingKept
<1>7. CASE Enter(t)
  <2> DEFINE n == checks[t].node
  <2>1. /\ UNCHANGED <<ring, keys>> /\ nodes' = nodes \cup {n} /\ checks[t].pc = "enter"
    BY <1>7 DEF Enter
  <2>2. checks'[t].pc = "point" /\ checks'[t].node = n /\ checks'[t].at = 0
    BY <1>7 DEF Enter, Typed, Thread, Looking
  <2>3. caller.pc \notin Removing   BY <1>7, Zenon DEF Enter
  <2>4. BeingAdded'   BY <2>2 DEF BeingAdded, Adding
  <2>5. \A x \in Cells : ~ ToBePopped(x) /\ ~ ToBePopped(x)'
    BY <1>3, <2>3 DEF ToBePopped, Removing
  <2>6. \A x \in Cells : /\ Adds(t, x)' <=> x[1] = n
                         /\ ~ OnRingBy(t, x)' /\ ~ InKeysBy(t, x)'
    BY <1>4, <2>2 DEF Adds, OnRingBy, InKeysBy, Adding
  <2>7. \A u \in Checks : checks'[u].pc \in Adding => checks'[u].node \in nodes'
    BY <1>0, <1>2, <2>1, <2>2 DEF RingInv
  <2>8. \A x \in Cells, u \in Checks : Adds(u, x) => Adds(u, x)'
    BY <1>5, <2>1 DEF Adds, Adding
  <2> HIDE DEF n
  <2>9. \A x \in Cells :
          /\ PointOf[x] \in ring' => x[1] \in nodes' \/ ToBePopped(x)'
          /\ x[1] \in nodes' \/ ToBePopped(x)' =>
                PointOf[x] \in ring' \/ \E u \in Checks : Adds(u, x)'
          /\ \A u \in Checks : OnRingBy(u, x)' => PointOf[x] \in ring'
    BY <1>0, <1>5, <2>1, <2>5, <2>6, <2>8 DEF RingInv
  <2>10. \A x \in Cells :
          /\ PointOf[x] \in Range(keys') => x[1] \in nodes'
          /\ x[1] \in nodes' => PointOf[x] \in Range(keys') \/ \E u \in Checks : Adds(u, x)'
          /\ \A u \in Checks : InKeysBy(u, x)' => PointOf[x] \in Range(keys')
    BY <1>0, <1>5, <2>1, <2>3, <2>6, <2>8 DEF RingInv
  <2> QED  BY <1>1, <2>3, <2>4, <2>7, <2>9, <2>10 DEF RingInv, Removing
<1>8. ASSUME checks[t].pc \in Adding
      PROVE  caller.pc \notin Removing /\ checks[t].node \in nodes
  BY <1>0, <1>8 DEF RingInv, BeingAdded
<1>9. CASE AddPoint(t)
  <2> DEFINE n == checks[t].node
             i == checks[t].at
  <2>1. /\ UNCHANGED <<nodes, keys>> /\ checks[t].pc = "point"
        /\ ring' = ring \cup {PointOf[<<n, i>>]}
    BY <1>9 DEF AddPoint
  <2>2. n \in CacheNodes /\ i \in Virtual /\ i \in Nat /\ <<n, i>> \in Cells
    BY <2>1, PointOfCell, RingAssumption DEF Typed, Thread, Virtual
  <2>3. checks'[t].pc = "append" /\ checks'[t].node = n /\ checks'[t].at = i
    BY <1>9 DEF AddPoint, Typed, Thread
  <2>4. caller.pc \notin Removing /\ n \in nodes   BY <1>8, <2>1 DEF Adding
  <2>5. BeingAdded'   BY <2>3 DEF BeingAdded, Adding
  <2>6. \A x \in Cells : ~ ToBePopped(x) /\ ~ ToBePopped(x)'
    BY <1>3, <2>4 DEF ToBePopped, Removing
  <2>7. \A x \in Cells : x = <<n, i>> <=> x[1] = n /\ x[2] = i   BY DEF Cells
  <2>8. \A x \in Cells : PointOf[x] \in ring' <=> PointOf[x] \in ring \/ x = <<n, i>>
    BY <2>1, <2>2, PointOfCell
  <2>9. \A x \in Cells : /\ Adds(t, x)' <=> Adds(t, x)
                         /\ OnRingBy(t, x)' => OnRingBy(t, x) \/ (x[1] = n /\ x[2] = i)
                         /\ InKeysBy(t, x)' => InKeysBy(t, x)
    BY <1>4, <2>1, <2>2, <2>3 DEF Adds, OnRingBy, InKeysBy, Adding
  <2>10. \A u \in Checks : checks'[u].pc \in Adding => checks'[u].node \in nodes'
    BY <1>0, <1>2, <2>1, <2>3, <2>4 DEF RingInv
  <2> HIDE DEF n, i
  <2>11. \A x \in Cells, u \in Checks : /\ Adds(u, x) <=> Adds(u, x)'
                                        /\ InKeysBy(u, x)' => InKeysBy(u, x)
    BY <1>5, <2>9
  <2>12. \A x \in Cells :
          /\ PointOf[x] \in ring' => x[1] \in nodes' \/ ToBePopped(x)'
          /\ x[1] \in nodes' \/ ToBePopped(x)' =>
                PointOf[x] \in ring' \/ \E u \in Checks : Adds(u, x)'
          /\ \A u \in Checks : OnRingBy(u, x)' => PointOf[x] \in ring'
    BY <1>0, <1>5, <2>1, <2>4, <2>6, <2>7, <2>8, <2>9, <2>11 DEF RingInv
  <2>13. \A x \in Cells :
          /\ PointOf[x] \in Range(keys') => x[1] \in nodes'
          /\ x[1] \in nodes' => PointOf[x] \in Range(keys') \/ \E u \in Checks : Adds(u, x)'
          /\ \A u \in Checks : InKeysBy(u, x)' => PointOf[x] \in Range(keys')
    BY <1>0, <2>1, <2>4, <2>11 DEF RingInv
  <2> QED  BY <1>1, <2>4, <2>5, <2>10, <2>12, <2>13 DEF RingInv, Removing
<1>10. CASE AppendKey(t)
  <2> DEFINE n == checks[t].node
             i == checks[t].at
  <2>1. /\ UNCHANGED <<nodes, ring>> /\ checks[t].pc = "append"
        /\ keys' = Append(keys, PointOf[<<n, i>>])
    BY <1>10 DEF AppendKey
  <2>2. n \in CacheNodes /\ i \in Virtual /\ i \in Nat /\ <<n, i>> \in Cells
    BY <2>1, PointOfCell, RingAssumption DEF Typed, Thread, Virtual
  <2>3. /\ checks'[t].node = n /\ checks'[t].at = i + 1
        /\ checks'[t].pc = IF i = Replicas - 1 THEN "sort" ELSE "point"
    BY <1>10 DEF AppendKey, Typed, Thread
  <2>4. caller.pc \notin Removing /\ n \in nodes   BY <1>8, <2>1 DEF Adding
  <2>5. BeingAdded'   BY <2>3 DEF BeingAdded, Adding
  <2>6. \A x \in Cells : ~ ToBePopped(x) /\ ~ ToBePopped(x)'
    BY <1>3, <2>4 DEF ToBePopped, Removing
  <2>7. \A x \in Cells : x = <<n, i>> <=> x[1] = n /\ x[2] = i   BY DEF Cells
  <2>8. \A x \in Cells : PointOf[x] \in Range(keys') <=> PointOf[x] \in Range(keys) \/ x = <<n, i>>
    <3>1. Range(keys') = Range(keys) \cup {PointOf[<<n, i>>]}
      <4>1. keys \in Seq(Points) /\ PointOf[<<n, i>>] \in Points   BY <2>2, PointOfCell DEF Typed
      <4> QED  BY <2>1, <4>1, AppendedRange
    <3> QED  BY <2>2, <3>1, PointOfCell
  <2>9. \A x \in Cells : /\ Adds(t, x)' <=> Adds(t, x)
                         /\ OnRingBy(t, x)' => OnRingBy(t, x)
                         /\ InKeysBy(t, x)' => InKeysBy(t, x) \/ (x[1] = n /\ x[2] = i)
    <3> TAKE x \in Cells
    <3>1. x[2] \in Nat /\ x[2] <= Replicas - 1 /\ Replicas \in Nat   BY <1>4
    <3>2. CASE i = Replicas - 1
      BY <2>1, <2>2, <2>3, <3>1, <3>2 DEF Adds, OnRingBy, InKeysBy, Adding
    <3>3. CASE i # Replicas - 1
      BY <2>1, <2>2, <2>3, <3>1, <3>3 DEF Adds, OnRingBy, InKeysBy, Adding
    <3> QED  BY <3>2, <3>3
  <2>10. \A u \in Checks : checks'[u].pc \in Adding => checks'[u].node \in nodes'
    BY <1>0, <1>2, <2>1, <2>3, <2>4 DEF RingInv
  <2> HIDE DEF n, i
  <2>11. \A x \in Cells, u \in Checks : /\ Adds(u, x) <=> Adds(u, x)'
                                        /\ OnRingBy(u, x)' => OnRingBy(u, x)
    BY <1>5, <2>9
  <2>12. \A x \in Cells :
          /\ PointOf[x] \in ring' => x[1] \in nodes' \/ ToBePopped(x)'
          /\ x[1] \in nodes' \/ ToBePopped(x)' =>
                PointOf[x] \in ring' \/ \E u \in Checks : Adds(u, x)'
          /\ \A u \in Checks : OnRingBy(u, x)' => PointOf[x] \in ring'
    BY <1>0, <2>1, <2>6, <2>11 DEF RingInv
  <2>13. \A x \in Cells :
          /\ PointOf[x] \in Range(keys') => x[1] \in nodes'
          /\ x[1] \in nodes' => PointOf[x] \in Range(keys') \/ \E u \in Checks : Adds(u, x)'
          /\ \A u \in Checks : InKeysBy(u, x)' => PointOf[x] \in Range(keys')
    BY <1>0, <1>5, <2>1, <2>4, <2>7, <2>8, <2>9, <2>11 DEF RingInv
  <2> QED  BY <1>1, <2>4, <2>5, <2>10, <2>12, <2>13 DEF RingInv, Removing
<1>11. CASE SortKeys(t)
  <2> DEFINE n == checks[t].node
  <2>1. UNCHANGED <<nodes, ring>> /\ checks[t].pc = "sort" /\ keys' = Sorted(keys)
    BY <1>11 DEF SortKeys
  <2>2. checks'[t] = Free   BY <1>11 DEF SortKeys, Typed
  <2>3. caller.pc \notin Removing   BY <1>8, <2>1 DEF Adding
  <2>4. Range(keys') = Range(keys) /\ Ascending(keys')   BY <2>1, SortedPoints DEF Typed
  <2>5. \A x \in Cells : ~ ToBePopped(x) /\ ~ ToBePopped(x)'
    BY <1>3, <2>3 DEF ToBePopped, Removing
  <2>6. \A x \in Cells : /\ ~ Adds(t, x)' /\ ~ OnRingBy(t, x)' /\ ~ InKeysBy(t, x)'
                         /\ Adds(t, x) => OnRingBy(t, x) /\ InKeysBy(t, x)
    BY <2>1, <2>2 DEF Adds, OnRingBy, InKeysBy, Free, Adding
  <2>7. \A u \in Checks : checks'[u].pc \in Adding => checks'[u].node \in nodes'
    BY <1>0, <1>2, <2>1, <2>2 DEF RingInv, Free, Adding
  <2>8. \A x \in Cells :
          /\ PointOf[x] \in ring' => x[1] \in nodes' \/ ToBePopped(x)'
          /\ x[1] \in nodes' \/ ToBePopped(x)' =>
                PointOf[x] \in ring' \/ \E u \in Checks : Adds(u, x)'
          /\ \A u \in Checks : OnRingBy(u, x)' => PointOf[x] \in ring'
    BY <1>0, <1>5, <2>1, <2>5, <2>6 DEF RingInv
  <2>9. \A x \in Cells :
          /\ PointOf[x] \in Range(keys') => x[1] \in nodes'
          /\ x[1] \in nodes' => PointOf[x] \in Range(keys') \/ \E u \in Checks : Adds(u, x)'
          /\ \A u \in Checks : InKeysBy(u, x)' => PointOf[x] \in Range(keys')
    BY <1>0, <1>5, <2>1, <2>3, <2>4, <2>6 DEF RingInv
  <2> QED  BY <1>1, <2>3, <2>4, <2>7, <2>8, <2>9 DEF RingInv, Removing
<1> QED  BY <1>6, <1>7, <1>9, <1>10, <1>11

LEMMA StepKeepsRing == Typed /\ RingInv /\ [Next]_vars => RingInv'
<1> SUFFICES ASSUME Typed, RingInv, [Next]_vars PROVE RingInv'   OBVIOUS
<1>1. CASE UNCHANGED vars   BY <1>1, RingKept DEF vars, ringVars
<1>2. CASE Next   BY <1>2, CallerKeepsRing, RemovalKeepsRing, AdditionKeepsRing DEF Next
<1> QED  BY <1>1, <1>2

\* While nothing changes the ring, its points are those of its nodes, and keys lists them.
LEMMA QuietRing ==
    ASSUME Typed, RingInv, ~ overlapped, ~ BeingAdded, caller.pc \notin Removing
    PROVE  ring = PointsOf(nodes) /\ Range(keys) = ring /\ Ascending(keys)
<1>1. \A x \in Cells : /\ PointOf[x] \in ring <=> x[1] \in nodes
                       /\ PointOf[x] \in Range(keys) <=> x[1] \in nodes
  BY QuietCells DEF ToBePopped, Removing
<1>2. Range(keys) \subseteq Points /\ ring \subseteq Points   BY DEF Typed, Range
<1>3. Range(keys) = ring
  <2>1. ASSUME NEW p \in Points PROVE p \in Range(keys) <=> p \in ring
    <3>1. PICK x \in Cells : p = PointOf[x]   BY PointOfCell
    <3> QED  BY <1>1, <3>1
  <2> QED  BY <1>2, <2>1
<1>4. ring \subseteq PointsOf(nodes)
  <2> SUFFICES ASSUME NEW p \in ring PROVE p \in PointsOf(nodes)   OBVIOUS
  <2>1. PICK x \in Cells : p = PointOf[x]   BY <1>2, PointOfCell
  <2>2. x \in nodes \X Virtual   BY <1>1, <2>1 DEF Cells
  <2> QED  BY <2>1, <2>2 DEF PointsOf
<1>5. PointsOf(nodes) \subseteq ring
  <2> SUFFICES ASSUME NEW x \in nodes \X Virtual PROVE PointOf[x] \in ring   BY DEF PointsOf
  <2>1. x \in Cells /\ x[1] \in nodes   BY DEF Cells, Typed
  <2> QED  BY <1>1, <2>1
<1>6. Ascending(keys)   BY QuietCells
<1> QED  BY <1>3, <1>4, <1>5, <1>6

\* cache_common.py:348-355: get_node then finds a key on the ring, whatever the hash.
LEMMA QuietLookup ==
    ASSUME Typed, RingInv, ~ overlapped, ~ BeingAdded, caller.pc \notin Removing,
           keys # << >>, NEW idx \in 0..Len(keys)
    PROVE  /\ ~ Raises(idx)
           /\ NodeAt(keys[Wrapped(keys, idx)]) \in nodes
<1> DEFINE w == Wrapped(keys, idx)
<1>1. w \in DOMAIN keys   BY DEF Typed, Wrapped
<1>2. keys[w] \in Range(keys)   BY <1>1, Zenon DEF Range
<1> HIDE DEF w
<1>3. keys[w] \in ring /\ ring = PointsOf(nodes)   BY <1>2, QuietRing
<1>4. PICK x \in nodes \X Virtual : keys[w] = PointOf[x]   BY <1>3 DEF PointsOf
<1>5. x \in Cells /\ x[1] \in nodes   BY DEF Cells, Typed
<1>6. NodeAt(keys[w]) \in nodes   BY <1>4, <1>5, PointOfCell
<1> QED  BY <1>3, <1>6 DEF Raises, w

LEMMA IndexInRange ==
    ASSUME Typed, NEW l \in Layers
    PROVE  BisectRight(keys, HashOf[l]) \in 0..Len(keys)
<1>1. keys \in Seq(Nat)   BY PointsAreNumbers, ListOfNumbers DEF Typed
<1>2. HashOf[l] \in Nat   BY PointsAreNumbers, RingAssumption
<1> QED  BY <1>1, <1>2, BisectRightSplits

-----------------------------------------------------------------------------
\* Undisturbed, a lookup is alone with the ring.
Alone == ~ overlapped /\ ~ disturbed

LEMMA StepKeepsLookup ==
    Typed /\ RingInv /\ LookupInv /\ [Next]_vars => LookupInv'
<1> SUFFICES ASSUME Typed, RingInv, LookupInv, [Next]_vars PROVE LookupInv'   OBVIOUS
<1>0. Alone => ~ overlapped /\ ~ BeingAdded   BY DEF Alone, LookupInv
<1>1. CASE UNCHANGED vars
  BY <1>1 DEF vars, ringVars, LookupInv, NeverBlocked, BeingAdded, Removing
<1>2. ASSUME NEW l \in Layers, GetLayerScan(l)   PROVE LookupInv'
  <2>1. /\ UNCHANGED <<nodes, checks>> /\ caller'.pc = "route" /\ caller'.tried = {}
        /\ last'.how = "none" /\ disturbed' = BeingAdded
    BY <1>2 DEF GetLayerScan, Begin, ringVars
  <2>2. BeingAdded' <=> BeingAdded   BY <2>1 DEF BeingAdded
  <2>3. BeingAdded' => disturbed'   BY <2>1, <2>2
  <2> QED  BY <2>1, <2>3 DEF LookupInv, NeverBlocked
<1>3. ASSUME NEW l \in Layers, PutLayerScan(l)   PROVE LookupInv'
  <2>1. /\ UNCHANGED <<nodes, checks, disturbed>> /\ caller'.pc = "put" /\ last'.how = "none"
    BY <1>3 DEF PutLayerScan, Begin, ringVars
  <2>2. BeingAdded' <=> BeingAdded   BY <2>1 DEF BeingAdded
  <2> QED  BY <2>1, <2>2 DEF LookupInv, NeverBlocked, Removing
<1>4. CASE Route
  <2>1. /\ UNCHANGED <<nodes, ring, keys, checks, disturbed, overlapped>>
        /\ \/ ring = {} /\ caller'.pc = "idle"
           \/ /\ ring # {} /\ UNCHANGED last /\ caller'.pc = "pick"
              /\ caller'.at = BisectRight(keys, HashOf[caller.layer])
              /\ caller'.tried = caller.tried
    BY <1>4, RouteEffect DEF ringVars
  <2>2. caller.pc = "route" /\ caller.layer \in Layers   BY <1>4 DEF Route, Typed
  <2>3. Alone => ring = PointsOf(nodes) /\ Range(keys) = ring
    BY <1>0, <2>2, QuietRing DEF Removing
  <2>4. Alone /\ ring = {} => nodes = {}
    <3>1. 0 \in Virtual   BY RingAssumption DEF Virtual
    <3>2. \A n \in nodes : PointOf[<<n, 0>>] \in PointsOf(nodes)   BY <3>1 DEF PointsOf
    <3> QED  BY <2>3, <3>2
  <2>5. Alone /\ ring # {} => keys # << >>   BY <2>3 DEF Range
  <2>6. BisectRight(keys, HashOf[caller.layer]) \in 0..Len(keys)   BY <2>2, IndexInRange
  <2>7. BeingAdded' <=> BeingAdded   BY <2>1 DEF BeingAdded
  <2> QED  BY <2>1, <2>2, <2>4, <2>5, <2>6, <2>7 DEF LookupInv, NeverBlocked, Alone, Removing
<1>5. CASE Pick
  <2> DEFINE n == NodeAt(keys[Wrapped(keys, caller.at)])
  <2>1. /\ UNCHANGED <<nodes, keys, checks, disturbed, overlapped>>
        /\ \/ /\ Raises(caller.at) \/ n \in caller.tried
              /\ caller'.pc = "idle"
           \/ /\ UNCHANGED last
              /\ caller'.pc = "request" /\ caller'.node = n
              /\ caller'.tried = caller.tried \cup {n}
    BY <1>5, PickEffect DEF ringVars
  <2>2. caller.pc = "pick"   BY <1>5 DEF Pick
  <2>3. Alone => ~ Raises(caller.at) /\ n \in nodes
    BY <1>0, <2>2, QuietLookup DEF LookupInv, Alone, Removing
  <2>4. Alone => n \notin caller.tried   BY <2>2, <2>3 DEF LookupInv, Alone
  <2>5. BeingAdded' <=> BeingAdded   BY <2>1 DEF BeingAdded
  <2> HIDE DEF n
  <2> QED  BY <2>1, <2>2, <2>3, <2>4, <2>5 DEF LookupInv, NeverBlocked, Alone, Removing
<1>6. CASE Answered
  <2>1. /\ UNCHANGED <<nodes, checks, disturbed, overlapped>> /\ Go("idle")
        /\ caller.pc = "request" /\ last'.how # "unreachable"
        /\ last'.how = "raised" =>
              ring # {} /\ Raises(BisectRight(keys, HashOf[caller.layer]))
    BY <1>6 DEF Answered, End, ringVars
  <2>2. caller'.pc = "idle"   BY <2>1 DEF Go, Typed, CallerState
  <2>3. Alone => ring = PointsOf(nodes) /\ Range(keys) = ring
    BY <1>0, <2>1, QuietRing DEF Removing
  <2>4. Alone /\ ring # {} => keys # << >>   BY <2>3 DEF Range
  <2>5. BisectRight(keys, HashOf[caller.layer]) \in 0..Len(keys)
    BY <2>1, IndexInRange DEF Typed
  <2>6. Alone => last'.how # "raised"
    BY <1>0, <2>1, <2>4, <2>5, QuietLookup DEF Removing
  <2>7. BeingAdded' <=> BeingAdded   BY <2>1 DEF BeingAdded
  <2> QED  BY <2>1, <2>2, <2>6, <2>7 DEF LookupInv, NeverBlocked, Alone, Removing
<1>7. CASE RequestFails \/ PopPoint \/ Rebuild \/ Assign
  <2>1. /\ UNCHANGED <<checks, last, disturbed>> /\ nodes' \subseteq nodes
        /\ ~ overlapped' => ~ overlapped
        /\ caller'.pc \in Removing \cup {"schedule"} /\ caller'.tried = caller.tried
    <3>1. UNCHANGED <<checks, last, disturbed>> /\ nodes' \subseteq nodes
      BY <1>7 DEF RequestFails, PopPoint, Rebuild, Assign, ringVars
    <3>2. ~ overlapped' => ~ overlapped   BY <1>7, Zenon DEF RequestFails, PopPoint, Rebuild, Assign
    <3>3. caller'.pc \in Removing \cup {"schedule"} /\ caller'.tried = caller.tried
      BY <1>7 DEF RequestFails, PopPoint, Rebuild, Assign, Go, Typed, CallerState, Removing
    <3> QED  BY <3>1, <3>2, <3>3
  <2>2. /\ caller.pc \in {"request"} \cup Removing
        /\ caller.pc = "request" => nodes' = nodes \ {caller.node}
    BY <1>7 DEF RequestFails, PopPoint, Rebuild, Assign, Removing
  <2>3. BeingAdded' <=> BeingAdded   BY <2>1 DEF BeingAdded
  <2> QED  BY <2>1, <2>2, <2>3 DEF LookupInv, NeverBlocked, Removing
<1>8. CASE Schedule
  <2>1. PICK t \in Checks :
           /\ checks[t].pc = "free"
           /\ checks' = [checks EXCEPT ![t] = [pc |-> "asleep", node |-> caller.node, at |-> 0]]
    BY <1>8 DEF Schedule
  <2>2. BeingAdded' <=> BeingAdded   BY <2>1 DEF BeingAdded, Adding, Typed
  <2>3. /\ UNCHANGED <<nodes, disturbed, overlapped>> /\ caller.pc = "schedule"
        /\ caller'.pc = NextRound /\ caller'.tried = caller.tried
        /\ NextRound # "idle" => UNCHANGED last
    BY <1>8 DEF Schedule, Go, ringVars, Typed, CallerState
  <2>4. NextRound = "idle" => caller.tried = CacheNodes   BY DEF NextRound
  <2>5. NextRound \in {"idle", "route"}   BY DEF NextRound
  <2>6. Alone /\ NextRound = "idle" => nodes = {}
    BY <2>3, <2>4 DEF LookupInv, Alone, Typed
  <2> QED  BY <2>2, <2>3, <2>5, <2>6 DEF LookupInv, NeverBlocked, Alone, Removing
<1>9. CASE PutEnds
  <2>1. /\ UNCHANGED <<nodes, checks, disturbed, overlapped>> /\ Go("idle")
        /\ last'.how \in {"error", "stored"}
    BY <1>9 DEF PutEnds, End, ringVars
  <2>2. caller'.pc = "idle"   BY <2>1 DEF Go, Typed, CallerState
  <2>3. BeingAdded' <=> BeingAdded   BY <2>1 DEF BeingAdded
  <2> QED  BY <2>1, <2>2, <2>3 DEF LookupInv, NeverBlocked, Removing
<1>10. ASSUME NEW n \in CacheNodes, PutToNode(n) \/ GoesDown(n) \/ ComesBack(n)   PROVE LookupInv'
  <2>1. /\ UNCHANGED <<nodes, keys, checks, disturbed, overlapped, last>>
        /\ caller'.pc = caller.pc /\ caller'.tried = caller.tried
        /\ caller'.node = caller.node /\ caller'.at = caller.at
    BY <1>10 DEF PutToNode, GoesDown, ComesBack, ringVars, Typed, CallerState
  <2>2. BeingAdded' <=> BeingAdded   BY <2>1 DEF BeingAdded
  <2> QED  BY <2>1, <2>2 DEF LookupInv, NeverBlocked
<1>11. ASSUME NEW t \in Checks, Wake(t) \/ IsMember(t) \/ Enter(t)   PROVE LookupInv'
  <2>1. CASE Wake(t) \/ IsMember(t)
    <3>1. /\ UNCHANGED <<nodes, keys, caller, last, disturbed, overlapped>>
          /\ \A u \in Checks : u # t => checks'[u] = checks[u]
      BY <2>1 DEF Wake, IsMember, ringVars, Typed
    <3>2. BeingAdded' => BeingAdded   BY <2>1, <3>1, LookKeepsOut DEF BeingAdded
    <3> QED  BY <3>1, <3>2 DEF LookupInv, NeverBlocked
  <2>2. CASE Enter(t)
    <3>1. disturbed'   BY <2>2, Zenon DEF Enter
    <3> QED  BY <3>1 DEF LookupInv, NeverBlocked
  <2> QED  BY <1>11, <2>1, <2>2
<1>12. ASSUME NEW t \in Checks, AddPoint(t) \/ AppendKey(t) \/ SortKeys(t)   PROVE LookupInv'
  <2>1. UNCHANGED <<nodes, caller, last, disturbed, overlapped>>
    BY <1>12 DEF AddPoint, AppendKey, SortKeys
  <2>2. BeingAdded   BY <1>12 DEF BeingAdded, AddPoint, AppendKey, SortKeys, Adding
  <2>3. disturbed'   BY <2>1, <2>2 DEF LookupInv
  <2> QED  BY <2>3 DEF LookupInv, NeverBlocked
<1> QED  BY <1>1, <1>2, <1>3, <1>4, <1>5, <1>6, <1>7, <1>8, <1>9, <1>10, <1>11, <1>12 DEF Next

-----------------------------------------------------------------------------
LEMMA InitEstablishes == Init => ClientInv
<1> SUFFICES ASSUME Init PROVE ClientInv   OBVIOUS
<1>1. Typed   BY InitTyped
<1>2. ring = Points /\ Range(keys) = ring /\ Ascending(keys)   BY ListedPoints DEF Init, Points
<1>3. \A t \in Checks : checks[t].pc \notin Adding   BY DEF Init, Free, Adding
<1>4. ~ BeingAdded   BY <1>3 DEF BeingAdded
<1>5. nodes = CacheNodes /\ caller.pc = "idle" /\ last.how = "none" /\ promised = {}
  BY DEF Init
<1>6. AbsentHasCause   BY <1>5 DEF AbsentHasCause
<1>7. Stored   BY <1>5 DEF Stored, StoredIsHit
<1>8. RingInv
  <2>1. \A x \in Cells : PointOf[x] \in Points /\ x[1] \in CacheNodes   BY PointOfCell
  <2>2. \A t \in Checks, x \in Cells : ~ OnRingBy(t, x) /\ ~ InKeysBy(t, x)
    BY <1>3 DEF OnRingBy, InKeysBy, Adds
  <2> QED  BY <1>2, <1>3, <1>4, <1>5, <2>1, <2>2 DEF RingInv, Removing
<1>9. LookupInv   BY <1>4, <1>5 DEF LookupInv, NeverBlocked, Removing
<1> QED  BY <1>1, <1>6, <1>7, <1>8, <1>9 DEF ClientInv

LEMMA ClientInvariant == Spec => []ClientInv
<1>1. ClientInv /\ [Next]_vars => ClientInv'
  BY StepTyped, StepKeepsCause, StepKeepsStored, StepKeepsRing, StepKeepsLookup DEF ClientInv
<1> QED  BY <1>1, InitEstablishes, PTL DEF Spec

\* worker_cache_client.py and cache_common.py: the ring has points of known nodes only, and
\* every thread is at a statement it can be at, with the node it works on.
THEOREM TypesHold == Spec => []TypeOK
<1>1. ClientInv => TypeOK
  BY DEF ClientInv, Typed, CallerState, Outcome, Points, TypeOK
<1> QED  BY <1>1, ClientInvariant, PTL

\* cache_common.py:329-355: whatever additions overlapped, once no thread is changing the
\* ring, bisection leads every hash to its owner on the nodes that are in.
THEOREM RingIsConsistent == Spec => []RingMatches
<1>1. ClientInv => RingMatches
  <2> SUFFICES ASSUME ClientInv, ~ overlapped, ~ BeingAdded, caller.pc \notin Removing
               PROVE  /\ ring = PointsOf(nodes)
                      /\ ring # {} => \A h \in Hashes :
                            keys[Wrapped(keys, BisectRight(keys, h))] = Owner(PointsOf(nodes), h)
    BY DEF RingMatches
  <2>1. ring = PointsOf(nodes) /\ Range(keys) = ring /\ Ascending(keys)
    BY QuietRing DEF ClientInv
  <2>2. ring # {} => keys # << >>   BY <2>1 DEF Range
  <2>3. keys \in Seq(Hashes)
    <3>1. keys \in Seq(Points)   BY DEF ClientInv, Typed
    <3>2. keys = [i \in 1..Len(keys) |-> keys[i]] /\ \A i \in 1..Len(keys) : keys[i] \in Points
      BY <3>1
    <3>3. keys \in [1..Len(keys) -> Hashes] /\ Len(keys) \in Nat   BY <3>1, <3>2, PointsAreNumbers
    <3> QED  BY <3>3
  <2> QED  BY <2>1, <2>2, <2>3, BisectionFindsOwner
<1> QED  BY <1>1, ClientInvariant, PTL

\* worker_cache_client.py:24, "one dead cache node never blocks a lookup", under the conditions
\* that make it true: if no node was being put back on the ring when the lookup began, nor has
\* been since, and no removal ever overlapped such an addition, a lookup fails only with no
\* node left on the ring.  (With a node being put back, a lookup may fail beside a live one.)
THEOREM DeadNodesNeverBlock == Spec => []NeverBlocked
<1>1. ClientInv => NeverBlocked   BY DEF ClientInv, LookupInv
<1> QED  BY <1>1, ClientInvariant, PTL

\* worker_cache_client.py:99-121: a node is off the ring only for a reason.
THEOREM AbsenceHasCause == Spec => []AbsentHasCause
<1>1. ClientInv => AbsentHasCause   BY DEF ClientInv
<1> QED  BY <1>1, ClientInvariant, PTL

\* worker_cache_client.py:64-66: a scan stored without an error is a hit wherever a lookup
\* is routed to, until a node loses it.
THEOREM StoredScansAreHits == Spec => []StoredIsHit
<1>1. ClientInv => StoredIsHit   BY DEF ClientInv, Stored
<1> QED  BY <1>1, ClientInvariant, PTL
=============================================================================
