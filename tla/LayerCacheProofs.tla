-------------------------- MODULE LayerCacheProofs --------------------------
(***************************************************************************)
(* Proofs about LayerCache, for any number of nodes, threads, keys and     *)
(* requests and any capacity: what the methods of LRUCache do to the       *)
(* entries of a node, and the invariants of the two levels.                *)
(***************************************************************************)
EXTENDS LayerCache, FiniteSetTheorems, SequenceTheorems, TLAPS

-----------------------------------------------------------------------------
(* LRUCache: an OrderedDict as a sequence in which no key occurs twice.    *)

Distinct(L) == \A i, j \in DOMAIN L : L[i].key = L[j].key => i = j

LEMMA ListElements ==
    ASSUME NEW S, NEW L \in Seq(S)
    PROVE  /\ Len(L) \in Nat /\ DOMAIN L = 1..Len(L)
           /\ \A i \in 1..Len(L) : L[i] \in S
           /\ ToSet(L) = {L[i] : i \in 1..Len(L)}
           /\ ToSet(L) \subseteq S
BY DEF ToSet

LEMMA RemovedElements ==
    ASSUME NEW S, NEW L \in Seq(S), NEW p \in 1..Len(L)
    PROVE  /\ RemoveAt(L, p) \in Seq(S) /\ Len(RemoveAt(L, p)) = Len(L) - 1
           /\ \A i \in 1..(Len(L) - 1) : RemoveAt(L, p)[i] = IF i < p THEN L[i] ELSE L[i + 1]
<1> DEFINE A == SubSeq(L, 1, p - 1)
           B == SubSeq(L, p + 1, Len(L))
<1>1. A \in Seq(S) /\ Len(A) = p - 1 /\ \A i \in 1..(p - 1) : A[i] = L[i]   OBVIOUS
<1>2. B \in Seq(S) /\ Len(B) = Len(L) - p /\ \A i \in 1..(Len(L) - p) : B[i] = L[p + i]
  OBVIOUS
<1>3. RemoveAt(L, p) = A \o B   BY DEF RemoveAt
<1> HIDE DEF A, B
<1>4. /\ A \o B \in Seq(S) /\ Len(A \o B) = Len(L) - 1
      /\ \A i \in 1..(Len(L) - 1) : (A \o B)[i] = IF i <= p - 1 THEN A[i] ELSE B[i - (p - 1)]
  <2>1. p - 1 \in Nat /\ Len(L) - p \in Nat /\ (p - 1) + (Len(L) - p) = Len(L) - 1   OBVIOUS
  <2>2. /\ A \o B \in Seq(S) /\ Len(A \o B) = Len(A) + Len(B)
        /\ \A i \in 1..(Len(A) + Len(B)) : (A \o B)[i] = IF i <= Len(A) THEN A[i] ELSE B[i - Len(A)]
    BY <1>1, <1>2, ConcatProperties
  <2> QED  BY <1>1, <1>2, <2>1, <2>2
<1>5. ASSUME NEW i \in 1..(Len(L) - 1)
      PROVE  (A \o B)[i] = IF i < p THEN L[i] ELSE L[i + 1]
  <2>1. CASE i < p  BY <2>1, <1>1, <1>4
  <2>2. CASE ~ (i < p)
    <3>1. i - (p - 1) \in 1..(Len(L) - p) /\ p + (i - (p - 1)) = i + 1   BY <2>2
    <3> QED  BY <2>2, <3>1, <1>2, <1>4
  <2> QED  BY <2>1, <2>2
<1> QED  BY <1>3, <1>4, <1>5

\* pop(key) takes the entry of the key out and leaves the others.
LEMMA DeletedEntries ==
    ASSUME NEW S, NEW L \in Seq(S), Distinct(L), NEW k
    PROVE  /\ LruDelete(L, k) \in Seq(S) /\ Distinct(LruDelete(L, k))
           /\ Len(LruDelete(L, k)) <= Len(L)
           /\ InLru(L, k) => Len(LruDelete(L, k)) = Len(L) - 1
           /\ ToSet(LruDelete(L, k)) = {e \in ToSet(L) : e.key # k}
<1>1. DOMAIN L = 1..Len(L) /\ Len(L) \in Nat /\ ToSet(L) = {L[i] : i \in 1..Len(L)}
  BY ListElements
<1>2. CASE ~ InLru(L, k)
  <2>1. LruDelete(L, k) = L   BY <1>2 DEF LruDelete
  <2>2. \A i \in 1..Len(L) : L[i].key # k   BY <1>1, <1>2 DEF InLru
  <2>3. {e \in ToSet(L) : e.key # k} = ToSet(L)   BY <1>1, <2>2
  <2>4. Len(LruDelete(L, k)) <= Len(L)   BY <1>1, <2>1
  <2> QED  BY <1>2, <2>1, <2>3, <2>4
<1>3. CASE InLru(L, k)
  <2> DEFINE p == LruFind(L, k)
             M == RemoveAt(L, p)
  <2>1. p \in 1..Len(L) /\ L[p].key = k   BY <1>1, <1>3 DEF InLru, LruFind
  <2>2. LruDelete(L, k) = M   BY <1>3 DEF LruDelete
  <2> HIDE DEF p
  <2>3. /\ M \in Seq(S) /\ Len(M) = Len(L) - 1
        /\ \A i \in 1..(Len(L) - 1) : M[i] = IF i < p THEN L[i] ELSE L[i + 1]
    BY <2>1, RemovedElements
  <2> HIDE DEF M
  <2>4. DOMAIN M = 1..(Len(L) - 1) /\ ToSet(M) = {M[i] : i \in 1..(Len(L) - 1)}
    BY <2>3, ListElements
  <2>5. \A i, j \in 1..Len(L) : L[i].key = L[j].key => i = j   BY <1>1 DEF Distinct
  <2>6. Distinct(M)
    <3>1. SUFFICES ASSUME NEW i \in 1..(Len(L) - 1), NEW j \in 1..(Len(L) - 1),
                          M[i].key = M[j].key
                   PROVE  i = j
      BY <2>4 DEF Distinct
    <3> DEFINE f(x) == IF x < p THEN x ELSE x + 1
    <3>2. f(i) \in 1..Len(L) /\ f(j) \in 1..Len(L) /\ (f(i) = f(j) => i = j)
      BY <1>1, <2>1
    <3>3. M[i] = L[f(i)] /\ M[j] = L[f(j)]   BY <2>3
    <3> HIDE DEF f
    <3>4. f(i) = f(j)   BY <2>5, <3>1, <3>2, <3>3
    <3> QED  BY <3>2, <3>4
  <2>7. ToSet(M) \subseteq {e \in ToSet(L) : e.key # k}
    <3>1. SUFFICES ASSUME NEW i \in 1..(Len(L) - 1)
                   PROVE  M[i] \in ToSet(L) /\ M[i].key # k
      BY <2>4
    <3> DEFINE q == IF i < p THEN i ELSE i + 1
    <3>2. q \in 1..Len(L) /\ q # p   BY <1>1, <2>1
    <3>3. M[i] = L[q]   BY <2>3
    <3> HIDE DEF q
    <3> QED  BY <1>1, <2>1, <2>5, <3>2, <3>3
  <2>8. {e \in ToSet(L) : e.key # k} \subseteq ToSet(M)
    <3>1. SUFFICES ASSUME NEW q \in 1..Len(L), L[q].key # k
                   PROVE  L[q] \in ToSet(M)
      BY <1>1
    <3> DEFINE i == IF q < p THEN q ELSE q - 1
    <3>2. q # p   BY <2>1, <3>1
    <3>3. i \in 1..(Len(L) - 1) /\ (i < p => i = q) /\ (~ (i < p) => i + 1 = q)
      BY <1>1, <2>1, <3>2
    <3> HIDE DEF i
    <3>4. M[i] = L[q]   BY <2>3, <3>3
    <3> QED  BY <2>4, <3>3, <3>4
  <2> QED  BY <1>1, <1>3, <2>2, <2>3, <2>6, <2>7, <2>8
<1> QED  BY <1>2, <1>3

\* An entry stored at the end under a key that is not there.
LEMMA AppendedEntry ==
    ASSUME NEW S, NEW L \in Seq(S), Distinct(L), NEW e \in S, ~ InLru(L, e.key)
    PROVE  /\ Append(L, e) \in Seq(S) /\ Distinct(Append(L, e))
           /\ Len(Append(L, e)) = Len(L) + 1
           /\ ToSet(Append(L, e)) = ToSet(L) \cup {e}
<1> DEFINE M == Append(L, e)
<1>1. DOMAIN L = 1..Len(L) /\ Len(L) \in Nat /\ ToSet(L) = {L[i] : i \in 1..Len(L)}
  BY ListElements
<1>2. M \in Seq(S) /\ Len(M) = Len(L) + 1 /\ M[Len(L) + 1] = e
      /\ \A i \in 1..Len(L) : M[i] = L[i]
  BY <1>1
<1> HIDE DEF M
<1>3. DOMAIN M = 1..(Len(L) + 1) /\ ToSet(M) = {M[i] : i \in 1..(Len(L) + 1)}
  BY <1>2, ListElements
<1>4. \A i \in 1..Len(L) : L[i].key # e.key   BY <1>1 DEF InLru
<1>5. Distinct(M)
  <2>1. SUFFICES ASSUME NEW i \in 1..(Len(L) + 1), NEW j \in 1..(Len(L) + 1),
                        M[i].key = M[j].key
                 PROVE  i = j
    BY <1>3 DEF Distinct
  <2>2. i \in 1..Len(L) \/ i = Len(L) + 1   BY <1>1
  <2>3. j \in 1..Len(L) \/ j = Len(L) + 1   BY <1>1
  <2>4. \A m, n \in 1..Len(L) : L[m].key = L[n].key => m = n   BY <1>1 DEF Distinct
  <2> QED  BY <1>2, <1>4, <2>1, <2>2, <2>3, <2>4
<1>6. ToSet(M) = ToSet(L) \cup {e}
  <2>1. \A i \in 1..(Len(L) + 1) : M[i] \in ToSet(L) \cup {e}
    <3>1. \A i \in 1..(Len(L) + 1) : i \in 1..Len(L) \/ i = Len(L) + 1   BY <1>1
    <3> QED  BY <1>1, <1>2, <3>1
  <2>2. \A i \in 1..Len(L) : L[i] \in ToSet(M)
    <3>1. \A i \in 1..Len(L) : i \in 1..(Len(L) + 1)   BY <1>1
    <3> QED  BY <1>2, <1>3, <3>1
  <2>3. e \in ToSet(M)
    <3>1. Len(L) + 1 \in 1..(Len(L) + 1)   BY <1>1
    <3> QED  BY <1>2, <1>3, <3>1
  <2> QED  BY <1>1, <1>3, <2>1, <2>2, <2>3
<1> QED  BY <1>2, <1>5, <1>6 DEF M

\* get() moves the entry of the key to the end.
LEMMA TouchedEntries ==
    ASSUME NEW S, NEW L \in Seq(S), Distinct(L), NEW k
    PROVE  /\ LruTouch(L, k) \in Seq(S) /\ Distinct(LruTouch(L, k))
           /\ Len(LruTouch(L, k)) = Len(L) /\ ToSet(LruTouch(L, k)) = ToSet(L)
<1>1. DOMAIN L = 1..Len(L) /\ Len(L) \in Nat /\ ToSet(L) = {L[i] : i \in 1..Len(L)}
  BY ListElements
<1>2. CASE ~ InLru(L, k)   BY <1>2 DEF LruTouch
<1>3. CASE InLru(L, k)
  <2> DEFINE M == LruDelete(L, k)
             p == LruFind(L, k)
  <2>1. p \in 1..Len(L) /\ L[p].key = k   BY <1>1, <1>3 DEF InLru, LruFind
  <2>2. LruTouch(L, k) = Append(M, L[p])   BY <1>3 DEF LruTouch
  <2>3. /\ M \in Seq(S) /\ Distinct(M) /\ Len(M) = Len(L) - 1
        /\ ToSet(M) = {e \in ToSet(L) : e.key # k}
    BY <1>3, DeletedEntries
  <2> HIDE DEF M, p
  <2>4. L[p] \in S /\ L[p] \in ToSet(L)   BY <1>1, <2>1, ListElements
  <2>5. ~ InLru(M, L[p].key)   BY <2>1, <2>3 DEF InLru, ToSet
  <2>6. /\ Append(M, L[p]) \in Seq(S) /\ Distinct(Append(M, L[p]))
        /\ Len(Append(M, L[p])) = Len(M) + 1
        /\ ToSet(Append(M, L[p])) = ToSet(M) \cup {L[p]}
    BY <2>3, <2>4, <2>5, AppendedEntry
  <2>7. \A d \in ToSet(L) : d.key = k => d = L[p]
    BY <1>1, <2>1 DEF Distinct
  <2>8. ToSet(M) \cup {L[p]} = ToSet(L)   BY <2>1, <2>3, <2>4, <2>7
  <2> QED  BY <1>1, <2>2, <2>3, <2>6, <2>8
<1> QED  BY <1>2, <1>3

\* put() stores the entry, takes the place of the one of its key, and evicts
\* another key, whole, or none.
LEMMA PutEntries ==
    ASSUME NEW L \in Seq(Entry), Distinct(L), Len(L) <= Capacity, NEW e \in Entry,
           NEW M, NEW k, M = LruPut(L, e)[1], k = LruPut(L, e)[2]
    PROVE  /\ M \in Seq(Entry) /\ Distinct(M) /\ Len(M) <= Capacity
           /\ e \in ToSet(M) /\ ToSet(M) \subseteq {d \in ToSet(L) : d.key # e.key} \cup {e}
           /\ k \in Keys \cup {None}
           /\ k # None => k # e.key /\ \A d \in ToSet(M) : d.key # k
<1> DEFINE D == LruDelete(L, e.key)
           A == D \o <<e>>
<1>1. /\ D \in Seq(Entry) /\ Distinct(D) /\ Len(D) <= Len(L)
      /\ ToSet(D) = {d \in ToSet(L) : d.key # e.key}
  BY DeletedEntries
<1>2. LruPut(L, e) = IF Len(A) > Capacity THEN <<Tail(A), Head(A).key>> ELSE <<A, None>>
  BY DEF LruPut
<1> HIDE DEF D
<1>3. ~ InLru(D, e.key)   BY <1>1 DEF InLru, ToSet
<1>4. A = Append(D, e)   BY <1>1
<1> HIDE DEF A
<1>5. /\ A \in Seq(Entry) /\ Distinct(A) /\ Len(A) = Len(D) + 1
      /\ ToSet(A) = ToSet(D) \cup {e}
  BY <1>1, <1>3, <1>4, AppendedEntry
<1>6. /\ DOMAIN A = 1..Len(A) /\ Len(A) \in Nat /\ ToSet(A) = {A[i] : i \in 1..Len(A)}
      /\ Len(D) \in Nat /\ Len(L) \in Nat /\ \A i \in 1..Len(A) : A[i] \in Entry
  BY <1>1, <1>5, ListElements
<1>7. A[Len(A)] = e   BY <1>1, <1>4, <1>5
<1>8. Capacity \in Nat /\ Capacity > 0 /\ None \notin Keys   BY CacheAssumption
<1>9. CASE ~ (Len(A) > Capacity)
  <2>1. M = A /\ k = None   BY <1>2, <1>9
  <2> QED  BY <1>1, <1>5, <1>6, <1>8, <1>9, <2>1
<1>10. CASE Len(A) > Capacity
  <2>1. M = Tail(A) /\ k = Head(A).key   BY <1>2, <1>10
  <2>2. /\ M \in Seq(Entry) /\ Len(M) = Len(A) - 1 /\ Head(A) = A[1]
        /\ \A i \in 1..Len(M) : M[i] = A[i + 1]
    BY <1>5, <1>6, <1>8, <1>10, <2>1
  <2>3. /\ DOMAIN M = 1..(Len(A) - 1) /\ ToSet(M) = {M[i] : i \in 1..(Len(A) - 1)}
    BY <2>2, ListElements
  <2>4. \A i, j \in 1..Len(A) : A[i].key = A[j].key => i = j   BY <1>5, <1>6 DEF Distinct
  <2>5. \A i \in 1..(Len(A) - 1) : i + 1 \in 1..Len(A) /\ M[i] = A[i + 1]
    <3>1. Len(A) \in Nat /\ 1..Len(M) = 1..(Len(A) - 1)   BY <1>6, <2>2
    <3>2. \A i \in 1..(Len(A) - 1) : i + 1 \in 1..Len(A)   BY <3>1
    <3> QED  BY <2>2, <3>1, <3>2
  <2>6. Distinct(M)
    <3>1. \A i, j \in 1..(Len(A) - 1) : M[i].key = M[j].key => i + 1 = j + 1
      BY <2>4, <2>5
    <3> QED  BY <2>3, <3>1 DEF Distinct
  <2>7. ToSet(M) \subseteq ToSet(A)   BY <1>6, <2>3, <2>5
  <2>8. 1 \in 1..Len(A) /\ Len(A) - 1 \in 1..(Len(A) - 1) /\ (Len(A) - 1) + 1 = Len(A)
    BY <1>6, <1>8, <1>10
  <2>9. e \in ToSet(M)
    <3>1. M[Len(A) - 1] = e   BY <1>7, <2>5, <2>8
    <3> QED  BY <2>3, <2>8, <3>1
  <2>10. k \in Keys /\ k # None   BY <1>6, <1>8, <2>1, <2>2, <2>8 DEF Entry
  <2>11. \A d \in ToSet(M) : d.key # k
    <3>1. \A i \in 1..(Len(A) - 1) : i + 1 # 1   OBVIOUS
    <3>2. \A i \in 1..(Len(A) - 1) : M[i].key # A[1].key   BY <2>4, <2>5, <2>8, <3>1
    <3> QED  BY <2>1, <2>2, <2>3, <3>2
  <2>12. Len(M) <= Capacity   BY <1>1, <1>5, <1>6, <1>8, <2>2
  <2> QED  BY <1>1, <1>5, <2>2, <2>6, <2>7, <2>9, <2>10, <2>11, <2>12
<1> QED  BY <1>9, <1>10

-----------------------------------------------------------------------------
(* Types.                                                                  *)

Request == [pc: Pc, node: Nodes \cup {None}, key: Keys \cup {None},
            entry: Entry \cup {None}, evicted: Keys \cup {None}, asked: 0..MaxTime]
Warming == [keys: SUBSET Keys, at: 0..MaxTime, expired: Keys \cup {None}]

OneEach(S) == \A d, e \in S : d.key = e.key => d = e

LruTyped == /\ lru \in [Nodes -> Seq(Entry)]
            /\ \A n \in Nodes : Distinct(lru[n]) /\ Len(lru[n]) <= Capacity
RedisTyped == redis \subseteq Entry /\ OneEach(redis)
NodesTyped == /\ node \in [Nodes -> {"down", "warming", "serving"}]
              /\ connected \in [Nodes -> BOOLEAN] /\ warm \in [Nodes -> Warming]
CountsTyped == /\ puts \in 0..MaxPuts /\ deletes \in 0..MaxDeletes
               /\ restarts \in 0..MaxRestarts /\ outages \in 0..MaxOutages

\* What a request knows at each of its steps.
Fits(r, N) ==
    /\ r.pc # "idle" => r.node \in Nodes /\ r.key \in Keys /\ N[r.node] = "serving"
    /\ r.pc \in {"rehydrate", "store", "setex", "unevict"} =>
          r.entry \in Entry /\ r.entry.key = r.key
    /\ r.pc = "unevict" => r.evicted \in Keys
    /\ r.pc \notin {"setex", "unevict"} => r.evicted = None

ThreadsTyped == thread \in [Threads -> Request] /\ \A t \in Threads : Fits(thread[t], node)

Typed ==
    /\ LruTyped /\ RedisTyped /\ NodesTyped /\ ThreadsTyped /\ CountsTyped
    /\ up \in BOOLEAN /\ now \in 0..MaxTime /\ finished \in [Keys -> 0..MaxPuts]
    /\ safe \in [Keys -> Entry \cup {None}]

LEMMA Bounds ==
    /\ Capacity \in Nat /\ Capacity > 0 /\ TTL \in Nat /\ MaxTime \in Nat /\ MaxPuts \in Nat
    /\ MaxDeletes \in Nat /\ MaxRestarts \in Nat /\ MaxOutages \in Nat
    /\ None \notin Nodes /\ None \notin Keys
BY CacheAssumption

LEMMA LruStored ==
    ASSUME LruTyped, NEW n \in Nodes, NEW M \in Seq(Entry), Distinct(M), Len(M) <= Capacity,
           lru' = [lru EXCEPT ![n] = M]
    PROVE  LruTyped' /\ lru'[n] = M /\ \A m \in Nodes : m # n => lru'[m] = lru[m]
<1>1. /\ lru' \in [Nodes -> Seq(Entry)] /\ lru'[n] = M
      /\ \A m \in Nodes : m # n => lru'[m] = lru[m]
  BY DEF LruTyped
<1>2. \A m \in Nodes : Distinct(lru'[m]) /\ Len(lru'[m]) <= Capacity
  BY <1>1 DEF LruTyped
<1> QED  BY <1>1, <1>2 DEF LruTyped

LEMMA RequestStored ==
    ASSUME ThreadsTyped, NEW t \in Threads, NEW r \in Request, Fits(r, node),
           thread' = [thread EXCEPT ![t] = r], node' = node
    PROVE  ThreadsTyped' /\ thread'[t] = r /\ \A u \in Threads : u # t => thread'[u] = thread[u]
<1>1. /\ thread' \in [Threads -> Request] /\ thread'[t] = r
      /\ \A u \in Threads : u # t => thread'[u] = thread[u]
  BY DEF ThreadsTyped
<1>2. \A u \in Threads : Fits(thread'[u], node)   BY <1>1 DEF ThreadsTyped
<1> QED  BY <1>1, <1>2 DEF ThreadsTyped

LEMMA IdleRequest == Idle \in Request /\ Idle.pc = "idle" /\ \A N : Fits(Idle, N)
<1>1. Idle \in Request  BY Bounds DEF Idle, Request, Pc
<1> QED  BY <1>1 DEF Idle, Fits

\* Return leaves the thread idle and the others alone.
LEMMA Returned ==
    ASSUME ThreadsTyped, NEW t \in Threads, Return(t), node' = node
    PROVE  ThreadsTyped' /\ thread'[t] = Idle /\ \A u \in Threads : u # t => thread'[u] = thread[u]
BY RequestStored, IdleRequest DEF Return

\* Goto changes the step of the thread only.
LEMMA Gone ==
    ASSUME ThreadsTyped, NEW t \in Threads, NEW pc \in Pc, Goto(t, pc), node' = node,
           thread[t].pc # "idle", pc # "idle",
           pc \in {"rehydrate", "store", "setex", "unevict"} =>
               thread[t].pc \in {"rehydrate", "store", "setex", "unevict"},
           pc = "unevict" => thread[t].evicted \in Keys,
           pc \notin {"setex", "unevict"} => thread[t].evicted = None
    PROVE  /\ ThreadsTyped'
           /\ thread'[t] = [thread[t] EXCEPT !.pc = pc]
           /\ thread'[t].pc = pc /\ thread'[t].node = thread[t].node
           /\ thread'[t].key = thread[t].key /\ thread'[t].entry = thread[t].entry
           /\ thread'[t].evicted = thread[t].evicted /\ thread'[t].asked = thread[t].asked
           /\ \A u \in Threads : u # t => thread'[u] = thread[u]
<1> DEFINE r == [thread[t] EXCEPT !.pc = pc]
<1>1. thread' = [thread EXCEPT ![t] = r]   BY DEF Goto
<1>2. thread[t] \in Request /\ Fits(thread[t], node)   BY DEF ThreadsTyped
<1>3. /\ r \in Request /\ r.pc = pc /\ r.node = thread[t].node /\ r.key = thread[t].key
      /\ r.entry = thread[t].entry /\ r.evicted = thread[t].evicted /\ r.asked = thread[t].asked
  BY <1>2 DEF Request
<1> HIDE DEF r
<1>4. Fits(r, node)   BY <1>2, <1>3 DEF Fits
<1>5. ThreadsTyped' /\ thread'[t] = r /\ \A u \in Threads : u # t => thread'[u] = thread[u]
  BY <1>1, <1>3, <1>4, RequestStored
<1> QED  BY <1>3, <1>5 DEF r

LEMMA EntriesStored ==
    ASSUME RedisTyped, NEW S, S \subseteq redis, NEW e \in Entry, \A d \in S : d.key # e.key
    PROVE  S \cup {e} \subseteq Entry /\ OneEach(S \cup {e})
BY DEF RedisTyped, OneEach

LEMMA RedisDeleted ==
    ASSUME RedisTyped, NEW k, RedisDelete(k)
    PROVE  RedisTyped' /\ redis' \subseteq redis /\ \A e \in redis : e.key # k => e \in redis'
<1>1. redis' = redis \/ redis' = redis \ RedisFind(k)   BY DEF RedisDelete
<1> QED  BY <1>1 DEF RedisTyped, OneEach, RedisFind

LEMMA RedisWritten ==
    ASSUME RedisTyped, NEW e \in Entry, RedisSetex(e)
    PROVE  /\ RedisTyped' /\ redis' \subseteq redis \cup {e}
           /\ up => /\ e \in redis' /\ \A d \in redis' : d.key = e.key => d = e
                    /\ \A d \in redis : d.key # e.key => d \in redis'
<1> DEFINE S == redis \ RedisFind(e.key)
<1>1. redis' = IF up THEN S \cup {e} ELSE redis   BY DEF RedisSetex
<1>2. S \subseteq redis /\ (\A d \in S : d.key # e.key) /\ \A d \in redis : d.key # e.key => d \in S
  BY DEF RedisFind
<1> HIDE DEF S
<1>3. S \cup {e} \subseteq Entry /\ OneEach(S \cup {e})   BY <1>2, EntriesStored
<1>4. CASE up   BY <1>1, <1>2, <1>3, <1>4 DEF RedisTyped
<1>5. CASE ~ up   BY <1>1, <1>5 DEF RedisTyped
<1> QED  BY <1>4, <1>5

\* An entry read from Redis.
LEMMA FoundInRedis ==
    ASSUME RedisTyped, NEW k, NEW e \in RedisFind(k)
    PROVE  e \in redis /\ e \in Entry /\ e.key = k
BY DEF RedisTyped, RedisFind

-----------------------------------------------------------------------------
(* What each step of a request does, for a thread t.                       *)

Others(t) == \A u \in Threads : u # t => thread'[u] = thread[u]

\* A new request of t for a node that serves.
LEMMA RequestBegins ==
    ASSUME Typed, NEW t \in Threads, GetCache(t)
    PROVE  /\ Typed' /\ UNCHANGED <<lru, redis, threadOnly>> /\ Others(t)
           /\ thread[t].pc = "idle" /\ thread'[t].pc = "lookup" /\ thread'[t].evicted = None
           /\ thread'[t].asked = now
<1>1. PICK n \in Nodes, k \in Keys :
         /\ thread[t].pc = "idle" /\ node[n] = "serving"
         /\ thread' = [thread EXCEPT ![t] = [Idle EXCEPT !.pc = "lookup", !.node = n, !.key = k,
                                                           !.asked = now]]
  BY DEF GetCache
<1> DEFINE r == [Idle EXCEPT !.pc = "lookup", !.node = n, !.key = k, !.asked = now]
<1>2. UNCHANGED <<lru, redis, threadOnly>>   BY DEF GetCache
<1>3. /\ r \in Request /\ r.pc = "lookup" /\ r.node = n /\ r.key = k /\ r.evicted = None
      /\ r.asked = now
  BY DEF Idle, Request, Pc, Typed
<1> HIDE DEF r
<1>4. Fits(r, node)   BY <1>1, <1>3 DEF Fits
<1>5. ThreadsTyped' /\ thread'[t] = r /\ Others(t)
  BY <1>1, <1>2, <1>3, <1>4, RequestStored DEF Typed, threadOnly, nodeVars, Others, r
<1>6. Typed'
  BY <1>2, <1>5 DEF Typed, LruTyped, RedisTyped, NodesTyped, CountsTyped, threadOnly, nodeVars,
                    counters
<1> QED  BY <1>1, <1>2, <1>3, <1>5, <1>6

\* lru.get moves an entry of one LRU, and the request on.
LEMMA LookupEffect ==
    ASSUME Typed, NEW t \in Threads, Lookup(t)
    PROVE  /\ Typed' /\ UNCHANGED <<redis, threadOnly>> /\ Others(t)
           /\ \A n \in Nodes : ToSet(lru'[n]) = ToSet(lru[n])
           /\ thread[t].pc = "lookup" /\ thread'[t].pc \in {"idle", "fallback", "expired"}
           /\ thread'[t].evicted = None
           /\ thread'[t].pc = "idle" => thread'[t] = Idle
           /\ thread'[t].pc # "idle" => /\ thread'[t].node = thread[t].node
                                        /\ thread'[t].key = thread[t].key
                                        /\ thread'[t].asked = thread[t].asked
           /\ thread'[t].pc = "fallback" =>
                 \A e \in ToSet(lru[thread[t].node]) : e.key # thread[t].key
           /\ thread'[t].pc = "expired" =>
                 \E e \in ToSet(lru[thread[t].node]) : Expired(e) /\ e.key = thread[t].key
<1> DEFINE r == thread[t]
           L == lru[r.node]
           M == LruTouch(L, r.key)
           Moved == /\ ThreadsTyped' /\ Others(t) /\ thread'[t].pc \in {"idle", "fallback", "expired"}
                    /\ thread'[t].evicted = None
                    /\ thread'[t].pc = "idle" => thread'[t] = Idle
                    /\ thread'[t].pc # "idle" =>
                       thread'[t].node = r.node /\ thread'[t].key = r.key /\ thread'[t].asked = r.asked
                    /\ thread'[t].pc = "fallback" => \A e \in ToSet(L) : e.key # r.key
                    /\ thread'[t].pc = "expired" => \E e \in ToSet(L) : Expired(e) /\ e.key = r.key
<1>1. /\ r.pc = "lookup" /\ UNCHANGED <<redis, threadOnly>>
      /\ lru' = [lru EXCEPT ![r.node] = LruTouch(@, r.key)]
  BY DEF Lookup
<1>2. IF ~ InLru(L, r.key) THEN Goto(t, "fallback")
      ELSE IF Expired(L[LruFind(L, r.key)]) THEN Goto(t, "expired") ELSE Return(t)
  BY DEF Lookup
<1>3. r \in Request /\ r.node \in Nodes /\ r.evicted = None
  BY <1>1 DEF Typed, ThreadsTyped, Fits
<1>4. L \in Seq(Entry) /\ Distinct(L) /\ Len(L) <= Capacity   BY <1>3 DEF Typed, LruTyped
<1>5. M \in Seq(Entry) /\ Distinct(M) /\ Len(M) = Len(L) /\ ToSet(M) = ToSet(L)
  BY <1>4, TouchedEntries
<1>7. lru' = [lru EXCEPT ![r.node] = M]   BY <1>1, <1>3 DEF Typed, LruTyped
<1> HIDE DEF M
<1>8. LruTyped' /\ lru'[r.node] = M /\ \A m \in Nodes : m # r.node => lru'[m] = lru[m]
  BY <1>3, <1>4, <1>5, <1>7, LruStored DEF Typed
<1>9. \A n \in Nodes : ToSet(lru'[n]) = ToSet(lru[n])
  BY <1>3, <1>5, <1>8
<1>10. node' = node /\ ThreadsTyped   BY <1>1 DEF threadOnly, nodeVars, Typed
<1>11. ASSUME ~ InLru(L, r.key) PROVE Moved
  <2>1. Goto(t, "fallback")   BY <1>2, <1>11
  <2>2. /\ ThreadsTyped' /\ Others(t) /\ thread'[t].pc = "fallback" /\ thread'[t].evicted = None
        /\ thread'[t].node = r.node /\ thread'[t].key = r.key /\ thread'[t].asked = r.asked
    BY <1>1, <1>3, <1>10, <2>1, Gone DEF Pc, Others
  <2>3. \A e \in ToSet(L) : e.key # r.key   BY <1>11 DEF InLru, ToSet
  <2> QED  BY <2>2, <2>3
<1>12. ASSUME InLru(L, r.key), Expired(L[LruFind(L, r.key)]) PROVE Moved
  <2>1. Goto(t, "expired")   BY <1>2, <1>12
  <2>2. /\ ThreadsTyped' /\ Others(t) /\ thread'[t].pc = "expired" /\ thread'[t].evicted = None
        /\ thread'[t].node = r.node /\ thread'[t].key = r.key /\ thread'[t].asked = r.asked
    BY <1>1, <1>3, <1>10, <2>1, Gone DEF Pc, Others
  <2>3. L[LruFind(L, r.key)] \in ToSet(L) /\ L[LruFind(L, r.key)].key = r.key
    BY <1>12 DEF InLru, LruFind, ToSet
  <2> QED  BY <1>12, <2>2, <2>3
<1>13. ASSUME InLru(L, r.key), ~ Expired(L[LruFind(L, r.key)]) PROVE Moved
  <2>1. Return(t)   BY <1>2, <1>13
  <2>2. ThreadsTyped' /\ Others(t) /\ thread'[t] = Idle   BY <1>10, <2>1, Returned DEF Others
  <2> QED  BY <2>2 DEF Idle
<1>14. Moved   BY <1>11, <1>12, <1>13
<1>15. Typed'
  BY <1>1, <1>8, <1>14 DEF Typed, RedisTyped, NodesTyped, CountsTyped, threadOnly, nodeVars, counters
<1> QED  BY <1>1, <1>9, <1>14, <1>15

\* lru.delete of an expired entry
LEMMA ExpiredEffect ==
    ASSUME Typed, NEW t \in Threads, ExpiredInLru(t)
    PROVE  /\ Typed' /\ UNCHANGED <<redis, threadOnly>> /\ Others(t)
           /\ thread[t].pc = "expired" /\ thread'[t].pc = "purge" /\ thread'[t].evicted = None
           /\ thread'[t].node = thread[t].node /\ thread'[t].key = thread[t].key
           /\ thread'[t].asked = thread[t].asked
           /\ \A n \in Nodes : ToSet(lru'[n]) \subseteq ToSet(lru[n])
           /\ \A e \in ToSet(lru'[thread[t].node]) : e.key # thread[t].key
<1> DEFINE r == thread[t]
           L == lru[r.node]
           M == LruDelete(L, r.key)
<1>1. /\ r.pc = "expired" /\ UNCHANGED <<redis, threadOnly>> /\ Goto(t, "purge")
      /\ lru' = [lru EXCEPT ![r.node] = LruDelete(@, r.key)]
  BY DEF ExpiredInLru
<1>2. r \in Request /\ r.node \in Nodes /\ r.evicted = None
  BY <1>1 DEF Typed, ThreadsTyped, Fits
<1>3. L \in Seq(Entry) /\ Distinct(L) /\ Len(L) <= Capacity /\ Len(L) \in Nat
  BY <1>2 DEF Typed, LruTyped
<1>4. /\ M \in Seq(Entry) /\ Distinct(M) /\ Len(M) <= Len(L)
      /\ ToSet(M) = {e \in ToSet(L) : e.key # r.key}
  BY <1>3, DeletedEntries
<1>5. lru' = [lru EXCEPT ![r.node] = M]   BY <1>1, <1>2 DEF Typed, LruTyped
<1> HIDE DEF M
<1>6. Len(M) <= Capacity   BY <1>3, <1>4, Bounds, ListElements
<1>7. LruTyped' /\ lru'[r.node] = M /\ \A m \in Nodes : m # r.node => lru'[m] = lru[m]
  BY <1>2, <1>4, <1>5, <1>6, LruStored DEF Typed
<1>8. node' = node /\ ThreadsTyped   BY <1>1 DEF threadOnly, nodeVars, Typed
<1>9. /\ ThreadsTyped' /\ Others(t) /\ thread'[t].pc = "purge" /\ thread'[t].evicted = None
      /\ thread'[t].node = r.node /\ thread'[t].key = r.key /\ thread'[t].asked = r.asked
  BY <1>1, <1>2, <1>8, Gone DEF Pc, Others
<1>10. Typed'
  BY <1>1, <1>7, <1>9 DEF Typed, RedisTyped, NodesTyped, CountsTyped, threadOnly, nodeVars, counters
<1> QED  BY <1>1, <1>2, <1>4, <1>7, <1>9, <1>10

\* ... and of the key from Redis
LEMMA PurgeEffect ==
    ASSUME Typed, NEW t \in Threads, PurgeRedis(t)
    PROVE  /\ Typed' /\ UNCHANGED <<lru, threadOnly>> /\ Others(t)
           /\ thread[t].pc = "purge" /\ thread'[t].pc = "fallback" /\ thread'[t].evicted = None
           /\ thread'[t].node = thread[t].node /\ thread'[t].key = thread[t].key
           /\ thread'[t].asked = thread[t].asked
           /\ redis' \subseteq redis /\ \A e \in redis : e.key # thread[t].key => e \in redis'
<1>1. thread[t].pc = "purge" /\ UNCHANGED <<lru, threadOnly>> /\ Goto(t, "fallback")
  BY DEF PurgeRedis
<1>2. RedisDelete(thread[t].key) \/ redis' = redis   BY DEF PurgeRedis
<1>3. /\ RedisTyped' /\ redis' \subseteq redis
      /\ \A e \in redis : e.key # thread[t].key => e \in redis'
  <2>1. CASE RedisDelete(thread[t].key)   BY <2>1, RedisDeleted DEF Typed
  <2>2. CASE redis' = redis   BY <2>2 DEF Typed, RedisTyped
  <2> QED  BY <1>2, <2>1, <2>2
<1>4. node' = node /\ ThreadsTyped   BY <1>1 DEF threadOnly, nodeVars, Typed
<1>5. thread[t].evicted = None   BY <1>1 DEF Typed, ThreadsTyped, Fits
<1>6. /\ ThreadsTyped' /\ Others(t) /\ thread'[t].pc = "fallback" /\ thread'[t].evicted = None
      /\ thread'[t].node = thread[t].node /\ thread'[t].key = thread[t].key
      /\ thread'[t].asked = thread[t].asked
  BY <1>1, <1>4, <1>5, Gone DEF Pc, Others
<1>7. Typed'
  BY <1>1, <1>3, <1>6 DEF Typed, LruTyped, NodesTyped, CountsTyped, threadOnly, nodeVars, counters
<1> QED  BY <1>1, <1>3, <1>6, <1>7

\* The answer of Redis decides where the request goes.
LEMMA FallbackEffect ==
    ASSUME Typed, NEW t \in Threads, Fallback(t)
    PROVE  /\ Typed' /\ UNCHANGED <<lru, redis, threadOnly>> /\ Others(t)
           /\ thread[t].pc = "fallback" /\ thread'[t].pc \in {"idle", "cleanup", "rehydrate"}
           /\ thread'[t].evicted = None
           /\ thread'[t].pc = "idle" => thread'[t] = Idle
           /\ thread'[t].pc # "idle" => /\ thread'[t].node = thread[t].node
                                        /\ thread'[t].key = thread[t].key
                                        /\ thread'[t].asked = thread[t].asked
           /\ thread'[t].pc = "cleanup" => \E e \in redis : Expired(e) /\ e.key = thread[t].key
           /\ thread'[t].pc = "rehydrate" =>
                 /\ thread'[t].entry \in redis /\ thread'[t].entry.key = thread[t].key
                 /\ ~ Expired(thread'[t].entry)
<1> DEFINE r == thread[t]
           Moved == /\ ThreadsTyped' /\ Others(t) /\ thread'[t].pc \in {"idle", "cleanup", "rehydrate"}
                    /\ thread'[t].evicted = None
                    /\ thread'[t].pc = "idle" => thread'[t] = Idle
                    /\ thread'[t].pc # "idle" =>
                       thread'[t].node = r.node /\ thread'[t].key = r.key /\ thread'[t].asked = r.asked
                    /\ thread'[t].pc = "cleanup" => \E e \in redis : Expired(e) /\ e.key = r.key
                    /\ thread'[t].pc = "rehydrate" =>
                          /\ thread'[t].entry \in redis /\ thread'[t].entry.key = r.key
                          /\ ~ Expired(thread'[t].entry)
<1>1. r.pc = "fallback" /\ UNCHANGED <<lru, redis, threadOnly>>   BY DEF Fallback
<1>2. \/ Return(t)
      \/ \E e \in RedisFind(r.key) :
            \/ Expired(e) /\ Goto(t, "cleanup")
            \/ ~ Expired(e) /\ thread' = [thread EXCEPT ![t].pc = "rehydrate", ![t].entry = e]
  BY DEF Fallback
<1>3. r \in Request /\ r.node \in Nodes /\ r.key \in Keys /\ r.evicted = None /\ node[r.node] = "serving"
  BY <1>1 DEF Typed, ThreadsTyped, Fits
<1>4. node' = node /\ ThreadsTyped /\ RedisTyped   BY <1>1 DEF threadOnly, nodeVars, Typed
<1>5. ASSUME Return(t) PROVE Moved
  <2>1. ThreadsTyped' /\ Others(t) /\ thread'[t] = Idle   BY <1>4, <1>5, Returned DEF Others
  <2> QED  BY <2>1 DEF Idle
<1>6. ASSUME NEW e \in RedisFind(r.key), Expired(e), Goto(t, "cleanup") PROVE Moved
  <2>1. e \in redis /\ e.key = r.key   BY <1>4, FoundInRedis
  <2>2. /\ ThreadsTyped' /\ Others(t) /\ thread'[t].pc = "cleanup" /\ thread'[t].evicted = None
        /\ thread'[t].node = r.node /\ thread'[t].key = r.key /\ thread'[t].asked = r.asked
    BY <1>1, <1>3, <1>4, <1>6, Gone DEF Pc, Others
  <2> QED  BY <1>6, <2>1, <2>2
<1>7. ASSUME NEW e \in RedisFind(r.key), ~ Expired(e),
             thread' = [thread EXCEPT ![t].pc = "rehydrate", ![t].entry = e]
      PROVE  Moved
  <2> DEFINE q == [r EXCEPT !.pc = "rehydrate", !.entry = e]
  <2>1. e \in redis /\ e \in Entry /\ e.key = r.key   BY <1>4, FoundInRedis
  <2>2. thread' = [thread EXCEPT ![t] = q]   BY <1>7
  <2>3. /\ q \in Request /\ q.pc = "rehydrate" /\ q.node = r.node /\ q.key = r.key /\ q.entry = e
        /\ q.evicted = None /\ q.asked = r.asked
    BY <1>3, <2>1 DEF Request, Pc
  <2> HIDE DEF q
  <2>4. Fits(q, node)   BY <1>3, <2>1, <2>3 DEF Fits
  <2>5. ThreadsTyped' /\ Others(t) /\ thread'[t] = q
    BY <1>4, <2>2, <2>3, <2>4, RequestStored DEF Others
  <2> QED  BY <1>7, <2>1, <2>3, <2>5
<1>8. Moved   BY <1>2, <1>5, <1>6, <1>7
<1>9. Typed'
  BY <1>1, <1>8 DEF Typed, LruTyped, RedisTyped, NodesTyped, CountsTyped, threadOnly, nodeVars, counters
<1> QED  BY <1>1, <1>8, <1>9

\* The key of an expired entry of Redis is deleted.
LEMMA CleanUpEffect ==
    ASSUME Typed, NEW t \in Threads, CleanUp(t)
    PROVE  /\ Typed' /\ UNCHANGED <<lru, threadOnly>> /\ Others(t)
           /\ thread[t].pc = "cleanup" /\ thread'[t] = Idle
           /\ redis' \subseteq redis /\ \A e \in redis : e.key # thread[t].key => e \in redis'
<1>1. /\ thread[t].pc = "cleanup" /\ UNCHANGED <<lru, threadOnly>> /\ Return(t)
      /\ RedisDelete(thread[t].key)
  BY DEF CleanUp
<1>2. /\ RedisTyped' /\ redis' \subseteq redis
      /\ \A e \in redis : e.key # thread[t].key => e \in redis'
  BY <1>1, RedisDeleted DEF Typed
<1>3. node' = node /\ ThreadsTyped   BY <1>1 DEF threadOnly, nodeVars, Typed
<1>4. ThreadsTyped' /\ Others(t) /\ thread'[t] = Idle   BY <1>1, <1>3, Returned DEF Others
<1>5. Typed'
  BY <1>1, <1>2, <1>4 DEF Typed, LruTyped, NodesTyped, CountsTyped, threadOnly, nodeVars, counters
<1> QED  BY <1>1, <1>2, <1>4, <1>5

\* What lru.put(e) leaves in the LRU of n: e under its key, and nothing new.
Has(n, e) == /\ e \in ToSet(lru'[n])
             /\ ToSet(lru'[n]) \subseteq {d \in ToSet(lru[n]) : d.key # e.key} \cup {e}
             /\ \A m \in Nodes : m # n => lru'[m] = lru[m]

LEMMA PutEffect ==
    ASSUME LruTyped, NEW n \in Nodes, NEW e \in Entry, NEW k, k = LruPut(lru[n], e)[2],
           lru' = [lru EXCEPT ![n] = LruPut(@, e)[1]]
    PROVE  /\ LruTyped' /\ Has(n, e) /\ k \in Keys \cup {None}
           /\ k # None => k # e.key /\ \A d \in ToSet(lru'[n]) : d.key # k
<1> DEFINE M == LruPut(lru[n], e)[1]
<1>1. lru[n] \in Seq(Entry) /\ Distinct(lru[n]) /\ Len(lru[n]) <= Capacity   BY DEF LruTyped
<1>2. lru' = [lru EXCEPT ![n] = M]   BY DEF LruTyped
<1>3. M = LruPut(lru[n], e)[1]   OBVIOUS
<1> HIDE DEF M
<1>4. /\ M \in Seq(Entry) /\ Distinct(M) /\ Len(M) <= Capacity
      /\ e \in ToSet(M) /\ ToSet(M) \subseteq {d \in ToSet(lru[n]) : d.key # e.key} \cup {e}
      /\ k \in Keys \cup {None}
      /\ k # None => k # e.key /\ \A d \in ToSet(M) : d.key # k
  BY <1>1, <1>3, PutEntries
<1>5. LruTyped' /\ lru'[n] = M /\ \A m \in Nodes : m # n => lru'[m] = lru[m]
  BY <1>2, <1>4, LruStored
<1> QED  BY <1>4, <1>5 DEF Has

\* A hit in Redis goes back into the LRU.
LEMMA RehydrateEffect ==
    ASSUME Typed, NEW t \in Threads, Rehydrate(t)
    PROVE  /\ Typed' /\ UNCHANGED <<redis, threadOnly>> /\ Others(t)
           /\ thread[t].pc = "rehydrate" /\ thread'[t] = Idle
           /\ Has(thread[t].node, thread[t].entry)
<1> DEFINE r == thread[t]
           k == LruPut(lru[r.node], r.entry)[2]
<1>1. /\ r.pc = "rehydrate" /\ UNCHANGED <<redis, threadOnly>> /\ Return(t)
      /\ lru' = [lru EXCEPT ![r.node] = LruPut(@, r.entry)[1]]
  BY DEF Rehydrate
<1>2. r.node \in Nodes /\ r.entry \in Entry   BY <1>1 DEF Typed, ThreadsTyped, Fits
<1>3. k = LruPut(lru[r.node], r.entry)[2]   OBVIOUS
<1> HIDE DEF k
<1>4. LruTyped' /\ Has(r.node, r.entry)
  <2> DEFINE n == r.node
             e == r.entry
  <2>1. /\ LruTyped /\ lru' = [lru EXCEPT ![n] = LruPut(@, e)[1]] /\ n \in Nodes /\ e \in Entry
        /\ k = LruPut(lru[n], e)[2]
    BY <1>1, <1>2, <1>3 DEF Typed
  <2> HIDE DEF n, e
  <2>2. LruTyped' /\ Has(n, e)   BY <2>1, PutEffect
  <2> QED  BY <2>2 DEF n, e
<1>5. node' = node /\ ThreadsTyped   BY <1>1 DEF threadOnly, nodeVars, Typed
<1>6. ThreadsTyped' /\ Others(t) /\ thread'[t] = Idle   BY <1>1, <1>5, Returned DEF Others
<1>7. Typed'
  BY <1>1, <1>4, <1>6 DEF Typed, RedisTyped, NodesTyped, CountsTyped, threadOnly, nodeVars, counters
<1> QED  BY <1>1, <1>4, <1>6, <1>7

\* A PUT dates its payload.
LEMMA PutBegins ==
    ASSUME Typed, NEW t \in Threads, PutCache(t)
    PROVE  /\ Typed' /\ UNCHANGED <<lru, redis, up, now, nodeVars, finished, safe, deletes, restarts, outages>>
           /\ Others(t) /\ thread[t].pc = "idle" /\ thread'[t].pc = "store"
           /\ thread'[t].evicted = None /\ thread'[t].asked = 0 /\ puts' = puts + 1
           /\ thread'[t].entry.data = puts + 1 /\ thread'[t].entry.made = now
           /\ thread'[t].entry.expires_at = now + TTL
<1> USE Bounds
<1>1. PICK n \in Nodes, k \in Keys :
         /\ thread[t].pc = "idle" /\ node[n] = "serving"
         /\ thread' = [thread EXCEPT ![t] = [Idle EXCEPT
               !.pc = "store", !.node = n, !.key = k,
               !.entry = [key |-> k, data |-> puts + 1, made |-> now, expires_at |-> now + TTL]]]
  BY DEF PutCache
<1> DEFINE e == [key |-> k, data |-> puts + 1, made |-> now, expires_at |-> now + TTL]
           r == [Idle EXCEPT !.pc = "store", !.node = n, !.key = k, !.entry = e]
<1>2. /\ UNCHANGED <<lru, redis, up, now, nodeVars, finished, safe, deletes, restarts, outages>>
      /\ puts < MaxPuts /\ puts' = puts + 1
  BY DEF PutCache
<1>3. puts \in 0..MaxPuts /\ now \in 0..MaxTime   BY DEF Typed, CountsTyped
<1>4. puts + 1 \in 1..MaxPuts /\ now + TTL \in 0..(MaxTime + TTL)   BY <1>2, <1>3
<1>5. /\ e \in Entry /\ e.key = k /\ e.data = puts + 1 /\ e.made = now
      /\ e.expires_at = now + TTL
  BY <1>3, <1>4 DEF Entry
<1>6. thread' = [thread EXCEPT ![t] = r]   BY <1>1
<1> HIDE DEF e
<1>7. /\ r \in Request /\ r.pc = "store" /\ r.node = n /\ r.key = k /\ r.entry = e /\ r.evicted = None
      /\ r.asked = 0
  <2>1. 0 \in 0..MaxTime   OBVIOUS
  <2> QED  BY <1>5, <2>1 DEF Idle, Request, Pc
<1> HIDE DEF r
<1>8. Fits(r, node)   BY <1>1, <1>5, <1>7 DEF Fits
<1>9. ThreadsTyped' /\ thread'[t] = r /\ Others(t)
  BY <1>2, <1>6, <1>7, <1>8, RequestStored DEF Typed, nodeVars, Others
<1>10. puts' \in 0..MaxPuts   BY <1>2, <1>4
<1>11. Typed'
  BY <1>2, <1>9, <1>10 DEF Typed, LruTyped, RedisTyped, NodesTyped, CountsTyped, nodeVars
<1> QED  BY <1>1, <1>2, <1>5, <1>7, <1>9, <1>11

\* lru.put of a PUT; without Redis it is answered.
LEMMA StoreEffect ==
    ASSUME Typed, NEW t \in Threads, Store(t)
    PROVE  /\ Typed' /\ UNCHANGED <<redis, up, now, nodeVars, counters>> /\ Others(t)
           /\ thread[t].pc = "store" /\ Has(thread[t].node, thread[t].entry)
           /\ \/ /\ ~ connected[thread[t].node] /\ thread'[t] = Idle /\ safe' = safe
                 /\ finished' = [finished EXCEPT ![thread[t].key] = thread[t].entry.data]
              \/ /\ connected[thread[t].node] /\ finished' = finished
                 /\ thread'[t].pc = "setex" /\ thread'[t].node = thread[t].node
                 /\ thread'[t].key = thread[t].key /\ thread'[t].entry = thread[t].entry
                 /\ thread'[t].asked = thread[t].asked
                 /\ \A k \in Keys : safe'[k] = IF k = thread'[t].evicted THEN None ELSE safe[k]
                 /\ thread'[t].evicted # None =>
                       /\ thread'[t].evicted # thread[t].key
                       /\ \A d \in ToSet(lru'[thread[t].node]) : d.key # thread'[t].evicted
<1> DEFINE r == thread[t]
           k == LruPut(lru[r.node], r.entry)[2]
           q == [r EXCEPT !.pc = "setex", !.evicted = k]
           Answered == /\ ~ connected[r.node] /\ thread'[t] = Idle /\ safe' = safe
                     /\ finished' = [finished EXCEPT ![r.key] = r.entry.data]
           Forward == /\ connected[r.node] /\ finished' = finished /\ thread'[t] = q
                      /\ \A j \in Keys : safe'[j] = IF j = k THEN None ELSE safe[j]
           Rest == /\ ThreadsTyped' /\ Others(t) /\ finished' \in [Keys -> 0..MaxPuts]
                   /\ safe' \in [Keys -> Entry \cup {None}]
<1>1. /\ r.pc = "store" /\ UNCHANGED <<redis, up, now, nodeVars, counters>>
      /\ lru' = [lru EXCEPT ![r.node] = LruPut(@, r.entry)[1]]
  BY DEF Store, Typed, LruTyped
<1>2. IF connected[r.node]
      THEN thread' = [thread EXCEPT ![t].pc = "setex", ![t].evicted = k] /\ finished' = finished
           /\ safe' = [j \in Keys |-> IF j = k THEN None ELSE safe[j]]
      ELSE Return(t) /\ finished' = [finished EXCEPT ![r.key] = r.entry.data] /\ safe' = safe
  BY DEF Store
<1>3. /\ r \in Request /\ r.node \in Nodes /\ r.key \in Keys /\ r.entry \in Entry /\ r.entry.key = r.key
      /\ node[r.node] = "serving"
  BY <1>1 DEF Typed, ThreadsTyped, Fits
<1>4. k = LruPut(lru[r.node], r.entry)[2]   OBVIOUS
<1> HIDE DEF k
<1>5. /\ LruTyped' /\ Has(r.node, r.entry) /\ k \in Keys \cup {None}
      /\ k # None => k # r.entry.key /\ \A d \in ToSet(lru'[r.node]) : d.key # k
  <2> DEFINE n == r.node
             e == r.entry
  <2>1. /\ LruTyped /\ lru' = [lru EXCEPT ![n] = LruPut(@, e)[1]] /\ n \in Nodes /\ e \in Entry
        /\ k = LruPut(lru[n], e)[2]
    BY <1>1, <1>3, <1>4 DEF Typed
  <2> HIDE DEF n, e
  <2>2. LruTyped' /\ Has(n, e) /\ k \in Keys \cup {None}   BY <2>1, PutEffect
  <2>3. k # None => k # e.key /\ \A d \in ToSet(lru'[n]) : d.key # k   BY <2>1, PutEffect
  <2> QED  BY <2>2, <2>3 DEF n, e
<1>6. node' = node /\ ThreadsTyped /\ finished \in [Keys -> 0..MaxPuts] /\ safe \in [Keys -> Entry \cup {None}]
  BY <1>1 DEF nodeVars, Typed
<1>7. /\ q \in Request /\ q.pc = "setex" /\ q.node = r.node /\ q.key = r.key /\ q.entry = r.entry
      /\ q.evicted = k /\ q.asked = r.asked
  BY <1>3, <1>5 DEF Request, Pc
<1>8. ASSUME connected[r.node] PROVE Forward /\ Rest
  <2>1. /\ thread' = [thread EXCEPT ![t] = q] /\ finished' = finished
        /\ safe' = [j \in Keys |-> IF j = k THEN None ELSE safe[j]]
    BY <1>2, <1>8
  <2> HIDE DEF q
  <2>2. Fits(q, node)   BY <1>3, <1>7 DEF Fits
  <2>3. ThreadsTyped' /\ Others(t) /\ thread'[t] = q
    BY <1>6, <1>7, <2>1, <2>2, RequestStored DEF Others
  <2>4. /\ safe' \in [Keys -> Entry \cup {None}]
        /\ \A j \in Keys : safe'[j] = IF j = k THEN None ELSE safe[j]
    BY <1>6, <2>1
  <2> QED  BY <1>6, <1>8, <2>1, <2>3, <2>4
<1>9. ASSUME ~ connected[r.node] PROVE Answered /\ Rest
  <2>1. Return(t) /\ finished' = [finished EXCEPT ![r.key] = r.entry.data] /\ safe' = safe
    BY <1>2, <1>9
  <2>2. r.entry.data \in 0..MaxPuts   BY <1>3, Bounds DEF Entry
  <2>3. finished' \in [Keys -> 0..MaxPuts]   BY <1>6, <2>1, <2>2
  <2>4. ThreadsTyped' /\ Others(t) /\ thread'[t] = Idle   BY <1>6, <2>1, Returned DEF Others
  <2> QED  BY <1>6, <1>9, <2>1, <2>3, <2>4
<1>10. Typed'
  <2>1. Rest   BY <1>8, <1>9
  <2> QED  BY <1>1, <1>5, <2>1 DEF Typed, RedisTyped, NodesTyped, CountsTyped, nodeVars, counters
<1> HIDE DEF q
<1> QED  BY <1>1, <1>3, <1>5, <1>7, <1>8, <1>9, <1>10

\* SETEX, the answer when nothing was evicted
LEMMA WriteThroughEffect ==
    ASSUME Typed, NEW t \in Threads, WriteThrough(t)
    PROVE  /\ Typed' /\ UNCHANGED <<lru, up, now, nodeVars, counters>> /\ Others(t)
           /\ thread[t].pc = "setex" /\ redis' \subseteq redis \cup {thread[t].entry}
           /\ up => /\ thread[t].entry \in redis'
                    /\ \A d \in redis' : d.key = thread[t].key => d = thread[t].entry
                    /\ \A d \in redis : d.key # thread[t].key => d \in redis'
           /\ \A k \in Keys : safe'[k] = IF up /\ Unrivalled(t) /\ k = thread[t].key
                                          THEN thread[t].entry ELSE safe[k]
           /\ \/ /\ thread[t].evicted = None /\ thread'[t] = Idle
                 /\ finished' = [finished EXCEPT ![thread[t].key] = thread[t].entry.data]
              \/ /\ thread[t].evicted # None /\ finished' = finished /\ thread'[t].pc = "unevict"
                 /\ thread'[t].node = thread[t].node /\ thread'[t].key = thread[t].key
                 /\ thread'[t].entry = thread[t].entry /\ thread'[t].evicted = thread[t].evicted
                 /\ thread'[t].asked = thread[t].asked
<1> DEFINE r == thread[t]
           Answered == /\ r.evicted = None /\ thread'[t] = Idle
                     /\ finished' = [finished EXCEPT ![r.key] = r.entry.data]
           Forward == /\ r.evicted # None /\ finished' = finished /\ thread'[t].pc = "unevict"
                      /\ thread'[t].node = r.node /\ thread'[t].key = r.key
                      /\ thread'[t].entry = r.entry /\ thread'[t].evicted = r.evicted
                      /\ thread'[t].asked = r.asked
           Rest == ThreadsTyped' /\ Others(t) /\ finished' \in [Keys -> 0..MaxPuts]
<1>1. /\ r.pc = "setex" /\ UNCHANGED <<lru, up, now, nodeVars, counters>> /\ RedisSetex(r.entry)
      /\ IF r.evicted # None THEN Goto(t, "unevict") /\ finished' = finished
         ELSE Return(t) /\ finished' = [finished EXCEPT ![r.key] = r.entry.data]
  BY DEF WriteThrough
<1>2. /\ r \in Request /\ r.node \in Nodes /\ r.key \in Keys /\ r.entry \in Entry /\ r.entry.key = r.key
      /\ r.evicted \in Keys \cup {None}
  BY <1>1 DEF Typed, ThreadsTyped, Fits, Request
<1>3. /\ RedisTyped' /\ redis' \subseteq redis \cup {r.entry}
      /\ up => /\ r.entry \in redis' /\ \A d \in redis' : d.key = r.key => d = r.entry
               /\ \A d \in redis : d.key # r.key => d \in redis'
  BY <1>1, <1>2, RedisWritten DEF Typed
<1>4. node' = node /\ ThreadsTyped /\ finished \in [Keys -> 0..MaxPuts]
  BY <1>1 DEF nodeVars, Typed
<1>a. safe' = IF up /\ Unrivalled(t) THEN [safe EXCEPT ![r.key] = r.entry] ELSE safe
  BY DEF WriteThrough
<1>b. safe \in [Keys -> Entry \cup {None}]   BY DEF Typed
<1>c. /\ safe' \in [Keys -> Entry \cup {None}]
      /\ \A k \in Keys : safe'[k] = IF up /\ Unrivalled(t) /\ k = r.key THEN r.entry ELSE safe[k]
  <2>1. CASE up /\ Unrivalled(t)
    <3>1. safe' = [safe EXCEPT ![r.key] = r.entry]   BY <1>a, <2>1
    <3> QED  BY <1>2, <1>b, <2>1, <3>1
  <2>2. CASE ~ (up /\ Unrivalled(t))   BY <1>a, <1>b, <2>2
  <2> QED  BY <2>1, <2>2
<1>5. ASSUME r.evicted # None PROVE Forward /\ Rest
  <2>1. Goto(t, "unevict") /\ finished' = finished /\ r.evicted \in Keys   BY <1>1, <1>2, <1>5
  <2>2. /\ ThreadsTyped' /\ Others(t) /\ thread'[t].pc = "unevict" /\ thread'[t].evicted = r.evicted
        /\ thread'[t].node = r.node /\ thread'[t].key = r.key /\ thread'[t].entry = r.entry
        /\ thread'[t].asked = r.asked
    BY <1>1, <1>4, <2>1, Gone DEF Pc, Others
  <2> QED  BY <1>4, <1>5, <2>1, <2>2
<1>6. ASSUME r.evicted = None PROVE Answered /\ Rest
  <2>1. Return(t) /\ finished' = [finished EXCEPT ![r.key] = r.entry.data]   BY <1>1, <1>6
  <2>2. r.entry.data \in 0..MaxPuts   BY <1>2, Bounds DEF Entry
  <2>3. finished' \in [Keys -> 0..MaxPuts]   BY <1>4, <2>1, <2>2
  <2>4. ThreadsTyped' /\ Others(t) /\ thread'[t] = Idle   BY <1>4, <2>1, Returned DEF Others
  <2> QED  BY <1>6, <2>1, <2>3, <2>4
<1>7. Typed'
  <2>1. Rest   BY <1>5, <1>6
  <2> QED  BY <1>1, <1>3, <1>c, <2>1 DEF Typed, LruTyped, NodesTyped, CountsTyped, nodeVars, counters
<1> QED  BY <1>1, <1>3, <1>5, <1>6, <1>7, <1>c

\* The evicted key leaves Redis too, and the PUT is answered.
LEMMA UnEvictEffect ==
    ASSUME Typed, NEW t \in Threads, UnEvict(t)
    PROVE  /\ Typed' /\ UNCHANGED <<lru, up, now, nodeVars, safe, counters>> /\ Others(t)
           /\ thread[t].pc = "unevict" /\ thread'[t] = Idle /\ redis' \subseteq redis
           /\ \A e \in redis : e.key # thread[t].evicted => e \in redis'
           /\ finished' = [finished EXCEPT ![thread[t].key] = thread[t].entry.data]
<1> DEFINE r == thread[t]
<1>1. /\ r.pc = "unevict" /\ UNCHANGED <<lru, up, now, nodeVars, safe, counters>> /\ RedisDelete(r.evicted)
      /\ Return(t) /\ finished' = [finished EXCEPT ![r.key] = r.entry.data]
  BY DEF UnEvict
<1>2. r.key \in Keys /\ r.entry \in Entry   BY <1>1 DEF Typed, ThreadsTyped, Fits
<1>3. RedisTyped' /\ redis' \subseteq redis /\ \A e \in redis : e.key # r.evicted => e \in redis'
  BY <1>1, RedisDeleted DEF Typed
<1>4. node' = node /\ ThreadsTyped /\ finished \in [Keys -> 0..MaxPuts]
  BY <1>1 DEF nodeVars, Typed
<1>5. r.entry.data \in 0..MaxPuts   BY <1>2, Bounds DEF Entry
<1>6. finished' \in [Keys -> 0..MaxPuts]   BY <1>1, <1>4, <1>5
<1>7. ThreadsTyped' /\ Others(t) /\ thread'[t] = Idle   BY <1>1, <1>4, Returned DEF Others
<1>8. Typed'
  BY <1>1, <1>3, <1>6, <1>7 DEF Typed, LruTyped, NodesTyped, CountsTyped, nodeVars, counters
<1> QED  BY <1>1, <1>3, <1>7, <1>8

\* DELETE takes an entry out of one LRU.
LEMMA DeleteEffect ==
    ASSUME Typed, NEW t \in Threads, DeleteCache(t)
    PROVE  /\ Typed' /\ deletes' = deletes + 1 /\ thread[t].pc = "idle"
           /\ UNCHANGED <<redis, up, now, nodeVars, thread, finished, safe, puts, restarts, outages>>
           /\ \A n \in Nodes : ToSet(lru'[n]) \subseteq ToSet(lru[n])
<1>1. PICK n \in Nodes, k \in Keys :
         thread[t].pc = "idle" /\ lru' = [lru EXCEPT ![n] = LruDelete(@, k)]
  BY DEF DeleteCache
<1> DEFINE L == lru[n]
           M == LruDelete(L, k)
<1>2. /\ UNCHANGED <<redis, up, now, nodeVars, thread, finished, safe, puts, restarts, outages>>
      /\ deletes < MaxDeletes /\ deletes' = deletes + 1
  BY DEF DeleteCache
<1>3. L \in Seq(Entry) /\ Distinct(L) /\ Len(L) <= Capacity /\ Len(L) \in Nat
  BY DEF Typed, LruTyped
<1>4. /\ M \in Seq(Entry) /\ Distinct(M) /\ Len(M) <= Len(L) /\ ToSet(M) \subseteq ToSet(L)
  BY <1>3, DeletedEntries
<1>5. lru' = [lru EXCEPT ![n] = M]   BY <1>1 DEF Typed, LruTyped
<1> HIDE DEF M
<1>6. Len(M) <= Capacity   BY <1>3, <1>4, Bounds, ListElements
<1>7. LruTyped' /\ lru'[n] = M /\ \A m \in Nodes : m # n => lru'[m] = lru[m]
  BY <1>4, <1>5, <1>6, LruStored DEF Typed
<1>8. deletes' \in 0..MaxDeletes   BY <1>2, Bounds DEF Typed, CountsTyped
<1>9. Typed'
  BY <1>2, <1>7, <1>8 DEF Typed, RedisTyped, NodesTyped, ThreadsTyped, CountsTyped, nodeVars
<1> QED  BY <1>1, <1>2, <1>4, <1>7, <1>9

-----------------------------------------------------------------------------
(* What starts, restarts, the clock and Redis do.                          *)

\* Requests are in serving nodes only, so a change of another node is not
\* theirs to see.
LEMMA RequestsStay ==
    ASSUME ThreadsTyped, thread' = thread, NEW n, node[n] # "serving",
           \A m \in Nodes : m # n => node'[m] = node[m]
    PROVE  ThreadsTyped'
<1>1. ASSUME NEW t \in Threads PROVE Fits(thread[t], node')
  BY DEF ThreadsTyped, Fits
<1> QED  BY <1>1 DEF ThreadsTyped

LEMMA ColdStart == Cold \in Warming /\ Cold.keys = {} /\ Cold.expired = None
BY Bounds DEF Cold, Warming

LEMMA BootEffect ==
    ASSUME Typed, NEW n \in Nodes, Boot(n)
    PROVE  /\ Typed' /\ UNCHANGED <<lru, redis, up, now, thread, finished, safe, counters>>
           /\ node[n] = "down" /\ node'[n] \in {"warming", "serving"}
           /\ connected'[n] = up /\ warm'[n].expired = None
           /\ up => warm'[n].at = now
           /\ \A m \in Nodes : m # n => UNCHANGED <<node[m], connected[m], warm[m]>>
<1> DEFINE w == IF up THEN [keys |-> {e.key : e \in redis}, at |-> now, expired |-> None] ELSE Cold
           s == IF up /\ redis # {} THEN "warming" ELSE "serving"
<1>1. /\ UNCHANGED <<lru, redis, up, now, thread, finished, safe, counters>> /\ node[n] = "down"
      /\ connected' = [connected EXCEPT ![n] = up] /\ node' = [node EXCEPT ![n] = s]
      /\ warm' = [warm EXCEPT ![n] = w]
  BY DEF Boot
<1>2. {e.key : e \in redis} \subseteq Keys   BY DEF Typed, RedisTyped, Entry
<1>3. w \in Warming /\ w.expired = None /\ (up => w.at = now)
  <2>1. CASE up   BY <1>2, <2>1 DEF Warming, Typed
  <2>2. CASE ~ up   BY <2>2, ColdStart
  <2> QED  BY <2>1, <2>2
<1>4. s \in {"warming", "serving"}   OBVIOUS
<1> HIDE DEF w, s
<1>5. NodesTyped' /\ node'[n] = s /\ connected'[n] = up /\ warm'[n] = w
      /\ \A m \in Nodes : m # n => UNCHANGED <<node[m], connected[m], warm[m]>>
  BY <1>1, <1>3, <1>4 DEF Typed, NodesTyped
<1>6. ThreadsTyped'   BY <1>1, <1>5, RequestsStay DEF Typed
<1>7. Typed'
  BY <1>1, <1>5, <1>6 DEF Typed, LruTyped, RedisTyped, CountsTyped, counters
<1> QED  BY <1>1, <1>3, <1>4, <1>5, <1>7

\* One key is read: its entry goes into the LRU, or is left to be deleted.
LEMMA WarmReadEffect ==
    ASSUME Typed, NEW n \in Nodes, WarmRead(n)
    PROVE  /\ Typed' /\ UNCHANGED <<redis, up, now, node, connected, thread, finished, safe, counters>>
           /\ node[n] = "warming" /\ warm[n].expired = None
           /\ \A m \in Nodes : m # n => warm'[m] = warm[m]
           /\ warm'[n].at = warm[n].at
           /\ \E k \in warm[n].keys :
                 /\ warm'[n].keys = warm[n].keys \ {k} /\ warm'[n].expired \in {None, k}
                 /\ warm'[n].expired = k => \E e \in redis : e.key = k /\ warm[n].at > e.expires_at
                 /\ \/ lru' = lru
                    \/ \E e \in redis : /\ e.key = k /\ Has(n, e) /\ warm'[n].expired = None
<1> DEFINE found(k) == IF up THEN RedisFind(k) ELSE {}
           stale(k) == {e \in found(k) : warm[n].at > e.expires_at}
<1>1. /\ UNCHANGED <<redis, up, now, node, connected, thread, finished, safe, counters>>
      /\ node[n] = "warming" /\ warm[n].expired = None
  BY DEF WarmRead
<1>2. PICK k \in warm[n].keys :
         /\ warm' = [warm EXCEPT ![n].keys = @ \ {k}, ![n].expired = IF stale(k) = {} THEN None ELSE k]
         /\ \/ \E e \in found(k) \ stale(k) : lru' = [lru EXCEPT ![n] = LruPut(@, e)[1]]
            \/ lru' = lru
  BY DEF WarmRead
<1> DEFINE x == IF stale(k) = {} THEN None ELSE k
           w == [warm[n] EXCEPT !.keys = @ \ {k}, !.expired = x]
<1>3. found(k) \subseteq redis /\ stale(k) \subseteq found(k) /\ \A e \in found(k) : e \in Entry /\ e.key = k
  BY FoundInRedis DEF Typed, RedisFind
<1>4. stale(k) # {} => \E e \in redis : e.key = k /\ warm[n].at > e.expires_at   BY <1>3
<1>5. \A d, e \in found(k) : d = e   BY <1>3 DEF Typed, RedisTyped, OneEach
<1>6. \A e \in found(k) \ stale(k) : x = None   BY <1>5
<1>7. warm' = [warm EXCEPT ![n] = w] /\ x \in {None, k} /\ (x = k /\ k # None => stale(k) # {})
  BY <1>2
<1> HIDE DEF found, stale, x
<1>8. warm[n] \in Warming /\ k \in Keys /\ k # None   BY Bounds DEF Typed, NodesTyped, Warming
<1>9. /\ w \in Warming /\ w.keys = warm[n].keys \ {k} /\ w.expired = x /\ w.at = warm[n].at
  BY <1>7, <1>8 DEF Warming
<1> HIDE DEF w
<1>10. NodesTyped' /\ warm'[n] = w /\ \A m \in Nodes : m # n => warm'[m] = warm[m]
  BY <1>1, <1>7, <1>9 DEF Typed, NodesTyped
<1>11. /\ LruTyped'
       /\ \/ lru' = lru
          \/ \E e \in redis : e.key = k /\ Has(n, e) /\ x = None
  <2>1. ASSUME NEW e \in found(k) \ stale(k), lru' = [lru EXCEPT ![n] = LruPut(@, e)[1]]
        PROVE  LruTyped' /\ e \in redis /\ e.key = k /\ Has(n, e) /\ x = None
    <3> DEFINE j == LruPut(lru[n], e)[2]
    <3>1. e \in redis /\ e \in Entry /\ e.key = k /\ x = None   BY <1>3, <1>6
    <3>2. j = LruPut(lru[n], e)[2]   OBVIOUS
    <3> HIDE DEF j
    <3>3. LruTyped' /\ Has(n, e)   BY <2>1, <3>1, <3>2, PutEffect DEF Typed
    <3> QED  BY <3>1, <3>3
  <2>2. CASE lru' = lru   BY <2>2 DEF Typed, LruTyped
  <2> QED  BY <1>2, <2>1, <2>2
<1>12. Typed'
  BY <1>1, <1>10, <1>11 DEF Typed, RedisTyped, ThreadsTyped, CountsTyped, counters
<1>13. /\ warm'[n].keys = warm[n].keys \ {k} /\ warm'[n].expired \in {None, k}
       /\ warm'[n].expired = k => \E e \in redis : e.key = k /\ warm[n].at > e.expires_at
       /\ warm'[n].at = warm[n].at /\ warm'[n].expired = x
  BY <1>4, <1>7, <1>8, <1>9, <1>10
<1> QED  BY <1>1, <1>10, <1>11, <1>12, <1>13

\* "Already expired — skip"
LEMMA WarmDeleteEffect ==
    ASSUME Typed, NEW n \in Nodes, WarmDelete(n)
    PROVE  /\ Typed' /\ UNCHANGED <<lru, up, now, node, connected, thread, finished, safe, counters>>
           /\ node[n] = "warming" /\ warm[n].expired # None
           /\ \A m \in Nodes : m # n => warm'[m] = warm[m]
           /\ warm'[n].at = warm[n].at /\ warm'[n].keys = warm[n].keys /\ warm'[n].expired = None
           /\ redis' \subseteq redis /\ \A e \in redis : e.key # warm[n].expired => e \in redis'
<1> DEFINE w == [warm[n] EXCEPT !.expired = None]
<1>1. /\ UNCHANGED <<lru, up, now, node, connected, thread, finished, safe, counters>>
      /\ node[n] = "warming" /\ warm[n].expired # None /\ RedisDelete(warm[n].expired)
      /\ warm' = [warm EXCEPT ![n] = w]
  BY DEF WarmDelete
<1>2. /\ RedisTyped' /\ redis' \subseteq redis
      /\ \A e \in redis : e.key # warm[n].expired => e \in redis'
  BY <1>1, RedisDeleted DEF Typed
<1>3. /\ w \in Warming /\ w.keys = warm[n].keys /\ w.expired = None /\ w.at = warm[n].at
  BY DEF Typed, NodesTyped, Warming
<1> HIDE DEF w
<1>4. NodesTyped' /\ warm'[n] = w /\ \A m \in Nodes : m # n => warm'[m] = warm[m]
  BY <1>1, <1>3 DEF Typed, NodesTyped
<1>5. Typed'
  BY <1>1, <1>2, <1>4 DEF Typed, LruTyped, ThreadsTyped, CountsTyped, counters
<1> QED  BY <1>1, <1>2, <1>3, <1>4, <1>5

LEMMA WarmedEffect ==
    ASSUME Typed, NEW n \in Nodes, Warmed(n)
    PROVE  /\ Typed' /\ UNCHANGED <<lru, redis, up, now, connected, thread, finished, safe, counters>>
           /\ node[n] = "warming" /\ node'[n] = "serving" /\ warm'[n] = Cold
           /\ \A m \in Nodes : m # n => UNCHANGED <<node[m], warm[m]>>
<1>1. /\ UNCHANGED <<lru, redis, up, now, connected, thread, finished, safe, counters>>
      /\ node[n] = "warming" /\ node' = [node EXCEPT ![n] = "serving"]
      /\ warm' = [warm EXCEPT ![n] = Cold]
  BY DEF Warmed
<1>2. NodesTyped' /\ node'[n] = "serving" /\ warm'[n] = Cold
      /\ \A m \in Nodes : m # n => UNCHANGED <<node[m], warm[m]>>
  BY <1>1, ColdStart DEF Typed, NodesTyped
<1>3. ThreadsTyped'   BY <1>1, <1>2, RequestsStay DEF Typed
<1>4. Typed'
  BY <1>1, <1>2, <1>3 DEF Typed, LruTyped, RedisTyped, CountsTyped, counters
<1> QED  BY <1>1, <1>2, <1>4

\* The LRU and the requests of a node that stops are gone.
LEMMA StopEffect ==
    ASSUME Typed, NEW n \in Nodes, Stop(n)
    PROVE  /\ Typed' /\ UNCHANGED <<redis, up, now, finished, safe, puts, deletes, outages>>
           /\ node'[n] = "down" /\ warm'[n] = Cold /\ ToSet(lru'[n]) = {}
           /\ \A m \in Nodes : m # n => UNCHANGED <<node[m], connected[m], warm[m], lru[m]>>
           /\ \A t \in Threads : \/ thread'[t] = Idle
                                 \/ thread[t].node # n /\ thread'[t] = thread[t]
<1>1. /\ UNCHANGED <<redis, up, now, finished, safe, puts, deletes, outages>>
      /\ restarts < MaxRestarts /\ restarts' = restarts + 1
      /\ node' = [node EXCEPT ![n] = "down"] /\ warm' = [warm EXCEPT ![n] = Cold]
      /\ connected' = [connected EXCEPT ![n] = FALSE] /\ lru' = [lru EXCEPT ![n] = << >>]
      /\ thread' = [t \in Threads |-> IF thread[t].node = n THEN Idle ELSE thread[t]]
  BY DEF Stop
<1>2. /\ NodesTyped' /\ node'[n] = "down" /\ warm'[n] = Cold
      /\ \A m \in Nodes : m # n => UNCHANGED <<node[m], connected[m], warm[m]>>
  BY <1>1, ColdStart DEF Typed, NodesTyped
<1>3. << >> \in Seq(Entry) /\ Distinct(<< >>) /\ Len(<< >>) <= Capacity /\ ToSet(<< >>) = {}
  BY Bounds DEF Distinct, ToSet
<1>4. LruTyped' /\ lru'[n] = << >> /\ \A m \in Nodes : m # n => lru'[m] = lru[m]
  BY <1>1, <1>3, LruStored DEF Typed
<1>5. \A t \in Threads : \/ thread'[t] = Idle
                         \/ thread[t].node # n /\ thread'[t] = thread[t]
  BY <1>1
<1>6. ThreadsTyped'
  <2>1. ASSUME NEW t \in Threads PROVE thread'[t] \in Request /\ Fits(thread'[t], node')
    <3>1. CASE thread'[t] = Idle   BY <3>1, IdleRequest
    <3>2. CASE thread[t].node # n /\ thread'[t] = thread[t]
      <4>1. thread[t] \in Request /\ Fits(thread[t], node)   BY DEF Typed, ThreadsTyped
      <4>2. Fits(thread[t], node')   BY <1>2, <3>2, <4>1 DEF Fits
      <4> QED  BY <3>2, <4>1, <4>2
    <3> QED  BY <1>5, <3>1, <3>2
  <2>2. thread' = [t \in Threads |-> thread'[t]]   BY <1>1
  <2> QED  BY <2>1, <2>2 DEF ThreadsTyped
<1>7. restarts' \in 0..MaxRestarts   BY <1>1, Bounds DEF Typed, CountsTyped
<1>8. Typed'
  BY <1>1, <1>2, <1>4, <1>6, <1>7 DEF Typed, RedisTyped, CountsTyped
<1> QED  BY <1>1, <1>2, <1>3, <1>4, <1>5, <1>8

LEMMA ExpiryEffect ==
    ASSUME Typed, RedisExpires
    PROVE  /\ Typed' /\ UNCHANGED <<lru, up, now, nodeVars, thread, finished, safe, counters>>
           /\ \E e \in redis : Expired(e) /\ redis' = redis \ {e}
<1>1. /\ UNCHANGED <<lru, up, now, nodeVars, thread, finished, safe, counters>>
      /\ \E e \in redis : Expired(e) /\ redis' = redis \ {e}
  BY DEF RedisExpires
<1>2. RedisTyped'   BY <1>1 DEF Typed, RedisTyped, OneEach
<1>3. Typed'
  BY <1>1, <1>2 DEF Typed, LruTyped, NodesTyped, ThreadsTyped, CountsTyped, nodeVars, counters
<1> QED  BY <1>1, <1>3

LEMMA OutageEffect ==
    ASSUME Typed, Outage \/ Recovery \/ Tick
    PROVE  /\ Typed' /\ UNCHANGED <<lru, redis, nodeVars, thread, finished, safe, puts, deletes, restarts>>
           /\ \/ UNCHANGED <<up, outages>> /\ now' = now + 1
              \/ ~ up /\ UNCHANGED <<now, outages>>
              \/ now' = now /\ outages' = outages + 1
<1>1. CASE Outage
  <2>1. outages' \in 0..MaxOutages   BY <1>1, Bounds DEF Outage, Typed, CountsTyped
  <2> QED
    BY <1>1, <2>1 DEF Outage, Typed, LruTyped, RedisTyped, NodesTyped, ThreadsTyped, CountsTyped, nodeVars
<1>2. CASE Recovery
  BY <1>2 DEF Recovery, Typed, LruTyped, RedisTyped, NodesTyped, ThreadsTyped, CountsTyped, nodeVars, counters
<1>3. CASE Tick
  <2>1. now' \in 0..MaxTime   BY <1>3, Bounds DEF Tick, Typed
  <2> QED
    BY <1>3, <2>1 DEF Tick, Typed, LruTyped, RedisTyped, NodesTyped, ThreadsTyped, CountsTyped, nodeVars, counters
<1> QED  BY <1>1, <1>2, <1>3

-----------------------------------------------------------------------------
(* Type correctness.                                                       *)

LEMMA TypedInit == Init => Typed
<1> SUFFICES ASSUME Init PROVE Typed   OBVIOUS
<1> USE Bounds
<1>1. LruTyped
  <2>1. << >> \in Seq(Entry) /\ Distinct(<< >>) /\ Len(<< >>) <= Capacity   BY DEF Distinct
  <2> QED  BY <2>1 DEF Init, LruTyped
<1>2. NodesTyped   BY ColdStart DEF Init, NodesTyped
<1>3. ThreadsTyped   BY IdleRequest DEF Init, ThreadsTyped
<1> QED  BY <1>1, <1>2, <1>3 DEF Init, Typed, RedisTyped, OneEach, CountsTyped

LEMMA TypedStep == Typed /\ [Next]_vars => Typed'
<1> SUFFICES ASSUME Typed, [Next]_vars PROVE Typed'   OBVIOUS
<1>1. ASSUME NEW t \in Threads,
             \/ GetCache(t) \/ Lookup(t) \/ ExpiredInLru(t) \/ PurgeRedis(t) \/ Fallback(t)
             \/ CleanUp(t) \/ Rehydrate(t) \/ PutCache(t) \/ Store(t) \/ WriteThrough(t)
             \/ UnEvict(t) \/ DeleteCache(t)
      PROVE  Typed'
  BY <1>1, RequestBegins, LookupEffect, ExpiredEffect, PurgeEffect, FallbackEffect, CleanUpEffect,
     RehydrateEffect, PutBegins, StoreEffect, WriteThroughEffect, UnEvictEffect, DeleteEffect
<1>2. ASSUME NEW n \in Nodes, Boot(n) \/ WarmRead(n) \/ WarmDelete(n) \/ Warmed(n) \/ Stop(n)
      PROVE  Typed'
  BY <1>2, BootEffect, WarmReadEffect, WarmDeleteEffect, WarmedEffect, StopEffect
<1>3. CASE RedisExpires \/ Outage \/ Recovery \/ Tick
  BY <1>3, ExpiryEffect, OutageEffect
<1>4. CASE UNCHANGED vars
  BY <1>4 DEF vars, nodeVars, counters, Typed, LruTyped, RedisTyped, NodesTyped, ThreadsTyped,
              CountsTyped
<1> QED  BY <1>1, <1>2, <1>3, <1>4 DEF Next

(***************************************************************************)
(* Every variable of the cache keeps its type; an LRU never exceeds its    *)
(* capacity, and neither level ever holds two entries for one key, whatever *)
(* the threads of the nodes do to them between two steps of a request.     *)
(***************************************************************************)
THEOREM TypesHold == Spec => []TypeOK
<1>1. Typed => TypeOK
  <2> SUFFICES ASSUME Typed PROVE TypeOK   OBVIOUS
  <2>1. ASSUME NEW n \in Nodes
        PROVE  /\ ToSet(lru[n]) \subseteq Entry /\ Len(lru[n]) <= Capacity
               /\ \A i, j \in DOMAIN lru[n] : lru[n][i].key = lru[n][j].key => i = j
    <3>1. lru[n] \in Seq(Entry) /\ Distinct(lru[n]) /\ Len(lru[n]) <= Capacity
      BY DEF Typed, LruTyped
    <3> QED  BY <3>1, ListElements DEF Distinct
  <2> QED
    BY <2>1 DEF Typed, RedisTyped, OneEach, NodesTyped, ThreadsTyped, CountsTyped, Warming,
                Request, TypeOK
<1> QED  BY <1>1, TypedInit, TypedStep, PTL DEF Spec

-----------------------------------------------------------------------------
(* Where entries come from.                                                *)

Carrying == {"rehydrate", "store", "setex", "unevict"}
Carried(e) == \/ e \in redis \/ \E n \in Nodes : e \in ToSet(lru[n])
              \/ \E t \in Threads : thread[t].pc \in Carrying /\ thread[t].entry = e
Fresh(e) == e.made = now /\ e.expires_at = now + TTL /\ e.data = puts + 1

\* lru.put of a carried entry brings nothing new.
LEMMA HasBringsNothing ==
    ASSUME NEW n \in Nodes, NEW e, Carried(e), Has(n, e),
           NEW m \in Nodes, NEW d \in ToSet(lru'[m])
    PROVE  Carried(d)
<1>1. CASE m = n
  <2>1. d \in ToSet(lru[n]) \/ d = e   BY <1>1 DEF Has
  <2> QED  BY <2>1 DEF Carried
<1>2. CASE m # n
  <2>1. d \in ToSet(lru[m])   BY <1>2 DEF Has
  <2> QED  BY <2>1 DEF Carried
<1> QED  BY <1>1, <1>2

\* Whatever the step, only a PUT makes an entry; no step changes one.
LEMMA EntriesComeFromPuts ==
    ASSUME Typed, [Next]_vars, NEW e, Carried(e)'
    PROVE  Carried(e) \/ (Fresh(e) /\ puts' = puts + 1)
<1> USE DEF Carrying
<1>0. \/ e \in redis' \/ \E n \in Nodes : e \in ToSet(lru'[n])
      \/ \E u \in Threads : thread'[u].pc \in Carrying /\ thread'[u].entry = e
  BY DEF Carried
<1>a. ASSUME NEW t \in Threads, Others(t), thread'[t].pc \notin Carrying, redis' \subseteq redis,
             \A n \in Nodes : ToSet(lru'[n]) \subseteq ToSet(lru[n])
      PROVE  Carried(e)
  BY <1>0, <1>a DEF Carried, Others
<1>1. ASSUME NEW t \in Threads, GetCache(t) PROVE Carried(e)
  BY <1>1, <1>a, RequestBegins
<1>2. ASSUME NEW t \in Threads, Lookup(t) PROVE Carried(e)   BY <1>2, <1>a, LookupEffect
<1>3. ASSUME NEW t \in Threads, ExpiredInLru(t) PROVE Carried(e)   BY <1>3, <1>a, ExpiredEffect
<1>4. ASSUME NEW t \in Threads, PurgeRedis(t) PROVE Carried(e)   BY <1>4, <1>a, PurgeEffect
<1>5. ASSUME NEW t \in Threads, Fallback(t) PROVE Carried(e)
  BY <1>0, <1>5, FallbackEffect DEF Carried, Others
<1>6. ASSUME NEW t \in Threads, CleanUp(t) PROVE Carried(e)
  BY <1>6, <1>a, CleanUpEffect, IdleRequest
<1>7. ASSUME NEW t \in Threads, Rehydrate(t) PROVE Carried(e)
  <2>1. /\ UNCHANGED redis /\ Others(t) /\ thread[t].pc = "rehydrate" /\ thread'[t].pc = "idle"
        /\ Has(thread[t].node, thread[t].entry) /\ thread[t].node \in Nodes
    BY <1>7, RehydrateEffect, IdleRequest DEF Typed, ThreadsTyped, Fits
  <2>2. Carried(thread[t].entry)   BY <2>1 DEF Carried
  <2>3. \A n \in Nodes : \A d \in ToSet(lru'[n]) : Carried(d)   BY <2>1, <2>2, HasBringsNothing
  <2> QED  BY <1>0, <2>1, <2>3 DEF Carried, Others
<1>8. ASSUME NEW t \in Threads, PutCache(t) PROVE Carried(e) \/ (Fresh(e) /\ puts' = puts + 1)
  BY <1>0, <1>8, PutBegins DEF Carried, Fresh, Others
<1>9. ASSUME NEW t \in Threads, Store(t) PROVE Carried(e)
  <2>1. /\ UNCHANGED redis /\ Others(t) /\ thread[t].pc = "store"
        /\ Has(thread[t].node, thread[t].entry) /\ thread[t].node \in Nodes
        /\ thread'[t].pc = "idle" \/ thread'[t].entry = thread[t].entry
    BY <1>9, StoreEffect, IdleRequest DEF Typed, ThreadsTyped, Fits
  <2>2. Carried(thread[t].entry)   BY <2>1 DEF Carried
  <2>3. \A n \in Nodes : \A d \in ToSet(lru'[n]) : Carried(d)   BY <2>1, <2>2, HasBringsNothing
  <2> QED  BY <1>0, <2>1, <2>3 DEF Carried, Others
<1>10. ASSUME NEW t \in Threads, WriteThrough(t) PROVE Carried(e)
  <2>1. /\ UNCHANGED lru /\ Others(t) /\ thread[t].pc = "setex"
        /\ redis' \subseteq redis \cup {thread[t].entry}
        /\ thread'[t].pc = "idle" \/ thread'[t].entry = thread[t].entry
    BY <1>10, WriteThroughEffect, IdleRequest
  <2> QED  BY <1>0, <2>1 DEF Carried, Others
<1>11. ASSUME NEW t \in Threads, UnEvict(t) PROVE Carried(e)
  BY <1>11, <1>a, UnEvictEffect, IdleRequest
<1>12. ASSUME NEW t \in Threads, DeleteCache(t) PROVE Carried(e)
  BY <1>0, <1>12, DeleteEffect DEF Carried
<1>13. ASSUME NEW n \in Nodes, Boot(n) PROVE Carried(e)   BY <1>0, <1>13, BootEffect DEF Carried
<1>14. ASSUME NEW n \in Nodes, WarmRead(n) PROVE Carried(e)
  <2>1. UNCHANGED <<redis, thread>> /\ (lru' = lru \/ \E d \in redis : Has(n, d))
    BY <1>14, WarmReadEffect
  <2>2. CASE lru' = lru   BY <1>0, <2>1, <2>2 DEF Carried
  <2>3. ASSUME NEW d \in redis, Has(n, d) PROVE Carried(e)
    <3>1. Carried(d)   BY DEF Carried
    <3>2. \A m \in Nodes : \A b \in ToSet(lru'[m]) : Carried(b)   BY <2>3, <3>1, HasBringsNothing
    <3> QED  BY <1>0, <2>1, <3>2 DEF Carried
  <2> QED  BY <2>1, <2>2, <2>3
<1>15. ASSUME NEW n \in Nodes, WarmDelete(n) PROVE Carried(e)
  BY <1>0, <1>15, WarmDeleteEffect DEF Carried
<1>16. ASSUME NEW n \in Nodes, Warmed(n) PROVE Carried(e)   BY <1>0, <1>16, WarmedEffect DEF Carried
<1>17. ASSUME NEW n \in Nodes, Stop(n) PROVE Carried(e)
  <2>1. /\ redis' = redis /\ ToSet(lru'[n]) = {} /\ \A m \in Nodes : m # n => lru'[m] = lru[m]
        /\ \A t \in Threads : thread'[t].pc = "idle" \/ thread'[t] = thread[t]
    BY <1>17, StopEffect, IdleRequest
  <2> QED  BY <1>0, <2>1 DEF Carried
<1>18. CASE RedisExpires   BY <1>0, <1>18, ExpiryEffect DEF Carried
<1>19. CASE Outage \/ Recovery \/ Tick   BY <1>0, <1>19, OutageEffect DEF Carried
<1>20. CASE UNCHANGED vars   BY <1>0, <1>20 DEF Carried, vars
<1> QED
  BY <1>1, <1>2, <1>3, <1>4, <1>5, <1>6, <1>7, <1>8, <1>9, <1>10, <1>11, <1>12, <1>13, <1>14, <1>15,
     <1>16, <1>17, <1>18, <1>19, <1>20 DEF Next

-----------------------------------------------------------------------------
(* What grows.                                                             *)

LEMMA Growing ==
    ASSUME Typed, [Next]_vars
    PROVE  /\ now \in Nat /\ now' \in Nat /\ now <= now'
           /\ outages \in Nat /\ outages' \in Nat /\ outages <= outages'
           /\ puts \in Nat /\ puts' \in Nat /\ puts <= puts'
<1>1. /\ now \in Nat /\ now' \in Nat /\ outages \in Nat /\ outages' \in Nat
      /\ puts \in Nat /\ puts' \in Nat
  BY TypedStep DEF Typed, CountsTyped
<1>2. ASSUME NEW t \in Threads,
             \/ GetCache(t) \/ Lookup(t) \/ ExpiredInLru(t) \/ PurgeRedis(t) \/ Fallback(t)
             \/ CleanUp(t) \/ Rehydrate(t) \/ Store(t) \/ WriteThrough(t)
             \/ UnEvict(t) \/ DeleteCache(t)
      PROVE  UNCHANGED <<now, outages, puts>>
  BY <1>2 DEF GetCache, Lookup, ExpiredInLru, PurgeRedis, Fallback, CleanUp, Rehydrate,
              Store, WriteThrough, UnEvict, DeleteCache, threadOnly, counters
<1>3. ASSUME NEW t \in Threads, PutCache(t) PROVE UNCHANGED <<now, outages>> /\ puts' = puts + 1
  BY <1>3 DEF PutCache
<1>4. ASSUME NEW n \in Nodes, Boot(n) \/ WarmRead(n) \/ WarmDelete(n) \/ Warmed(n) \/ Stop(n)
      PROVE  UNCHANGED <<now, outages, puts>>
  BY <1>4 DEF Boot, WarmRead, WarmDelete, Warmed, Stop, counters
<1>5. CASE RedisExpires \/ UNCHANGED vars   BY <1>1, <1>5 DEF RedisExpires, vars, counters
<1>6. CASE Outage \/ Recovery \/ Tick   BY <1>1, <1>6 DEF Outage, Recovery, Tick, counters
<1> QED  BY <1>1, <1>2, <1>3, <1>4, <1>5, <1>6 DEF Next

LEMMA StillExpired ==
    ASSUME Typed, [Next]_vars, NEW e \in Entry, Expired(e)
    PROVE  Expired(e)'
<1>1. e.expires_at \in Nat   BY Bounds DEF Entry
<1>2. now \in Nat /\ now' \in Nat /\ now <= now'   BY Growing
<1> QED  BY <1>1, <1>2 DEF Expired

-----------------------------------------------------------------------------
(* Dates.                                                                  *)

\* The entries the threads and the levels have, and those of the history.
Known(e) == Carried(e) \/ \E k \in Keys : safe[k] # None /\ safe[k] = e

\* A result keeps the TTL of the PUT that made it, and a later PUT makes a later one.
Dated == \A e \in Entry : Known(e) =>
            e.data <= puts /\ e.made <= now /\ e.expires_at = e.made + TTL
InOrder == \A d, e \in Entry : Known(d) /\ Known(e) /\ d.data <= e.data => d.made <= e.made

\* Only lru.put and SETEX of a PUT change what is called safe.
LEMMA SafeChanges ==
    ASSUME Typed, [Next]_vars
    PROVE  \/ safe' = safe
           \/ \E t \in Threads : Store(t) \/ WriteThrough(t)
<1>1. ASSUME NEW t \in Threads,
             \/ GetCache(t) \/ Lookup(t) \/ ExpiredInLru(t) \/ PurgeRedis(t) \/ Fallback(t)
             \/ CleanUp(t) \/ Rehydrate(t) \/ PutCache(t) \/ UnEvict(t) \/ DeleteCache(t)
      PROVE  safe' = safe
  BY <1>1 DEF GetCache, Lookup, ExpiredInLru, PurgeRedis, Fallback, CleanUp, Rehydrate, PutCache,
              UnEvict, DeleteCache, threadOnly
<1>2. ASSUME NEW n \in Nodes, Boot(n) \/ WarmRead(n) \/ WarmDelete(n) \/ Warmed(n) \/ Stop(n)
      PROVE  safe' = safe
  BY <1>2 DEF Boot, WarmRead, WarmDelete, Warmed, Stop
<1>3. CASE RedisExpires \/ Outage \/ Recovery \/ Tick \/ UNCHANGED vars
  BY <1>3 DEF RedisExpires, Outage, Recovery, Tick, vars
<1> QED  BY <1>1, <1>2, <1>3 DEF Next

LEMMA SafeIsCarried ==
    ASSUME Typed, [Next]_vars, NEW k \in Keys, safe'[k] # None
    PROVE  safe'[k] = safe[k] \/ Carried(safe'[k])
<1>1. ASSUME NEW t \in Threads, Store(t) PROVE safe'[k] = safe[k]   BY <1>1, StoreEffect
<1>2. ASSUME NEW t \in Threads, WriteThrough(t) PROVE safe'[k] = safe[k] \/ Carried(safe'[k])
  BY <1>2, WriteThroughEffect DEF Carried, Carrying
<1> QED  BY <1>1, <1>2, SafeChanges

LEMMA KnownComeFromPuts ==
    ASSUME Typed, [Next]_vars, NEW e, Known(e)'
    PROVE  Known(e) \/ (Fresh(e) /\ puts' = puts + 1)
<1>1. CASE Carried(e)'   BY <1>1, EntriesComeFromPuts DEF Known
<1>2. ASSUME NEW k \in Keys, safe'[k] # None, safe'[k] = e PROVE Known(e)
  BY <1>2, SafeIsCarried DEF Known
<1> QED  BY <1>1, <1>2 DEF Known

LEMMA DatesStep ==
    ASSUME Typed, Dated, InOrder, [Next]_vars
    PROVE  Dated' /\ InOrder'
<1>1. /\ now \in Nat /\ now' \in Nat /\ now <= now'
      /\ puts \in Nat /\ puts' \in Nat /\ puts <= puts'
  BY Growing
<1>2. \A e \in Entry : e.data \in Nat /\ e.made \in Nat   BY Bounds DEF Entry
<1>3. ASSUME NEW e \in Entry, Known(e)'
      PROVE  /\ e.data <= puts' /\ e.made <= now' /\ e.expires_at = e.made + TTL
             /\ Known(e) \/ (e.made = now /\ e.data = puts + 1)
  <2>1. Known(e) \/ (Fresh(e) /\ puts' = puts + 1)   BY <1>3, KnownComeFromPuts
  <2>2. CASE Known(e)   BY <1>1, <1>2, <2>2 DEF Dated
  <2>3. CASE Fresh(e) /\ puts' = puts + 1   BY <1>1, <2>3 DEF Fresh
  <2> QED  BY <2>1, <2>2, <2>3
<1>4. ASSUME NEW d \in Entry, NEW e \in Entry, Known(d)', Known(e)', d.data <= e.data
      PROVE  d.made <= e.made
  <2>1. CASE Known(d) /\ Known(e)   BY <1>4, <2>1 DEF InOrder
  <2>2. CASE Known(d) /\ e.made = now   BY <1>1, <1>2, <2>2 DEF Dated
  <2>3. CASE d.made = now /\ d.data = puts + 1 /\ Known(e)   BY <1>1, <1>2, <1>4, <2>3 DEF Dated
  <2>4. CASE d.made = now /\ e.made = now   BY <1>1, <2>4
  <2> QED  BY <1>3, <1>4, <2>1, <2>2, <2>3, <2>4
<1>5. Dated'   BY <1>3 DEF Dated
<1>6. InOrder'   BY <1>4 DEF InOrder
<1> QED  BY <1>5, <1>6

LEMMA DatesInit == Init => Dated /\ InOrder
<1> SUFFICES ASSUME Init, NEW e PROVE ~ Known(e)   BY DEF Dated, InOrder
<1>1. ToSet(<< >>) = {}   BY DEF ToSet
<1> QED  BY <1>1, IdleRequest DEF Init, Known, Carried, Carrying

-----------------------------------------------------------------------------
(* What a GET answers with.                                                *)

\* A result that a request has read from Redis had not expired when it was asked for.
Asked == \A t \in Threads : /\ thread[t].asked <= now
                            /\ thread[t].pc = "rehydrate" =>
                                  thread[t].asked <= thread[t].entry.expires_at

LEMMA AskedStep ==
    ASSUME Typed, Asked, [Next]_vars
    PROVE  Asked'
<1>1. now \in Nat /\ now' \in Nat /\ now <= now'   BY Growing
<1>2. Idle.asked = 0 /\ Idle.pc = "idle"   BY DEF Idle
<1> DEFINE Fine(u) == /\ thread'[u].asked <= now'
                      /\ thread'[u].pc = "rehydrate" =>
                            thread'[u].asked <= thread'[u].entry.expires_at
<1>3. ASSUME NEW u \in Threads, thread'[u] = thread[u] \/ thread'[u] = Idle PROVE Fine(u)
  <2>1. CASE thread'[u] = thread[u]
    <3>1. thread[u].asked \in Nat   BY DEF Typed, ThreadsTyped, Request
    <3> QED  BY <1>1, <2>1, <3>1 DEF Asked
  <2>2. CASE thread'[u] = Idle   BY <1>1, <1>2, <2>2
  <2> QED  BY <1>3, <2>1, <2>2
<1>4. ASSUME NEW u \in Threads, thread'[u].asked \in {thread[u].asked, now, 0},
             thread'[u].pc # "rehydrate"
      PROVE  Fine(u)
  <2>1. thread[u].asked \in Nat   BY DEF Typed, ThreadsTyped, Request
  <2> QED  BY <1>1, <1>4, <2>1 DEF Asked
<1>5. ASSUME NEW t \in Threads, Others(t), Fine(t) PROVE Asked'
  <2>1. \A u \in Threads : u # t => Fine(u)   BY <1>3, <1>5 DEF Others
  <2> QED  BY <1>5, <2>1 DEF Asked
<1> HIDE DEF Fine
<1>6. ASSUME NEW t \in Threads, GetCache(t) PROVE Asked'
  BY <1>4, <1>5, <1>6, RequestBegins
<1>7. ASSUME NEW t \in Threads, Lookup(t) PROVE Asked'
  <2>1. CASE thread'[t].pc = "idle"   BY <1>3, <1>5, <1>7, <2>1, LookupEffect
  <2>2. CASE thread'[t].pc # "idle"   BY <1>4, <1>5, <1>7, <2>2, LookupEffect
  <2> QED  BY <2>1, <2>2
<1>8. ASSUME NEW t \in Threads, ExpiredInLru(t) PROVE Asked'
  BY <1>4, <1>5, <1>8, ExpiredEffect
<1>9. ASSUME NEW t \in Threads, PurgeRedis(t) PROVE Asked'
  BY <1>4, <1>5, <1>9, PurgeEffect
<1>10. ASSUME NEW t \in Threads, Fallback(t) PROVE Asked'
  <2>1. /\ Others(t) /\ thread'[t].pc \in {"idle", "cleanup", "rehydrate"}
        /\ thread'[t].pc # "idle" => thread'[t].asked = thread[t].asked
        /\ thread'[t].pc = "rehydrate" =>
              thread'[t].entry \in redis /\ ~ Expired(thread'[t].entry)
        /\ thread'[t].pc = "idle" => thread'[t] = Idle
    BY <1>10, FallbackEffect
  <2>2. CASE thread'[t].pc = "idle"   BY <1>3, <1>5, <2>1, <2>2
  <2>3. CASE thread'[t].pc = "cleanup"   BY <1>4, <1>5, <2>1, <2>3
  <2>4. CASE thread'[t].pc = "rehydrate"
    <3>1. thread'[t].entry \in Entry /\ thread[t].asked \in Nat
      BY <2>1, <2>4 DEF Typed, RedisTyped, ThreadsTyped, Request
    <3>2. thread'[t].entry.expires_at \in Nat   BY <3>1, Bounds DEF Entry
    <3>3. now <= thread'[t].entry.expires_at   BY <1>1, <2>1, <2>4, <3>2 DEF Expired
    <3>4. thread[t].asked <= now   BY DEF Asked
    <3>5. Fine(t)   BY <1>1, <2>1, <2>4, <3>1, <3>2, <3>3, <3>4 DEF Fine
    <3> QED  BY <1>5, <2>1, <3>5
  <2> QED  BY <2>1, <2>2, <2>3, <2>4
<1>11. ASSUME NEW t \in Threads, CleanUp(t) PROVE Asked'   BY <1>3, <1>5, <1>11, CleanUpEffect
<1>12. ASSUME NEW t \in Threads, Rehydrate(t) PROVE Asked'   BY <1>3, <1>5, <1>12, RehydrateEffect
<1>13. ASSUME NEW t \in Threads, PutCache(t) PROVE Asked'   BY <1>4, <1>5, <1>13, PutBegins
<1>14. ASSUME NEW t \in Threads, Store(t) PROVE Asked'
  BY <1>3, <1>4, <1>5, <1>14, StoreEffect
<1>15. ASSUME NEW t \in Threads, WriteThrough(t) PROVE Asked'
  BY <1>3, <1>4, <1>5, <1>15, WriteThroughEffect
<1>16. ASSUME NEW t \in Threads, UnEvict(t) PROVE Asked'   BY <1>3, <1>5, <1>16, UnEvictEffect
<1>17. ASSUME \A u \in Threads : thread'[u] = thread[u] \/ thread'[u] = Idle PROVE Asked'
  BY <1>3, <1>17 DEF Asked, Fine
<1>18. ASSUME NEW t \in Threads, DeleteCache(t) PROVE Asked'   BY <1>17, <1>18, DeleteEffect
<1>19. ASSUME NEW n \in Nodes, Boot(n) \/ WarmRead(n) \/ WarmDelete(n) \/ Warmed(n) \/ Stop(n)
       PROVE  Asked'
  BY <1>17, <1>19, BootEffect, WarmReadEffect, WarmDeleteEffect, WarmedEffect, StopEffect
<1>20. CASE RedisExpires \/ Outage \/ Recovery \/ Tick
  BY <1>17, <1>20, ExpiryEffect, OutageEffect
<1>21. CASE UNCHANGED vars   BY <1>17, <1>21 DEF vars
<1> QED
  BY <1>6, <1>7, <1>8, <1>9, <1>10, <1>11, <1>12, <1>13, <1>14, <1>15, <1>16, <1>18, <1>19, <1>20,
     <1>21 DEF Next

\* A hit in the LRU is an entry that has not expired.
LEMMA HitEffect ==
    ASSUME Typed, NEW t \in Threads, Lookup(t), thread'[t] = Idle
    PROVE  Answer(t) \in Entry /\ Carried(Answer(t)) /\ ~ Expired(Answer(t))
<1> DEFINE r == thread[t]
           L == lru[r.node]
           e == L[LruFind(L, r.key)]
<1>1. /\ r.pc = "lookup"
      /\ IF ~ InLru(L, r.key) THEN Goto(t, "fallback")
         ELSE IF Expired(e) THEN Goto(t, "expired") ELSE Return(t)
  BY DEF Lookup
<1>2. thread'[t].pc = "idle"   BY DEF Idle
<1>3. \A pc : Goto(t, pc) => thread'[t].pc = pc   BY DEF Goto, Typed, ThreadsTyped, Request
<1>4. InLru(L, r.key) /\ ~ Expired(e)   BY <1>1, <1>2, <1>3
<1>5. Answer(t) = e   BY <1>1 DEF Answer
<1>6. r.node \in Nodes   BY <1>1 DEF Typed, ThreadsTyped, Fits
<1>7. L \in Seq(Entry)   BY <1>6 DEF Typed, LruTyped
<1>8. LruFind(L, r.key) \in DOMAIN L   BY <1>4 DEF InLru, LruFind
<1>9. e \in ToSet(L)   BY <1>8 DEF ToSet
<1>10. e \in Entry   BY <1>7, <1>9, ListElements
<1>11. Carried(e)   BY <1>6, <1>9 DEF Carried
<1> QED  BY <1>4, <1>5, <1>10, <1>11

(***************************************************************************)
(* A GET never answers with a result whose TTL had passed when it was      *)
(* asked, whatever the requests of the other threads, clean-ups, restarts  *)
(* and outages meanwhile: what is found in the LRU is checked against the  *)
(* clock, what comes from Redis is checked before it is put back, and no   *)
(* entry gets another lifetime on its way between the two.                 *)
(***************************************************************************)
THEOREM AnswersKeepTheirTTL == Spec => AnswersAreCurrent
<1>1. Init => Asked
  BY Bounds DEF Init, Asked, Idle
<1>2. Typed /\ Dated /\ Asked /\ [Next]_vars
         => [\A t \in Threads : Answers(t) => Answer(t).made + TTL >= thread[t].asked]_vars
  <2> SUFFICES ASSUME Typed, Dated, Asked, [Next]_vars, NEW t \in Threads, Answers(t)
               PROVE  Answer(t).made + TTL >= thread[t].asked
    OBVIOUS
  <2>1. now \in Nat /\ thread[t].asked \in Nat /\ thread[t].asked <= now
    BY DEF Typed, ThreadsTyped, Request, Asked
  <2>2. ASSUME NEW e \in Entry, Carried(e), e.expires_at >= thread[t].asked
        PROVE  e.made + TTL >= thread[t].asked
    BY <2>2 DEF Dated, Known
  <2>3. CASE Rehydrate(t)
    <3>1. thread[t].pc = "rehydrate"   BY <2>3 DEF Rehydrate
    <3>2. thread[t].entry \in Entry /\ Answer(t) = thread[t].entry
      BY <3>1 DEF Typed, ThreadsTyped, Fits, Answer
    <3>3. Carried(thread[t].entry)   BY <3>1 DEF Carried, Carrying
    <3>4. thread[t].entry.expires_at >= thread[t].asked
      <4>1. thread[t].entry.expires_at \in Nat   BY <3>2, Bounds DEF Entry
      <4> QED  BY <2>1, <3>1, <4>1 DEF Asked
    <3> QED  BY <2>2, <3>2, <3>3, <3>4
  <2>4. CASE Lookup(t) /\ thread'[t] = Idle
    <3>1. Answer(t) \in Entry /\ Carried(Answer(t)) /\ ~ Expired(Answer(t))
      BY <2>4, HitEffect
    <3>2. Answer(t).expires_at \in Nat   BY <3>1, Bounds DEF Entry
    <3>3. Answer(t).expires_at >= thread[t].asked   BY <2>1, <3>1, <3>2 DEF Expired
    <3> QED  BY <2>2, <3>1, <3>3
  <2> QED  BY <2>3, <2>4 DEF Answers
<1> QED
  BY <1>1, <1>2, TypedInit, TypedStep, DatesInit, DatesStep, AskedStep, PTL DEF Spec, AnswersAreCurrent

-----------------------------------------------------------------------------
(* Results that stay.                                                      *)

\* What protects the key of a safe result: Redis has an entry, nobody has an older one,
\* and no deletion of the key is under way.
Guarded(k) ==
    /\ \E e \in redis : e.key = k
    /\ \A e \in Entry : Carried(e) /\ e.key = k => e.data >= safe[k].data
    /\ \A t \in Threads : /\ thread[t].key = k => thread[t].pc \notin {"expired", "purge", "cleanup"}
                          /\ thread[t].evicted # k
    /\ \A n \in Nodes : warm[n].expired # k

Live(k) == safe[k] # None /\ ~ Expired(safe[k])

Protected ==
    /\ \A k \in Keys : safe[k] # None => safe[k].key = k
    /\ \A k \in Keys : Live(k) => Guarded(k)

\* A put evicts another key than its own, and warm-up began in the past.
Sane == /\ \A t \in Threads : thread[t].evicted # None => thread[t].evicted # thread[t].key
        /\ \A n \in Nodes : warm[n].at <= now

LEMMA SaneStep ==
    ASSUME Typed, Sane, [Next]_vars
    PROVE  Sane'
<1>1. now \in Nat /\ now' \in Nat /\ now <= now'   BY Growing
<1>2. \A n \in Nodes : warm[n].at \in Nat   BY DEF Typed, NodesTyped, Warming
<1>3. Cold.at = 0 /\ Idle.evicted = None   BY DEF Cold, Idle
<1>4. ASSUME NEW n \in Nodes PROVE warm'[n].at <= now'
  <2>1. warm'[n].at = warm[n].at \/ warm'[n].at = now \/ warm'[n].at = 0
    <3>1. ASSUME NEW t \in Threads,
                 \/ GetCache(t) \/ Lookup(t) \/ ExpiredInLru(t) \/ PurgeRedis(t) \/ Fallback(t)
                 \/ CleanUp(t) \/ Rehydrate(t) \/ PutCache(t) \/ Store(t) \/ WriteThrough(t)
                 \/ UnEvict(t) \/ DeleteCache(t)
          PROVE  warm' = warm
      BY <3>1 DEF GetCache, Lookup, ExpiredInLru, PurgeRedis, Fallback, CleanUp, Rehydrate, PutCache,
                  Store, WriteThrough, UnEvict, DeleteCache, threadOnly, nodeVars
    <3>2. ASSUME NEW m \in Nodes, Boot(m) PROVE warm'[n].at \in {warm[n].at, now, 0}
      <4>1. up => warm'[m].at = now   BY <3>2, BootEffect
      <4>2. ~ up => warm'[m] = Cold   BY <3>2 DEF Boot, Typed, NodesTyped
      <4>3. n # m => warm'[n] = warm[n]   BY <3>2, BootEffect
      <4> QED  BY <1>3, <4>1, <4>2, <4>3
    <3>3. ASSUME NEW m \in Nodes, WarmRead(m) PROVE warm'[n].at = warm[n].at
      BY <3>3, WarmReadEffect
    <3>4. ASSUME NEW m \in Nodes, WarmDelete(m) PROVE warm'[n].at = warm[n].at
      BY <3>4, WarmDeleteEffect
    <3>5. ASSUME NEW m \in Nodes, Warmed(m) PROVE warm'[n].at \in {warm[n].at, 0}
      BY <1>3, <3>5, WarmedEffect
    <3>6. ASSUME NEW m \in Nodes, Stop(m) PROVE warm'[n].at \in {warm[n].at, 0}
      BY <1>3, <3>6, StopEffect
    <3>7. CASE RedisExpires \/ Outage \/ Recovery \/ Tick \/ UNCHANGED vars
      BY <3>7 DEF RedisExpires, Outage, Recovery, Tick, vars, nodeVars
    <3> QED  BY <3>1, <3>2, <3>3, <3>4, <3>5, <3>6, <3>7 DEF Next
  <2> QED  BY <1>1, <1>2, <2>1 DEF Sane
<1>5. ASSUME NEW u \in Threads PROVE thread'[u].evicted # None => thread'[u].evicted # thread'[u].key
  <2>1. ASSUME NEW t \in Threads, Others(t),
               \/ thread'[t].evicted = None
               \/ thread'[t].evicted # thread'[t].key
               \/ thread'[t].evicted = thread[t].evicted /\ thread'[t].key = thread[t].key
        PROVE  thread'[u].evicted # None => thread'[u].evicted # thread'[u].key
    BY <2>1 DEF Sane, Others
  <2>2. ASSUME NEW t \in Threads,
               GetCache(t) \/ Lookup(t) \/ ExpiredInLru(t) \/ PurgeRedis(t) \/ Fallback(t)
        PROVE  Others(t) /\ thread'[t].evicted = None
    BY <2>2, RequestBegins, LookupEffect, ExpiredEffect, PurgeEffect, FallbackEffect
  <2>3. ASSUME NEW t \in Threads, CleanUp(t) \/ Rehydrate(t) \/ PutCache(t) \/ UnEvict(t)
        PROVE  Others(t) /\ thread'[t].evicted = None
    BY <1>3, <2>3, CleanUpEffect, RehydrateEffect, PutBegins, UnEvictEffect
  <2>4. ASSUME NEW t \in Threads, Store(t)
        PROVE  Others(t) /\ (thread'[t].evicted = None \/ thread'[t].evicted # thread'[t].key)
    BY <1>3, <2>4, StoreEffect
  <2>5. ASSUME NEW t \in Threads, WriteThrough(t)
        PROVE  /\ Others(t)
               /\ \/ thread'[t].evicted = None
                  \/ thread'[t].evicted = thread[t].evicted /\ thread'[t].key = thread[t].key
    BY <1>3, <2>5, WriteThroughEffect
  <2>6. ASSUME thread'[u] = thread[u] \/ thread'[u] = Idle
        PROVE  thread'[u].evicted # None => thread'[u].evicted # thread'[u].key
    BY <1>3, <2>6 DEF Sane
  <2>7. ASSUME NEW t \in Threads, DeleteCache(t) PROVE thread'[u] = thread[u]
    BY <2>7, DeleteEffect
  <2>8. ASSUME NEW n \in Nodes, Boot(n) \/ WarmRead(n) \/ WarmDelete(n) \/ Warmed(n) \/ Stop(n)
        PROVE  thread'[u] = thread[u] \/ thread'[u] = Idle
    BY <2>8, BootEffect, WarmReadEffect, WarmDeleteEffect, WarmedEffect, StopEffect
  <2>9. CASE RedisExpires \/ Outage \/ Recovery \/ Tick \/ UNCHANGED vars
    BY <2>6, <2>9 DEF RedisExpires, Outage, Recovery, Tick, vars
  <2> QED  BY <2>1, <2>2, <2>3, <2>4, <2>5, <2>6, <2>7, <2>8, <2>9 DEF Next
<1> QED  BY <1>4, <1>5 DEF Sane

\* As long as the safe result lasts, so does every other entry of its key.
LEMMA LastsAsLong ==
    ASSUME Typed, Dated, InOrder, NEW k \in Keys, Live(k), Guarded(k),
           NEW e \in Entry, Carried(e), e.key = k
    PROVE  ~ Expired(e)
<1> DEFINE d == safe[k]
<1>1. d \in Entry /\ Known(d) /\ Known(e)   BY DEF Typed, Live, Known
<1>2. d.data \in Nat /\ e.data \in Nat /\ d.made \in Nat /\ e.made \in Nat /\ now \in Nat /\ TTL \in Nat
  BY <1>1, Bounds DEF Entry, Typed
<1>3. d.data <= e.data   BY <1>2 DEF Guarded
<1>4. d.made <= e.made /\ d.expires_at = d.made + TTL /\ e.expires_at = e.made + TTL
  BY <1>1, <1>3 DEF InOrder, Dated
<1>5. ~ (now > d.made + TTL)   BY <1>4 DEF Live, Expired
<1> HIDE DEF d
<1> QED  BY <1>2, <1>4, <1>5 DEF Expired

\* A key whose result stays safe keeps what protects it, whatever the step.
LEMMA GuardStep ==
    ASSUME Typed, Dated, InOrder, Sane, [Next]_vars,
           NEW k \in Keys, Live(k), Guarded(k), safe'[k] = safe[k]
    PROVE  Guarded(k)'
<1> DEFINE Rest == /\ \E e \in redis' : e.key = k
                   /\ \A t \in Threads :
                         /\ thread'[t].key = k => thread'[t].pc \notin {"expired", "purge", "cleanup"}
                         /\ thread'[t].evicted # k
                   /\ \A n \in Nodes : warm'[n].expired # k
           Clean(r) == /\ r.key = k => r.pc \notin {"expired", "purge", "cleanup"}
                       /\ r.evicted # k
<1>1. k # None   BY Bounds
<1>2. PICK a \in redis : a.key = k   BY DEF Guarded
<1>3. /\ \A t \in Threads : Clean(thread[t])
      /\ \A n \in Nodes : warm[n].expired # k
  BY DEF Guarded
<1>4. \A e \in Entry : Carried(e) /\ e.key = k => ~ Expired(e)   BY LastsAsLong
<1>5. \A e \in redis : e.key = k => ~ Expired(e)
  BY <1>4 DEF Typed, RedisTyped, Carried
<1>6. Clean(Idle) /\ Cold.expired # k   BY <1>1 DEF Idle, Cold
<1>7. ASSUME NEW t \in Threads, Others(t), UNCHANGED warm, Clean(thread'[t]), a \in redis'
      PROVE  Rest
  <2>1. \A u \in Threads : Clean(thread'[u])   BY <1>3, <1>7 DEF Others
  <2> QED  BY <1>2, <1>3, <1>7, <2>1
<1> HIDE DEF Clean
<1>8. ASSUME NEW t \in Threads, GetCache(t) PROVE Rest
  <2>1. Clean(thread'[t])   BY <1>1, <1>8, RequestBegins DEF Clean
  <2> QED  BY <1>7, <1>8, <2>1, RequestBegins DEF threadOnly, nodeVars
<1>9. ASSUME NEW t \in Threads, Lookup(t) PROVE Rest
  <2>1. thread'[t].pc = "expired" => thread[t].key # k
    <3>1. ASSUME NEW e \in ToSet(lru[thread[t].node]), Expired(e), e.key = k PROVE FALSE
      <4>1. thread[t].node \in Nodes   BY <1>9, LookupEffect DEF Typed, ThreadsTyped, Fits
      <4>2. e \in Entry   BY <3>1, <4>1, ListElements DEF Typed, LruTyped
      <4>3. Carried(e)   BY <4>1 DEF Carried
      <4> QED  BY <1>4, <3>1, <4>2, <4>3
    <3> QED  BY <1>9, <3>1, LookupEffect
  <2>2. Clean(thread'[t])   BY <1>1, <1>9, <2>1, LookupEffect DEF Clean
  <2> QED  BY <1>7, <1>9, <2>2, LookupEffect DEF threadOnly, nodeVars
<1>10. ASSUME NEW t \in Threads, ExpiredInLru(t) PROVE Rest
  <2>1. Clean(thread'[t])   BY <1>1, <1>3, <1>10, ExpiredEffect DEF Clean
  <2> QED  BY <1>7, <1>10, <2>1, ExpiredEffect DEF threadOnly, nodeVars
<1>11. ASSUME NEW t \in Threads, PurgeRedis(t) PROVE Rest
  <2>1. thread[t].key # k   BY <1>3, <1>11, PurgeEffect DEF Clean
  <2>2. Clean(thread'[t]) /\ a \in redis'   BY <1>1, <1>2, <1>11, <2>1, PurgeEffect DEF Clean
  <2> QED  BY <1>7, <1>11, <2>2, PurgeEffect DEF threadOnly, nodeVars
<1>12. ASSUME NEW t \in Threads, Fallback(t) PROVE Rest
  <2>1. thread'[t].pc = "cleanup" => thread'[t].key # k   BY <1>5, <1>12, FallbackEffect
  <2>2. Clean(thread'[t])   BY <1>1, <1>12, <2>1, FallbackEffect DEF Clean
  <2> QED  BY <1>7, <1>12, <2>2, FallbackEffect DEF threadOnly, nodeVars
<1>13. ASSUME NEW t \in Threads, CleanUp(t) PROVE Rest
  <2>1. thread[t].key # k   BY <1>3, <1>13, CleanUpEffect DEF Clean
  <2>2. Clean(thread'[t]) /\ a \in redis'   BY <1>2, <1>6, <1>13, <2>1, CleanUpEffect
  <2> QED  BY <1>7, <1>13, <2>2, CleanUpEffect DEF threadOnly, nodeVars
<1>14. ASSUME NEW t \in Threads, Rehydrate(t) PROVE Rest
  <2>1. Clean(thread'[t])   BY <1>6, <1>14, RehydrateEffect
  <2> QED  BY <1>7, <1>14, <2>1, RehydrateEffect DEF threadOnly, nodeVars
<1>15. ASSUME NEW t \in Threads, PutCache(t) PROVE Rest
  <2>1. Clean(thread'[t])   BY <1>1, <1>15, PutBegins DEF Clean
  <2> QED  BY <1>7, <1>15, <2>1, PutBegins DEF nodeVars
<1>16. ASSUME NEW t \in Threads, Store(t) PROVE Rest
  <2>1. thread'[t] = Idle \/ (thread'[t].pc = "setex" /\ thread'[t].evicted # k)
    BY <1>16, StoreEffect DEF Live
  <2>2. Clean(thread'[t])   BY <1>6, <2>1 DEF Clean
  <2> QED  BY <1>7, <1>16, <2>2, StoreEffect DEF nodeVars
<1>17. ASSUME NEW t \in Threads, WriteThrough(t) PROVE Rest
  <2>1. Clean(thread'[t])
    <3>1. \/ thread'[t] = Idle
          \/ thread'[t].pc = "unevict" /\ thread'[t].evicted = thread[t].evicted
      BY <1>17, WriteThroughEffect
    <3> QED  BY <1>3, <1>6, <3>1 DEF Clean
  <2>2. \E e \in redis' : e.key = k
    <3>1. CASE ~ up
      <4>1. redis' = redis   BY <1>17, <3>1 DEF WriteThrough, RedisSetex
      <4> QED  BY <1>2, <4>1
    <3>2. CASE up /\ thread[t].key = k
      <4>1. thread[t].entry \in redis' /\ thread[t].entry.key = k
        BY <1>17, <3>2, WriteThroughEffect DEF Typed, ThreadsTyped, Fits
      <4> QED  BY <4>1
    <3>3. CASE up /\ thread[t].key # k
      <4>1. a \in redis'   BY <1>2, <1>17, <3>3, WriteThroughEffect
      <4> QED  BY <1>2, <4>1
    <3> QED  BY <3>1, <3>2, <3>3
  <2>3. Others(t) /\ warm' = warm   BY <1>17, WriteThroughEffect DEF nodeVars
  <2>4. \A u \in Threads : Clean(thread'[u])   BY <1>3, <2>1, <2>3 DEF Others
  <2> QED  BY <1>3, <2>2, <2>3, <2>4 DEF Clean
<1>18. ASSUME NEW t \in Threads, UnEvict(t) PROVE Rest
  <2>1. thread[t].evicted # k   BY <1>3 DEF Clean
  <2>2. Clean(thread'[t]) /\ a \in redis'   BY <1>2, <1>6, <1>18, <2>1, UnEvictEffect
  <2> QED  BY <1>7, <1>18, <2>2, UnEvictEffect DEF nodeVars
<1>19. ASSUME a \in redis',
              \A t \in Threads : thread'[t] = thread[t] \/ thread'[t] = Idle,
              \A n \in Nodes : warm'[n].expired # k
       PROVE  Rest
  <2>1. \A t \in Threads : Clean(thread'[t])   BY <1>3, <1>6, <1>19
  <2> QED  BY <1>2, <1>19, <2>1 DEF Clean
<1>20. ASSUME NEW t \in Threads, DeleteCache(t) PROVE Rest
  <2>1. UNCHANGED <<redis, thread, nodeVars>>   BY <1>20, DeleteEffect
  <2> QED  BY <1>3, <1>19, <2>1 DEF nodeVars
<1>21. ASSUME NEW n \in Nodes, Boot(n) PROVE Rest
  <2>1. /\ UNCHANGED <<redis, thread>> /\ warm'[n].expired = None
        /\ \A m \in Nodes : m # n => warm'[m] = warm[m]
    BY <1>21, BootEffect
  <2>2. \A m \in Nodes : warm'[m].expired # k   BY <1>1, <1>3, <2>1
  <2> QED  BY <1>19, <2>1, <2>2
<1>22. ASSUME NEW n \in Nodes, WarmRead(n) PROVE Rest
  <2>1. /\ UNCHANGED <<redis, thread>> /\ \A m \in Nodes : m # n => warm'[m] = warm[m]
    BY <1>22, WarmReadEffect
  <2>2. warm'[n].expired # k
    <3>1. ASSUME warm'[n].expired = k PROVE FALSE
      <4>1. PICK e \in redis : e.key = k /\ warm[n].at > e.expires_at
        BY <1>1, <1>22, <3>1, WarmReadEffect
      <4>2. e.expires_at \in Nat /\ warm[n].at \in Nat /\ now \in Nat /\ warm[n].at <= now
        BY Bounds DEF Typed, RedisTyped, Entry, NodesTyped, Warming, Sane
      <4>3. Expired(e)   BY <4>1, <4>2 DEF Expired
      <4> QED  BY <1>5, <4>1, <4>3
    <3> QED  BY <3>1
  <2>3. \A m \in Nodes : warm'[m].expired # k   BY <1>3, <2>1, <2>2
  <2> QED  BY <1>19, <2>1, <2>3
<1>23. ASSUME NEW n \in Nodes, WarmDelete(n) PROVE Rest
  <2>1. /\ thread' = thread /\ warm'[n].expired = None
        /\ \A m \in Nodes : m # n => warm'[m] = warm[m]
        /\ \A e \in redis : e.key # warm[n].expired => e \in redis'
    BY <1>23, WarmDeleteEffect
  <2>2. a \in redis' /\ \A m \in Nodes : warm'[m].expired # k   BY <1>1, <1>2, <1>3, <2>1
  <2> QED  BY <1>19, <2>1, <2>2
<1>24. ASSUME NEW n \in Nodes, Warmed(n) \/ Stop(n) PROVE Rest
  <2>1. /\ redis' = redis /\ \A t \in Threads : thread'[t] = thread[t] \/ thread'[t] = Idle
        /\ warm'[n] = Cold /\ \A m \in Nodes : m # n => warm'[m] = warm[m]
    BY <1>24, WarmedEffect, StopEffect
  <2>2. \A m \in Nodes : warm'[m].expired # k   BY <1>3, <1>6, <2>1
  <2> QED  BY <1>19, <2>1, <2>2
<1>25. ASSUME RedisExpires PROVE Rest
  <2>1. PICK e \in redis : Expired(e) /\ redis' = redis \ {e}   BY <1>25, ExpiryEffect
  <2>2. a \in redis'   BY <1>2, <1>5, <2>1
  <2>3. thread' = thread /\ warm' = warm   BY <1>25, ExpiryEffect DEF nodeVars
  <2>4. \A n \in Nodes : warm'[n].expired # k   BY <1>3, <2>3
  <2> QED  BY <1>19, <2>2, <2>3, <2>4
<1>26. ASSUME Outage \/ Recovery \/ Tick \/ UNCHANGED vars PROVE Rest
  <2>1. redis' = redis /\ thread' = thread /\ warm' = warm
    BY <1>26 DEF Outage, Recovery, Tick, vars, nodeVars
  <2>2. a \in redis' /\ \A n \in Nodes : warm'[n].expired # k   BY <1>2, <1>3, <2>1
  <2> QED  BY <1>19, <2>1, <2>2
<1> HIDE DEF Rest
<1>27. Rest
  BY <1>8, <1>9, <1>10, <1>11, <1>12, <1>13, <1>14, <1>15, <1>16, <1>17, <1>18, <1>20, <1>21, <1>22,
     <1>23, <1>24, <1>25, <1>26 DEF Next
<1>28. ASSUME NEW e \in Entry, Carried(e)', e.key = k PROVE e.data >= safe'[k].data
  <2>1. Carried(e) \/ Fresh(e)   BY <1>28, EntriesComeFromPuts
  <2>2. CASE Carried(e)   BY <1>28, <2>2 DEF Guarded
  <2>3. CASE Fresh(e)
    <3>1. safe[k] \in Entry /\ Known(safe[k])   BY DEF Typed, Live, Known
    <3>2. safe[k].data <= puts /\ safe[k].data \in Nat /\ puts \in Nat
      BY <3>1, Bounds DEF Dated, Entry, Typed, CountsTyped
    <3> QED  BY <2>3, <3>2 DEF Fresh
  <2> QED  BY <2>1, <2>2, <2>3
<1> QED  BY <1>27, <1>28 DEF Guarded, Rest

\* A result that is written through without a rival is protected from then on.
LEMMA GuardBegins ==
    ASSUME Typed, Sane, [Next]_vars, NEW t \in Threads, WriteThrough(t), up, Unrivalled(t),
           NEW k, k = thread[t].key
    PROVE  k \in Keys /\ safe'[k] = thread[t].entry /\ thread[t].entry.key = k /\ Guarded(k)'
<1> DEFINE r == thread[t]
           e == r.entry
<1>1. /\ r.pc = "setex" /\ UNCHANGED <<lru, nodeVars>> /\ Others(t)
      /\ e \in redis' /\ \A d \in redis' : d.key = k => d = e
      /\ \A j \in Keys : j = k => safe'[j] = e
      /\ \/ thread'[t] = Idle
         \/ /\ thread'[t].pc = "unevict" /\ thread'[t].key = k /\ thread'[t].entry = e
            /\ thread'[t].evicted = r.evicted /\ r.evicted # None
  BY WriteThroughEffect
<1>2. k \in Keys /\ e \in Entry /\ e.key = k /\ k # None
  BY <1>1, Bounds DEF Typed, ThreadsTyped, Fits
<1>3. /\ \A u \in Threads : u # t => thread[u].key # k /\ thread[u].evicted # k
      /\ \A n \in Nodes : /\ warm[n].expired # k
                          /\ \A d \in ToSet(lru[n]) : d.key = k => d.data >= e.data
  BY DEF Unrivalled
<1>4. safe'[k] = e   BY <1>1, <1>2
<1>5. ASSUME NEW d \in Entry, Carried(d)', d.key = k PROVE d.data >= e.data
  <2>1. e.data \in Nat   BY <1>2, Bounds DEF Entry
  <2>2. CASE d \in redis'   BY <1>1, <1>5, <2>1, <2>2
  <2>3. ASSUME NEW n \in Nodes, d \in ToSet(lru'[n]) PROVE d.data >= e.data
    BY <1>1, <1>3, <1>5, <2>3
  <2>4. ASSUME NEW u \in Threads, thread'[u].pc \in Carrying, thread'[u].entry = d
        PROVE  d.data >= e.data
    <3>1. CASE u = t   BY <1>1, <2>1, <2>4, <3>1, IdleRequest DEF Carrying
    <3>2. CASE u # t
      <4>1. thread'[u] = thread[u]   BY <1>1, <3>2 DEF Others
      <4>2. thread[u].entry.key = thread[u].key   BY <2>4, <4>1 DEF Typed, ThreadsTyped, Fits, Carrying
      <4> QED  BY <1>3, <1>5, <2>4, <3>2, <4>1, <4>2
    <3> QED  BY <3>1, <3>2
  <2> QED  BY <1>5, <2>2, <2>3, <2>4 DEF Carried
<1>6. ASSUME NEW u \in Threads
      PROVE  /\ thread'[u].key = k => thread'[u].pc \notin {"expired", "purge", "cleanup"}
             /\ thread'[u].evicted # k
  <2>1. CASE u = t
    <3>1. CASE thread'[t] = Idle   BY <1>2, <2>1, <3>1 DEF Idle
    <3>2. CASE thread'[t] # Idle
      <4>1. thread'[t].pc = "unevict" /\ thread'[t].evicted = r.evicted /\ r.evicted # None
        BY <1>1, <3>2
      <4>2. r.evicted # k   BY <4>1 DEF Sane
      <4> QED  BY <2>1, <4>1, <4>2
    <3> QED  BY <3>1, <3>2
  <2>2. CASE u # t   BY <1>1, <1>3, <2>2 DEF Others
  <2> QED  BY <2>1, <2>2
<1>7. \A n \in Nodes : warm'[n].expired # k   BY <1>1, <1>3 DEF nodeVars
<1>8. \E d \in redis' : d.key = k   BY <1>1, <1>2
<1> HIDE DEF e
<1> QED  BY <1>2, <1>4, <1>5, <1>6, <1>7, <1>8 DEF Guarded, e

LEMMA ProtectedStep ==
    ASSUME Typed, Dated, InOrder, Sane, Protected, [Next]_vars
    PROVE  Protected'
<1>1. ASSUME NEW k \in Keys, safe'[k] # None
      PROVE  safe'[k].key = k /\ (Live(k)' => Guarded(k)')
  <2>1. \/ safe'[k] = safe[k]
        \/ \E t \in Threads : WriteThrough(t) /\ up /\ Unrivalled(t) /\ k = thread[t].key
    <3>1. ASSUME NEW t \in Threads, Store(t) PROVE safe'[k] = safe[k]
      BY <1>1, <3>1, StoreEffect
    <3>2. ASSUME NEW t \in Threads, WriteThrough(t)
          PROVE  safe'[k] = safe[k] \/ (up /\ Unrivalled(t) /\ k = thread[t].key)
      BY <3>2, WriteThroughEffect
    <3> QED  BY <3>1, <3>2, SafeChanges
  <2>2. CASE safe'[k] = safe[k]
    <3>1. safe[k] \in Entry /\ safe[k].key = k   BY <1>1, <2>2 DEF Typed, Protected
    <3>2. Live(k)' => Live(k)   BY <1>1, <2>2, <3>1, StillExpired DEF Live, Expired
    <3>3. Live(k) => Guarded(k)   BY DEF Protected
    <3> QED  BY <2>2, <3>1, <3>2, <3>3, GuardStep
  <2>3. ASSUME NEW t \in Threads, WriteThrough(t), up, Unrivalled(t), k = thread[t].key
        PROVE  safe'[k].key = k /\ Guarded(k)'
    BY <2>3, GuardBegins
  <2> QED  BY <2>1, <2>2, <2>3
<1> QED  BY <1>1 DEF Protected, Live

(***************************************************************************)
(* A result that was written through while nobody else had to do with its  *)
(* key stays in Redis until its TTL passes or a PUT evicts the key, and no *)
(* node holds an older one, whatever the requests, evictions, clean-ups,   *)
(* deletes, restarts, warm-ups and outages that follow on any node: each   *)
(* deletion by key that follows was decided on an entry of that key, and   *)
(* none of those is older, so none expires before it.                      *)
(***************************************************************************)
THEOREM SafeResultsStay == Spec => []SafeResultStays
<1>1. Init => Sane /\ Protected
  BY Bounds DEF Init, Sane, Protected, Live, Idle, Cold
<1>2. Typed /\ Dated /\ InOrder /\ Sane /\ Protected => SafeResultStays
  <2> SUFFICES ASSUME Typed, Protected, NEW k \in Keys, safe[k] # None, ~ Expired(safe[k])
               PROVE  /\ \E e \in RedisFind(k) : e.data >= safe[k].data
                      /\ \A e \in Stored : e.key = k => e.data >= safe[k].data
    BY DEF SafeResultStays
  <2>1. Guarded(k)   BY DEF Protected, Live
  <2>2. ASSUME NEW e \in Stored, e.key = k PROVE e.data >= safe[k].data
    <3>1. e \in redis \/ \E n \in Nodes : e \in ToSet(lru[n])   BY DEF Stored
    <3>2. Carried(e)   BY <3>1 DEF Carried
    <3>3. e \in Entry
      <4>1. \A n \in Nodes : ToSet(lru[n]) \subseteq Entry   BY ListElements DEF Typed, LruTyped
      <4> QED  BY <3>1, <4>1 DEF Typed, RedisTyped
    <3> QED  BY <2>1, <2>2, <3>2, <3>3 DEF Guarded
  <2>3. PICK e \in redis : e.key = k   BY <2>1 DEF Guarded
  <2> QED  BY <2>2, <2>3 DEF RedisFind, Stored
<1>3. Typed /\ Dated /\ InOrder /\ Sane /\ Protected /\ [Next]_vars
         => (Typed /\ Dated /\ InOrder /\ Sane /\ Protected)'
  BY TypedStep, DatesStep, SaneStep, ProtectedStep
<1> QED  BY <1>1, <1>2, <1>3, TypedInit, DatesInit, PTL DEF Spec

-----------------------------------------------------------------------------
(* One node that serves one request at a time.                             *)

Ages ==
    /\ \A k \in Keys : finished[k] <= puts
    /\ \A e \in Entry : Carried(e) => finished[e.key] <= e.data /\ e.data <= puts

\* What the LRU holds is in Redis, but for the entry that is about to be.
Backed(n, t) == \A e \in ToSet(lru[n]) :
    Expired(e) \/ e \in redis \/ (thread[t].pc = "setex" /\ e.key = thread[t].key)

\* What the request knows of the two levels at each of its steps.
Knows(n, t) ==
    /\ thread[t].pc \in {"purge", "fallback", "cleanup", "rehydrate"} =>
          \A e \in ToSet(lru[n]) : e.key # thread[t].key
    /\ thread[t].pc = "rehydrate" => Expired(thread[t].entry) \/ thread[t].entry \in redis
    /\ thread[t].pc \in {"setex", "unevict"} =>
          /\ \A e \in ToSet(lru[n]) : e.key = thread[t].key => e = thread[t].entry
          /\ thread[t].evicted # None => \A e \in ToSet(lru[n]) : e.key # thread[t].evicted
    /\ thread[t].pc = "unevict" => /\ thread[t].evicted # None
                                   /\ \A e \in redis : e.key = thread[t].key => e = thread[t].entry

\* What warm-up has read is not what it still has to read or delete.
Warms(n) ==
    /\ node[n] = "down" => ToSet(lru[n]) = {}
    /\ node[n] = "warming" =>
          \A e \in ToSet(lru[n]) : e.key \notin warm[n].keys /\ e.key # warm[n].expired
    /\ warm[n].expired \notin warm[n].keys

Agree(n, t) == /\ up /\ (node[n] # "down" => connected[n])
               /\ Ages /\ Backed(n, t) /\ Knows(n, t) /\ Warms(n)

\* The results held are no older than the last PUT that was answered, because
\* the request that is answered now has its own in both levels.
LEMMA AgesStep ==
    ASSUME NEW n, NEW t, Nodes = {n}, Threads = {t}, Typed, Agree(n, t), [Next]_vars
    PROVE  Ages'
<1>1. puts \in Nat /\ puts' \in Nat /\ puts <= puts'   BY Growing
<1>2. finished \in [Keys -> 0..MaxPuts] /\ MaxPuts \in Nat   BY Bounds DEF Typed
<1>3. Ages /\ up /\ Knows(n, t) /\ (node[n] # "down" => connected[n])   BY DEF Agree
<1>4. ASSUME NEW e \in Entry, Carried(e)'
      PROVE  e.data <= puts' /\ finished[e.key] <= e.data /\ e.key \in Keys /\ e.data \in Nat
  <2>1. Carried(e) \/ (Fresh(e) /\ puts' = puts + 1)   BY <1>4, EntriesComeFromPuts
  <2>2. e.key \in Keys /\ e.data \in Nat /\ finished[e.key] \in Nat   BY <1>2 DEF Entry
  <2>3. CASE Carried(e)   BY <1>1, <1>3, <2>2, <2>3 DEF Ages
  <2>4. CASE Fresh(e) /\ puts' = puts + 1   BY <1>1, <1>2, <1>3, <2>2, <2>4 DEF Ages, Fresh
  <2> QED  BY <2>1, <2>3, <2>4
<1>5. ASSUME finished' = finished PROVE Ages'
  <2>1. \A k \in Keys : finished'[k] <= puts'   BY <1>1, <1>2, <1>3, <1>5 DEF Ages
  <2> QED  BY <1>4, <1>5, <2>1 DEF Ages
<1>6. ASSUME thread[t].pc \in Carrying, thread'[t] = Idle,
             finished' = [finished EXCEPT ![thread[t].key] = thread[t].entry.data],
             \A e \in redis' : e.key = thread[t].key => e = thread[t].entry,
             \A e \in ToSet(lru'[n]) : e.key = thread[t].key => e = thread[t].entry
      PROVE  Ages'
  <2> DEFINE k == thread[t].key
             d == thread[t].entry
  <2>1. k \in Keys /\ d \in Entry /\ d.key = k   BY <1>6 DEF Typed, ThreadsTyped, Fits, Carrying
  <2>2. Carried(d)   BY <1>6 DEF Carried
  <2>3. d.data <= puts /\ d.data \in Nat   BY <1>3, <2>1, <2>2 DEF Ages, Entry
  <2>4. finished'[k] = d.data /\ \A j \in Keys : j # k => finished'[j] = finished[j]
    BY <1>2, <1>6, <2>1
  <2>5. \A j \in Keys : finished'[j] <= puts'
    <3>1. \A j \in Keys : finished[j] \in Nat /\ finished[j] <= puts   BY <1>2, <1>3 DEF Ages
    <3> QED  BY <1>1, <2>3, <2>4, <3>1
  <2>6. ASSUME NEW e \in Entry, Carried(e)', e.key = k PROVE e = d
    <3>1. e \in redis' \/ e \in ToSet(lru'[n])
      BY <1>6, <2>6, IdleRequest DEF Carried, Carrying
    <3> QED  BY <1>6, <2>6, <3>1
  <2>7. ASSUME NEW e \in Entry, Carried(e)' PROVE finished'[e.key] <= e.data /\ e.data <= puts'
    <3>1. CASE e.key = k   BY <1>4, <2>3, <2>4, <2>6, <2>7, <3>1
    <3>2. CASE e.key # k   BY <1>4, <2>4, <2>7, <3>2
    <3> QED  BY <3>1, <3>2
  <2> QED  BY <2>5, <2>7 DEF Ages
<1>7. CASE Store(t)
  <2>1. node[thread[t].node] = "serving" /\ thread[t].node = n
    BY <1>7, StoreEffect DEF Typed, ThreadsTyped, Fits
  <2>2. connected[thread[t].node]   BY <1>3, <2>1
  <2>3. finished' = finished   BY <1>7, <2>2, StoreEffect
  <2> QED  BY <1>5, <2>3
<1>8. CASE WriteThrough(t)
  <2>1. /\ lru' = lru /\ thread[t].pc = "setex"
        /\ \A d \in redis' : d.key = thread[t].key => d = thread[t].entry
        /\ \/ thread'[t] = Idle /\ finished' = [finished EXCEPT ![thread[t].key] = thread[t].entry.data]
           \/ finished' = finished
    BY <1>3, <1>8, WriteThroughEffect
  <2>2. \A e \in ToSet(lru'[n]) : e.key = thread[t].key => e = thread[t].entry
    BY <1>3, <2>1 DEF Knows
  <2> QED  BY <1>5, <1>6, <2>1, <2>2 DEF Carrying
<1>9. CASE UnEvict(t)
  <2>1. /\ lru' = lru /\ thread[t].pc = "unevict" /\ redis' \subseteq redis /\ thread'[t] = Idle
        /\ finished' = [finished EXCEPT ![thread[t].key] = thread[t].entry.data]
    BY <1>9, UnEvictEffect
  <2>2. /\ \A e \in ToSet(lru'[n]) : e.key = thread[t].key => e = thread[t].entry
        /\ \A e \in redis' : e.key = thread[t].key => e = thread[t].entry
    BY <1>3, <2>1 DEF Knows
  <2> QED  BY <1>6, <2>1, <2>2 DEF Carrying
<1>10. CASE \/ GetCache(t) \/ Lookup(t) \/ ExpiredInLru(t) \/ PurgeRedis(t) \/ Fallback(t)
            \/ CleanUp(t) \/ Rehydrate(t) \/ PutCache(t) \/ DeleteCache(t)
  <2>1. finished' = finished
    BY <1>10 DEF GetCache, Lookup, ExpiredInLru, PurgeRedis, Fallback, CleanUp, Rehydrate, PutCache,
                 DeleteCache, threadOnly
  <2> QED  BY <1>5, <2>1
<1>11. CASE \/ Boot(n) \/ WarmRead(n) \/ WarmDelete(n) \/ Warmed(n) \/ Stop(n)
            \/ RedisExpires \/ Outage \/ Recovery \/ Tick \/ UNCHANGED vars
  <2>1. finished' = finished
    BY <1>11 DEF Boot, WarmRead, WarmDelete, Warmed, Stop, RedisExpires, Outage, Recovery, Tick, vars
  <2> QED  BY <1>5, <2>1
<1> QED  BY <1>7, <1>8, <1>9, <1>10, <1>11 DEF Next

LEMMA WarmsStays ==
    ASSUME NEW n, Warms(n), node' = node, warm' = warm,
           ToSet(lru'[n]) \subseteq ToSet(lru[n]) \/ node[n] = "serving"
    PROVE  Warms(n)'
BY DEF Warms

\* The steps of a request.
LEMMA AgreeRequest ==
    ASSUME NEW n, NEW t, Nodes = {n}, Threads = {t}, Typed, Agree(n, t), [Next]_vars,
           \/ GetCache(t) \/ Lookup(t) \/ ExpiredInLru(t) \/ PurgeRedis(t) \/ Fallback(t)
           \/ CleanUp(t) \/ Rehydrate(t) \/ PutCache(t) \/ Store(t) \/ WriteThrough(t)
           \/ UnEvict(t) \/ DeleteCache(t)
    PROVE  Agree(n, t)'
<1> DEFINE L == ToSet(lru[n])
           Steps == UNCHANGED <<up, now, nodeVars>>
           Goal == Backed(n, t)' /\ Knows(n, t)' /\ Warms(n)'
<1>0. up /\ (node[n] # "down" => connected[n]) /\ Backed(n, t) /\ Knows(n, t) /\ Warms(n)
  BY DEF Agree
<1>a. L \subseteq Entry /\ redis \subseteq Entry
  BY ListElements DEF Typed, LruTyped, RedisTyped
<1>b. thread[t].pc # "idle" => thread[t].node = n /\ node[n] = "serving"
  BY DEF Typed, ThreadsTyped, Fits
<1>c. ASSUME Steps, ToSet(lru'[n]) \subseteq L \/ node[n] = "serving" PROVE Warms(n)'
  BY <1>0, <1>c, WarmsStays DEF nodeVars
<1> HIDE DEF L
<1>1. ASSUME GetCache(t) PROVE Steps /\ Goal
  <2>1. /\ UNCHANGED <<lru, redis, up, now, nodeVars>> /\ thread'[t].pc = "lookup"
        /\ thread[t].pc = "idle"
    BY <1>1, RequestBegins DEF threadOnly
  <2>2. Backed(n, t)'   BY <1>0, <2>1 DEF Backed, Expired
  <2> QED  BY <1>c, <2>1, <2>2 DEF Knows, L
<1>2. ASSUME Lookup(t) PROVE Steps /\ Goal
  <2>1. /\ UNCHANGED <<redis, up, now, nodeVars>> /\ ToSet(lru'[n]) = L
        /\ thread[t].pc = "lookup" /\ thread'[t].pc \in {"idle", "fallback", "expired"}
        /\ thread'[t].pc = "fallback" =>
              thread'[t].key = thread[t].key /\ \A e \in L : e.key # thread[t].key
    BY <1>2, <1>b, LookupEffect DEF threadOnly, L
  <2>2. Backed(n, t)'   BY <1>0, <2>1 DEF Backed, Expired, L
  <2> QED  BY <1>c, <2>1, <2>2 DEF Knows
<1>3. ASSUME ExpiredInLru(t) PROVE Steps /\ Goal
  <2>1. /\ UNCHANGED <<redis, up, now, nodeVars>> /\ ToSet(lru'[n]) \subseteq L
        /\ thread[t].pc = "expired" /\ thread'[t].pc = "purge" /\ thread'[t].key = thread[t].key
        /\ \A e \in ToSet(lru'[n]) : e.key # thread[t].key
    BY <1>3, <1>b, ExpiredEffect DEF threadOnly, L
  <2>2. Backed(n, t)'   BY <1>0, <2>1 DEF Backed, Expired, L
  <2> QED  BY <1>c, <2>1, <2>2 DEF Knows
<1>4. ASSUME PurgeRedis(t) PROVE Steps /\ Goal
  <2>1. /\ UNCHANGED <<lru, up, now, nodeVars>>
        /\ thread[t].pc = "purge" /\ thread'[t].pc = "fallback" /\ thread'[t].key = thread[t].key
        /\ \A e \in redis : e.key # thread[t].key => e \in redis'
    BY <1>4, PurgeEffect DEF threadOnly
  <2>2. \A e \in L : e.key # thread[t].key   BY <1>0, <2>1 DEF Knows, L
  <2>3. Backed(n, t)'   BY <1>0, <2>1, <2>2 DEF Backed, Expired, L
  <2> QED  BY <1>c, <2>1, <2>2, <2>3 DEF Knows, L
<1>5. ASSUME Fallback(t) PROVE Steps /\ Goal
  <2>1. /\ UNCHANGED <<lru, redis, up, now, nodeVars>>
        /\ thread[t].pc = "fallback" /\ thread'[t].pc \in {"idle", "cleanup", "rehydrate"}
        /\ thread'[t].pc # "idle" => thread'[t].key = thread[t].key
        /\ thread'[t].pc = "rehydrate" => thread'[t].entry \in redis
    BY <1>5, FallbackEffect DEF threadOnly
  <2>2. \A e \in L : e.key # thread[t].key   BY <1>0, <2>1 DEF Knows, L
  <2>3. Backed(n, t)'   BY <1>0, <2>1 DEF Backed, Expired
  <2> QED  BY <1>c, <2>1, <2>2, <2>3 DEF Knows, L
<1>6. ASSUME CleanUp(t) PROVE Steps /\ Goal
  <2>1. /\ UNCHANGED <<lru, up, now, nodeVars>> /\ thread[t].pc = "cleanup" /\ thread'[t].pc = "idle"
        /\ \A e \in redis : e.key # thread[t].key => e \in redis'
    BY <1>6, CleanUpEffect, IdleRequest DEF threadOnly
  <2>2. \A e \in L : e.key # thread[t].key   BY <1>0, <2>1 DEF Knows, L
  <2>3. Backed(n, t)'   BY <1>0, <2>1, <2>2 DEF Backed, Expired, L
  <2> QED  BY <1>c, <2>1, <2>3 DEF Knows, L
<1>7. ASSUME Rehydrate(t) PROVE Steps /\ Goal
  <2>1. /\ UNCHANGED <<redis, up, now, nodeVars>> /\ thread[t].pc = "rehydrate" /\ thread'[t].pc = "idle"
        /\ Has(n, thread[t].entry)
    BY <1>7, <1>b, RehydrateEffect, IdleRequest DEF threadOnly
  <2>2. Expired(thread[t].entry) \/ thread[t].entry \in redis   BY <1>0, <2>1 DEF Knows
  <2>3. \A e \in ToSet(lru'[n]) : e \in L \/ e = thread[t].entry   BY <2>1 DEF Has, L
  <2>4. Backed(n, t)'   BY <1>0, <2>1, <2>2, <2>3 DEF Backed, Expired, L
  <2> QED  BY <1>b, <1>c, <2>1, <2>4 DEF Knows
<1>8. ASSUME PutCache(t) PROVE Steps /\ Goal
  <2>1. /\ UNCHANGED <<lru, redis, up, now, nodeVars>> /\ thread[t].pc = "idle"
        /\ thread'[t].pc = "store"
    BY <1>8, PutBegins
  <2>2. Backed(n, t)'   BY <1>0, <2>1 DEF Backed, Expired
  <2> QED  BY <1>c, <2>1, <2>2 DEF Knows, L
<1>9. ASSUME Store(t) PROVE Steps /\ Goal
  <2>1. thread[t].pc = "store"   BY <1>9, StoreEffect
  <2>2. connected[n] /\ thread[t].node = n /\ node[n] = "serving"   BY <1>0, <1>b, <2>1
  <2>3. thread[t].entry.key = thread[t].key
    BY <2>1 DEF Typed, ThreadsTyped, Fits
  <2>4. /\ UNCHANGED <<redis, up, now, nodeVars>> /\ Has(n, thread[t].entry)
        /\ thread'[t].pc = "setex" /\ thread'[t].key = thread[t].key
        /\ thread'[t].entry = thread[t].entry
        /\ thread'[t].evicted # None => \A d \in ToSet(lru'[n]) : d.key # thread'[t].evicted
    BY <1>9, <2>2, StoreEffect
  <2>5. \A e \in ToSet(lru'[n]) : (e \in L /\ e.key # thread[t].key) \/ e = thread[t].entry
    BY <2>3, <2>4 DEF Has, L
  <2>6. Backed(n, t)'   BY <1>0, <2>1, <2>3, <2>4, <2>5 DEF Backed, Expired, L
  <2>7. Knows(n, t)'   BY <2>4, <2>5 DEF Knows
  <2> QED  BY <1>c, <2>2, <2>4, <2>6, <2>7
<1>10. ASSUME WriteThrough(t) PROVE Steps /\ Goal
  <2>1. /\ UNCHANGED <<lru, up, now, nodeVars>> /\ thread[t].pc = "setex"
        /\ thread[t].entry \in redis'
        /\ \A d \in redis' : d.key = thread[t].key => d = thread[t].entry
        /\ \A d \in redis : d.key # thread[t].key => d \in redis'
    BY <1>0, <1>10, WriteThroughEffect
  <2>2. \/ thread'[t].pc = "idle"
        \/ /\ thread[t].evicted # None /\ thread'[t].pc = "unevict"
           /\ thread'[t].key = thread[t].key
           /\ thread'[t].entry = thread[t].entry /\ thread'[t].evicted = thread[t].evicted
    BY <1>10, WriteThroughEffect, IdleRequest
  <2>3. /\ \A e \in L : e.key = thread[t].key => e = thread[t].entry
        /\ thread[t].evicted # None => \A e \in L : e.key # thread[t].evicted
    BY <1>0, <2>1 DEF Knows, L
  <2>4. Backed(n, t)'   BY <1>0, <2>1, <2>3 DEF Backed, Expired, L
  <2>5. Knows(n, t)'   BY <2>1, <2>2, <2>3 DEF Knows, L
  <2> QED  BY <1>c, <2>1, <2>4, <2>5 DEF L
<1>11. ASSUME UnEvict(t) PROVE Steps /\ Goal
  <2>1. /\ UNCHANGED <<lru, up, now, nodeVars>> /\ thread[t].pc = "unevict" /\ thread'[t].pc = "idle"
        /\ \A e \in redis : e.key # thread[t].evicted => e \in redis'
    BY <1>11, UnEvictEffect, IdleRequest
  <2>2. \A e \in L : e.key # thread[t].evicted   BY <1>0, <2>1 DEF Knows, L
  <2>3. Backed(n, t)'   BY <1>0, <2>1, <2>2 DEF Backed, Expired, L
  <2> QED  BY <1>c, <2>1, <2>3 DEF Knows, L
<1>12. ASSUME DeleteCache(t) PROVE Steps /\ Goal
  <2>1. /\ UNCHANGED <<redis, up, now, nodeVars, thread>> /\ thread[t].pc = "idle"
        /\ ToSet(lru'[n]) \subseteq L
    BY <1>12, DeleteEffect DEF L
  <2>2. Backed(n, t)'   BY <1>0, <2>1 DEF Backed, Expired, L
  <2> QED  BY <1>c, <2>1, <2>2 DEF Knows
<1>13. Steps /\ Goal
  BY <1>1, <1>2, <1>3, <1>4, <1>5, <1>6, <1>7, <1>8, <1>9, <1>10, <1>11, <1>12
<1>14. Ages'   BY AgesStep
<1>15. up' /\ (node'[n] # "down" => connected'[n])   BY <1>0, <1>13, Zenon DEF nodeVars
<1> QED  BY <1>13, <1>14, <1>15 DEF Agree

\* The steps of the node, of Redis and of the clock.
LEMMA AgreeNode ==
    ASSUME NEW n, NEW t, Nodes = {n}, Threads = {t}, Typed, Agree(n, t), [Next]_vars, outages' = 0,
           outages = 0,
           \/ Boot(n) \/ WarmRead(n) \/ WarmDelete(n) \/ Warmed(n) \/ Stop(n)
           \/ RedisExpires \/ Outage \/ Recovery \/ Tick \/ UNCHANGED vars
    PROVE  Agree(n, t)'
<1> DEFINE L == ToSet(lru[n])
           Goal == Backed(n, t)' /\ Knows(n, t)' /\ Warms(n)'
           Reach == up' /\ (node'[n] # "down" => connected'[n])
<1>0. up /\ (node[n] # "down" => connected[n]) /\ Backed(n, t) /\ Knows(n, t) /\ Warms(n)
  BY DEF Agree
<1>a. L \subseteq Entry /\ redis \subseteq Entry /\ warm[n].keys \subseteq Keys
  BY ListElements DEF Typed, LruTyped, RedisTyped, NodesTyped, Warming
<1>b. node[n] # "serving" => thread[t].pc = "idle"
  BY DEF Typed, ThreadsTyped, Fits
<1>c. \A e \in Entry : e.key \in Keys /\ e.key # None   BY Bounds DEF Entry
<1>d. Cold.keys = {} /\ Cold.expired = None   BY ColdStart
<1> HIDE DEF L
<1>1. ASSUME Boot(n) PROVE Reach /\ Goal
  <2>1. /\ UNCHANGED <<lru, redis, up, now, thread>> /\ node[n] = "down"
        /\ node'[n] \in {"warming", "serving"} /\ connected'[n] = up /\ warm'[n].expired = None
    BY <1>1, BootEffect
  <2>2. L = {} /\ thread[t].pc = "idle"   BY <1>0, <1>b, <2>1 DEF Warms, L
  <2>3. warm'[n].keys \subseteq Keys /\ None \notin Keys
    BY TypedStep, Bounds DEF Typed, NodesTyped, Warming
  <2>4. Reach   BY <1>0, <2>1, Zenon
  <2>5. Warms(n)'   BY <2>1, <2>2, <2>3 DEF Warms, L
  <2> QED  BY <2>1, <2>2, <2>4, <2>5 DEF Backed, Knows, L
<1>2. ASSUME WarmRead(n) PROVE Reach /\ Goal
  <2>1. UNCHANGED <<redis, up, now, node, connected, thread>> /\ node[n] = "warming"
    BY <1>2, WarmReadEffect
  <2>2. PICK k \in warm[n].keys :
           /\ warm'[n].keys = warm[n].keys \ {k} /\ warm'[n].expired \in {None, k}
           /\ \/ lru' = lru
              \/ \E e \in redis : e.key = k /\ Has(n, e) /\ warm'[n].expired = None
    BY <1>2, WarmReadEffect
  <2>3. \A d \in ToSet(lru'[n]) :
           d \in L \/ (d \in redis /\ d.key = k /\ warm'[n].expired = None)
    BY <2>2 DEF Has, L
  <2>4. \A d \in L : d.key \notin warm[n].keys /\ d.key \in Keys /\ d.key # None
    BY <1>0, <1>a, <1>c, <2>1 DEF Warms, L
  <2>5. k \in Keys /\ k # None /\ None \notin warm[n].keys   BY <1>a, Bounds
  <2>6. Warms(n)'   BY <2>1, <2>2, <2>3, <2>4, <2>5 DEF Warms
  <2>7. thread[t].pc = "idle"   BY <1>b, <2>1
  <2>8. Backed(n, t)'   BY <1>0, <2>1, <2>3, <2>7 DEF Backed, Expired, L
  <2>9. Reach   BY <1>0, <2>1, Zenon
  <2> QED  BY <2>1, <2>6, <2>7, <2>8, <2>9 DEF Knows
<1>3. ASSUME WarmDelete(n) PROVE Reach /\ Goal
  <2>1. /\ UNCHANGED <<lru, up, now, node, connected, thread>> /\ node[n] = "warming"
        /\ warm'[n].keys = warm[n].keys /\ warm'[n].expired = None
        /\ \A e \in redis : e.key # warm[n].expired => e \in redis'
    BY <1>3, WarmDeleteEffect
  <2>2. \A d \in L : d.key \notin warm[n].keys /\ d.key # warm[n].expired /\ d.key # None
    BY <1>0, <1>a, <1>c, <2>1 DEF Warms, L
  <2>3. thread[t].pc = "idle" /\ None \notin warm[n].keys   BY <1>a, <1>b, <2>1, Bounds
  <2>4. Warms(n)'   BY <2>1, <2>2, <2>3 DEF Warms, L
  <2>5. Backed(n, t)'   BY <1>0, <2>1, <2>2, <2>3 DEF Backed, Expired, L
  <2>6. Reach   BY <1>0, <2>1, Zenon
  <2> QED  BY <2>1, <2>3, <2>4, <2>5, <2>6 DEF Knows
<1>4. ASSUME Warmed(n) PROVE Reach /\ Goal
  <2>1. /\ UNCHANGED <<lru, redis, up, now, connected, thread>> /\ node[n] = "warming"
        /\ node'[n] = "serving" /\ warm'[n] = Cold
    BY <1>4, WarmedEffect
  <2>2. Warms(n)'   BY <1>d, <2>1 DEF Warms
  <2>3. Backed(n, t)' /\ Knows(n, t)'   BY <1>0, <2>1 DEF Backed, Knows, Expired
  <2>4. node[n] # "down"   BY <2>1
  <2>5. Reach   BY <1>0, <2>1, <2>4, Zenon
  <2> QED  BY <2>2, <2>3, <2>5
<1>5. ASSUME Stop(n) PROVE Reach /\ Goal
  <2>1. /\ UNCHANGED <<redis, up, now>> /\ node'[n] = "down" /\ warm'[n] = Cold
        /\ ToSet(lru'[n]) = {}
        /\ thread'[t] = Idle \/ (thread[t].node # n /\ thread'[t] = thread[t])
    BY <1>5, StopEffect
  <2>2. thread'[t].pc = "idle"   BY <2>1, IdleRequest DEF Typed, ThreadsTyped, Fits
  <2>3. Reach   BY <1>0, <2>1, Zenon
  <2> QED  BY <1>d, <2>1, <2>2, <2>3 DEF Backed, Knows, Warms
<1>6. ASSUME RedisExpires PROVE Reach /\ Goal
  <2>1. UNCHANGED <<lru, up, now, node, connected, warm, thread>>   BY <1>6, ExpiryEffect DEF nodeVars
  <2>2. PICK e \in redis : Expired(e) /\ redis' = redis \ {e}   BY <1>6, ExpiryEffect
  <2>3. Warms(n)'   BY <1>0, <2>1 DEF Warms
  <2>4. Backed(n, t)'   BY <1>0, <2>1, <2>2 DEF Backed, Expired
  <2>5. Knows(n, t)'   BY <1>0, <2>1, <2>2 DEF Knows, Expired
  <2>6. Reach   BY <1>0, <2>1, Zenon
  <2> QED  BY <2>3, <2>4, <2>5, <2>6
<1>7. ASSUME Outage \/ Recovery \/ Tick PROVE Reach /\ Goal
  <2>1. UNCHANGED <<lru, redis, up, node, connected, warm, thread>>
    <3>1. /\ UNCHANGED <<lru, redis, nodeVars, thread>>
          /\ \/ UNCHANGED <<up, outages>>
             \/ ~ up
             \/ outages' = outages + 1
      BY <1>7, OutageEffect
    <3>2. outages' # outages + 1   OBVIOUS
    <3>3. UNCHANGED <<up, outages>>   BY <1>0, <3>1, <3>2
    <3> QED  BY <3>1, <3>3 DEF nodeVars
  <2>2. \A e \in Entry : Expired(e) => Expired(e)'   BY StillExpired
  <2>3. Warms(n)'   BY <1>0, <2>1 DEF Warms
  <2>4. Backed(n, t)'   BY <1>0, <1>a, <2>1, <2>2 DEF Backed, L
  <2>5. thread[t].pc = "rehydrate" => thread[t].entry \in Entry
    BY DEF Typed, ThreadsTyped, Fits
  <2>6. Knows(n, t)'   BY <1>0, <2>1, <2>2, <2>5 DEF Knows
  <2>7. Reach   BY <1>0, <2>1, Zenon
  <2> QED  BY <2>3, <2>4, <2>6, <2>7
<1>8. ASSUME UNCHANGED vars PROVE Reach /\ Goal
  <2>1. UNCHANGED <<lru, redis, up, now, node, connected, warm, thread>>   BY <1>8 DEF vars, nodeVars
  <2>2. Backed(n, t)' /\ Knows(n, t)' /\ Warms(n)'
    BY <1>0, <2>1 DEF Backed, Knows, Warms, Expired
  <2>3. Reach   BY <1>0, <2>1, Zenon
  <2> QED  BY <2>2, <2>3
<1>9. Reach /\ Goal   BY <1>1, <1>2, <1>3, <1>4, <1>5, <1>6, <1>7, <1>8
<1>10. Ages'   BY AgesStep
<1> QED  BY <1>9, <1>10 DEF Agree

(***************************************************************************)
(* When one node serves its requests one by one and Redis stays up, the    *)
(* two levels agree between requests: an unexpired entry of the LRU is in  *)
(* Redis too, so a restart does not lose it, and no level holds a result   *)
(* older than the last PUT that was answered.  Capacity, keys, expiry,     *)
(* deletes and restarts are as they may be.                                *)
(***************************************************************************)
THEOREM LevelsAgree ==
    ASSUME NEW n, NEW t, Nodes = {n}, Threads = {t}
    PROVE  Spec => []Coherent
<1>1. Init => (outages = 0 => Agree(n, t))
  <2> SUFFICES ASSUME Init PROVE Agree(n, t)   OBVIOUS
  <2>1. /\ lru[n] = << >> /\ redis = {} /\ up = TRUE /\ node[n] = "down" /\ warm[n] = Cold
        /\ thread[t] = Idle /\ finished = [k \in Keys |-> 0] /\ puts = 0
    BY DEF Init
  <2>2. ToSet(<< >>) = {} /\ thread[t].pc = "idle"   BY <2>1, IdleRequest DEF ToSet
  <2>3. Ages   BY <2>1, <2>2 DEF Ages, Carried, Carrying
  <2>4. Backed(n, t) /\ Knows(n, t) /\ Warms(n)
    BY <2>1, <2>2, ColdStart DEF Backed, Knows, Warms
  <2> QED  BY <2>1, <2>3, <2>4 DEF Agree
<1>2. Typed /\ (outages = 0 => Agree(n, t)) /\ [Next]_vars => (outages = 0 => Agree(n, t))'
  <2> SUFFICES ASSUME Typed, outages = 0 => Agree(n, t), [Next]_vars, outages' = 0
               PROVE  Agree(n, t)'
    OBVIOUS
  <2>1. outages = 0   BY Growing
  <2>2. \/ GetCache(t) \/ Lookup(t) \/ ExpiredInLru(t) \/ PurgeRedis(t) \/ Fallback(t)
        \/ CleanUp(t) \/ Rehydrate(t) \/ PutCache(t) \/ Store(t) \/ WriteThrough(t)
        \/ UnEvict(t) \/ DeleteCache(t)
        \/ Boot(n) \/ WarmRead(n) \/ WarmDelete(n) \/ Warmed(n) \/ Stop(n)
        \/ RedisExpires \/ Outage \/ Recovery \/ Tick \/ UNCHANGED vars
    BY DEF Next
  <2> QED  BY <2>1, <2>2, AgreeRequest, AgreeNode
<1>3. Typed /\ (outages = 0 => Agree(n, t)) => Coherent
  <2> SUFFICES ASSUME Typed, Agree(n, t), Quiet
               PROVE  /\ \A m \in Nodes : \A e \in ToSet(lru[m]) : Expired(e) \/ e \in redis
                      /\ \A e \in Stored : e.data >= finished[e.key]
    BY DEF Coherent
  <2>1. \A e \in ToSet(lru[n]) : Expired(e) \/ e \in redis   BY DEF Agree, Backed, Quiet
  <2>2. ASSUME NEW e \in Stored PROVE e.data >= finished[e.key]
    <3>1. e \in redis \/ e \in ToSet(lru[n])   BY DEF Stored
    <3>2. e \in Entry   BY <3>1, ListElements DEF Typed, LruTyped, RedisTyped
    <3>3. finished[e.key] <= e.data   BY <3>1, <3>2 DEF Agree, Ages, Carried
    <3>4. finished[e.key] \in Nat /\ e.data \in Nat   BY <3>2, Bounds DEF Typed, Entry
    <3> QED  BY <3>3, <3>4
  <2> QED  BY <2>1, <2>2
<1>4. Typed /\ [Next]_vars => Typed'   BY TypedStep
<1> QED  BY <1>1, <1>2, <1>3, <1>4, TypedInit, PTL DEF Spec
=============================================================================
