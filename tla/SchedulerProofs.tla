-------------------------- MODULE SchedulerProofs ---------------------------
(***************************************************************************)
(* Proofs about the Scheduler for every number of jobs, workers, deaths    *)
(* and faults: the inductive invariant IInv, the invariants it contains,   *)
(* the refinement of JobService, the order of the first dispatches, what   *)
(* can be reclaimed of a dying worker, and the counters of the registry.   *)
(***************************************************************************)
EXTENDS Scheduler, SequenceTheorems, FiniteSetTheorems, TLAPS

\* A fact of arithmetic, stated apart for the provers.
LEMMA AddBothSides ==
    \A b, i, s, d \in Nat : b <= i + s => b + d <= i + s + d
  OBVIOUS

-----------------------------------------------------------------------------
(* Lemmas about the registry: what each operator leaves of the type, and   *)
(* how it changes the sets of workers.                                     *)

\* The sets of workers are finite, and between them count the entries.
LEMMA RegistryCounts ==
    ASSUME NEW R, WellFormed(R)
    PROVE  /\ IsFiniteSet(AliveIn(R)) /\ Cardinality(AliveIn(R)) \in Nat
           /\ IsFiniteSet(DeadIn(R)) /\ Cardinality(DeadIn(R)) \in Nat
           /\ AliveIn(R) \cap DeadIn(R) = {}
           /\ Cardinality(AliveIn(R)) + Cardinality(DeadIn(R)) = R.size
<1>1. IsFiniteSet(WorkerIds)
  BY FS_Interval, MaxSpawnsAssumption DEF WorkerIds
<1>2. AliveIn(R) \subseteq WorkerIds /\ DeadIn(R) \subseteq WorkerIds
  BY DEF AliveIn, DeadIn
<1>3. IsFiniteSet(AliveIn(R)) /\ IsFiniteSet(DeadIn(R))
  BY <1>1, <1>2, FS_Subset
<1>4. Cardinality(AliveIn(R)) \in Nat /\ Cardinality(DeadIn(R)) \in Nat
  BY <1>3, FS_CardinalityType
<1>5. AliveIn(R) \cap DeadIn(R) = {}
  BY DEF AliveIn, DeadIn
<1>6. R.size \in 0..MaxSpawns
  BY DEF WellFormed, Registry
<1>7. AliveIn(R) \cup DeadIn(R) = 1..R.size
  <2>1. \A w \in WorkerIds : w <= R.size <=> R.status[w] # "unregistered"
    BY DEF WellFormed
  <2>2. \A w \in WorkerIds : R.status[w] \in {"unregistered", "alive", "dead"}
    BY DEF WellFormed, Registry, WorkerStatus
  <2>3. \A w : w \in WorkerIds /\ w <= R.size <=> w \in 1..R.size
    BY <1>6, MaxSpawnsAssumption DEF WorkerIds
  <2> QED  BY <2>1, <2>2, <2>3 DEF AliveIn, DeadIn
<1>8. Cardinality(1..R.size) = R.size
  <2>1. \A n \in Nat : Cardinality(1..n) = n
    <3>1. ASSUME NEW n \in Nat PROVE Cardinality(1..n) = IF 1 > n THEN 0 ELSE n - 1 + 1
      <4>1. 1 \in Int /\ n \in Int   OBVIOUS
      <4> QED  BY <4>1, FS_Interval, Zenon
    <3> QED  BY <3>1
  <2>2. R.size \in Nat   BY <1>6, MaxSpawnsAssumption
  <2> QED  BY <2>1, <2>2
<1>9. Cardinality(AliveIn(R) \cup DeadIn(R)) = Cardinality(AliveIn(R)) + Cardinality(DeadIn(R))
  <2>1. Cardinality(AliveIn(R) \cap DeadIn(R)) = 0
    BY <1>5, FS_EmptySet
  <2>2. Cardinality(AliveIn(R) \cup DeadIn(R)) = Cardinality(AliveIn(R))
            + Cardinality(DeadIn(R)) - Cardinality(AliveIn(R) \cap DeadIn(R))
    BY <1>3, FS_Union
  <2> QED  BY <1>4, <2>1, <2>2
<1> QED
  BY <1>3, <1>4, <1>5, <1>7, <1>8, <1>9

\* The registry a scheduler starts from is empty.
LEMMA EmptyRegistryFacts ==
    /\ WellFormed(EmptyRegistry)
    /\ AliveIn(EmptyRegistry) = {} /\ DeadIn(EmptyRegistry) = {}
    /\ EmptyRegistry.size = 0
  BY MaxSpawnsAssumption
  DEF WellFormed, EmptyRegistry, Registry, AliveIn, DeadIn, WorkerIds, WorkerStatus

\* Registering n workers makes n more alive and touches nobody else.
LEMMA RegisterFacts ==
    ASSUME NEW R, WellFormed(R), NEW n \in Nat, R.size + n <= MaxSpawns
    PROVE  /\ WellFormed(Register(R, n))
           /\ AliveIn(R) \subseteq AliveIn(Register(R, n))
           /\ DeadIn(Register(R, n)) = DeadIn(R)
           /\ Register(R, n).size = R.size + n
           /\ Cardinality(AliveIn(Register(R, n))) = Cardinality(AliveIn(R)) + n
<1> DEFINE S == Register(R, n)
<1>1. R.size \in 0..MaxSpawns /\ R.size \in Nat
  BY MaxSpawnsAssumption DEF WellFormed, Registry
<1>2. S.size = R.size + n
  BY <1>1 DEF Register, WellFormed, Registry
<1>3. S.status = [w \in WorkerIds |-> IF w \in (R.size + 1)..(R.size + n)
                                      THEN "alive" ELSE R.status[w]]
  BY DEF Register, WellFormed, Registry
<1>4. S.load = R.load /\ S.assigned = R.assigned /\ S.completed = R.completed
  BY DEF Register, WellFormed, Registry
<1>5. S \in Registry
  <2>1. R.size + n \in 0..MaxSpawns
    BY <1>1, MaxSpawnsAssumption
  <2>2. [w \in WorkerIds |-> IF w \in (R.size + 1)..(R.size + n)
                              THEN "alive" ELSE R.status[w]]
            \in [WorkerIds -> WorkerStatus]
    BY DEF WellFormed, Registry, WorkerStatus
  <2> QED
    BY <2>1, <2>2 DEF Register, WellFormed, Registry
<1>6. WellFormed(S)
  <2> SUFFICES ASSUME NEW w \in WorkerIds
               PROVE  S.status[w] # "unregistered" <=> w <= S.size
    BY <1>5 DEF WellFormed
  <2>1. w \in Nat /\ w >= 1
    BY MaxSpawnsAssumption DEF WorkerIds
  <2>2. R.status[w] # "unregistered" <=> w <= R.size
    BY DEF WellFormed
  <2> QED
    BY <1>1, <1>2, <1>3, <2>1, <2>2
<1>7. DeadIn(S) = DeadIn(R)
  <2>1. \A w \in WorkerIds : w \in (R.size + 1)..(R.size + n) => R.status[w] = "unregistered"
    BY <1>1, MaxSpawnsAssumption DEF WellFormed, WorkerIds
  <2> HIDE DEF S
  <2> QED
    BY <1>3, <2>1 DEF DeadIn
<1>8. AliveIn(R) \subseteq AliveIn(S)
  <2> HIDE DEF S
  <2> QED  BY <1>3 DEF AliveIn
<1>9. Cardinality(AliveIn(S)) = Cardinality(AliveIn(R)) + n
  BY <1>1, <1>2, <1>6, <1>7, RegistryCounts
<1> QED
  BY <1>2, <1>6, <1>7, <1>8, <1>9

\* A death moves one alive worker to the dead ones.
LEMMA MarkDeadFacts ==
    ASSUME NEW R, WellFormed(R), NEW w \in AliveIn(R)
    PROVE  /\ WellFormed(MarkDead(R, w))
           /\ AliveIn(MarkDead(R, w)) = AliveIn(R) \ {w}
           /\ DeadIn(MarkDead(R, w)) = DeadIn(R) \cup {w}
           /\ MarkDead(R, w).size = R.size
           /\ Cardinality(AliveIn(MarkDead(R, w))) = Cardinality(AliveIn(R)) - 1
           /\ Cardinality(DeadIn(MarkDead(R, w))) = Cardinality(DeadIn(R)) + 1
<1> DEFINE S == MarkDead(R, w)
<1>1. w \in WorkerIds /\ w \notin DeadIn(R) /\ R.status[w] = "alive"
  BY DEF AliveIn, DeadIn
<1>4. S.status = [R.status EXCEPT ![w] = "dead"] /\ S.size = R.size
  BY DEF MarkDead, WellFormed, Registry
<1>3. S \in Registry
  BY <1>1 DEF MarkDead, WellFormed, Registry, WorkerStatus
<1> HIDE DEF S
<1>5. WellFormed(S)
  BY <1>1, <1>3, <1>4 DEF WellFormed, Registry
<1>6. AliveIn(S) = AliveIn(R) \ {w} /\ DeadIn(S) = DeadIn(R) \cup {w}
  BY <1>1, <1>4 DEF AliveIn, DeadIn, WellFormed, Registry
<1>7. Cardinality(DeadIn(S)) = Cardinality(DeadIn(R)) + 1
  BY <1>1, <1>6, RegistryCounts, FS_AddElement
<1>8. Cardinality(AliveIn(S)) = Cardinality(AliveIn(R)) - 1
  BY <1>4, <1>5, <1>7, RegistryCounts
<1> QED
  BY <1>4, <1>5, <1>6, <1>7, <1>8 DEF S

\* The counter operators change no status.
LEMMA CounterFacts ==
    ASSUME NEW R, WellFormed(R), NEW w \in WorkerIds,
           NEW S \in {MarkAssigned(R, w), MarkCompleted(R, w), MarkFailed(R, w)}
    PROVE  /\ WellFormed(S) /\ S.status = R.status /\ S.size = R.size
           /\ AliveIn(S) = AliveIn(R) /\ DeadIn(S) = DeadIn(R)
<1>1. \A k \in Nat : Decrement(k) \in Nat /\ k + 1 \in Nat
  BY DEF Decrement
<1>2. S \in Registry /\ S.status = R.status /\ S.size = R.size
  <2>1. CASE S = MarkAssigned(R, w)
    BY <1>1, <2>1 DEF MarkAssigned, WellFormed, Registry
  <2>2. CASE S = MarkCompleted(R, w)
    BY <1>1, <2>2 DEF MarkCompleted, WellFormed, Registry
  <2>3. CASE S = MarkFailed(R, w)
    BY <1>1, <2>3 DEF MarkFailed, WellFormed, Registry
  <2> QED  BY <2>1, <2>2, <2>3
<1> QED
  BY <1>2 DEF WellFormed, AliveIn, DeadIn

-----------------------------------------------------------------------------
(* Lemmas about the queue.                                                 *)

\* An element of a sequence of jobs is a job; a one-element sequence has one.
LEMMA ElementsType ==
    /\ \A s \in Seq(Jobs) : Elements(s) \subseteq Jobs
    /\ \A j \in Jobs : <<j>> \in Seq(Jobs) /\ Elements(<<j>>) = {j}
BY DEF Elements

\* Requeueing a sequence of jobs adds its elements.
LEMMA ConcatElements ==
    ASSUME NEW s \in Seq(Jobs), NEW t \in Seq(Jobs)
    PROVE  s \o t \in Seq(Jobs) /\ Elements(s \o t) = Elements(s) \cup Elements(t)
<1>1. s \o t \in Seq(Jobs)   OBVIOUS
<1>2. Range(s \o t) = Range(s) \cup Range(t)   BY RangeConcatenation
<1>3. \A u \in Seq(Jobs) : Range(u) = Elements(u)   BY RangeEquality, Zenon DEF Elements
<1> QED  BY <1>1, <1>2, <1>3

\* asyncio.Queue.put adds one element.
LEMMA AppendElements ==
    ASSUME NEW s \in Seq(Jobs), NEW j \in Jobs
    PROVE  Append(s, j) \in Seq(Jobs) /\ Elements(Append(s, j)) = Elements(s) \cup {j}
<1>1. Append(s, j) = s \o <<j>>   BY AppendIsConcat
<1>2. <<j>> \in Seq(Jobs) /\ Elements(<<j>>) = {j}   BY ElementsType
<1> QED  BY <1>1, <1>2, ConcatElements

\* asyncio.Queue.get takes one copy of the head.
LEMMA TailElements ==
    ASSUME NEW s \in Seq(Jobs), s # << >>
    PROVE  /\ Head(s) \in Jobs /\ Head(s) \in Elements(s) /\ Tail(s) \in Seq(Jobs)
           /\ Elements(s) = Elements(Tail(s)) \cup {Head(s)}
<1>1. Head(s) \in Jobs /\ Tail(s) \in Seq(Jobs) /\ Head(s) = s[1]   BY HeadTailProperties
<1>2. s = <<Head(s)>> \o Tail(s)   BY <1>1, SeqEqual
<1>3. <<Head(s)>> \in Seq(Jobs) /\ Elements(<<Head(s)>>) = {Head(s)}   BY <1>1, ElementsType
<1>4. Elements(s) = Elements(<<Head(s)>>) \cup Elements(Tail(s))   BY <1>1, <1>2, <1>3, ConcatElements
<1> QED  BY <1>1, <1>3, <1>4

\* Every order in which reclaimed jobs may come is a sequence of just those.
LEMMA OrderingsType ==
    ASSUME NEW S \in SUBSET Jobs, NEW s \in Orderings(S)
    PROVE  s \in Seq(Jobs) /\ Elements(s) = S
<1>1. PICK n \in 0..MaxJobs : s \in [1..n -> S]   BY DEF Orderings
<1>2. n \in Nat /\ s \in [1..n -> Jobs]   BY <1>1, MaxJobsAssumption
<1>3. s \in Seq(Jobs)   BY <1>2, SeqDef
<1> QED  BY <1>3 DEF Orderings

\* What each queue operation leaves of the queue, field by field.
LEMMA EnqueueFacts ==
    ASSUME NEW Q \in Queue, NEW j \in Jobs
    PROVE  /\ Enqueue(Q, j) \in Queue
           /\ Elements(Enqueue(Q, j).pending) = Elements(Q.pending) \cup {j}
           /\ Enqueue(Q, j).inflight = Q.inflight /\ Enqueue(Q, j).owner = Q.owner
<1>1. Append(Q.pending, j) \in Seq(Jobs)
      /\ Elements(Append(Q.pending, j)) = Elements(Q.pending) \cup {j}
  BY AppendElements DEF Queue
<1> QED
  BY <1>1 DEF Enqueue, Queue

LEMMA DequeueFacts ==
    ASSUME NEW Q \in Queue, Q.pending # << >>, NEW w \in WorkerIds
    PROVE  LET j == Head(Q.pending)
           IN  /\ j \in Jobs /\ j \in Elements(Q.pending)
               /\ Dequeue(Q, w) \in Queue
               /\ Elements(Q.pending) = Elements(Dequeue(Q, w).pending) \cup {j}
               /\ Dequeue(Q, w).inflight = Q.inflight \cup {j}
               /\ Dequeue(Q, w).owner = [Q.owner EXCEPT ![j] = w]
<1>1. Q.pending \in Seq(Jobs)
  BY DEF Queue
<1>2. /\ Head(Q.pending) \in Jobs /\ Head(Q.pending) \in Elements(Q.pending)
      /\ Tail(Q.pending) \in Seq(Jobs)
      /\ Elements(Q.pending) = Elements(Tail(Q.pending)) \cup {Head(Q.pending)}
  BY <1>1, TailElements
<1>3. w \in Nat
  BY MaxSpawnsAssumption DEF WorkerIds
<1> QED
  BY <1>2, <1>3 DEF Dequeue, Queue

LEMMA CompleteFacts ==
    ASSUME NEW Q \in Queue, NEW j \in Jobs
    PROVE  /\ Complete(Q, j) \in Queue /\ Complete(Q, j).pending = Q.pending
           /\ Complete(Q, j).inflight = Q.inflight \ {j}
           /\ Complete(Q, j).owner = Q.owner
  BY DEF Complete, Queue

LEMMA RequeueFacts ==
    ASSUME NEW Q \in Queue, NEW s \in Seq(Jobs)
    PROVE  /\ RequeueAll(Q, s) \in Queue
           /\ Elements(RequeueAll(Q, s).pending) = Elements(Q.pending) \cup Elements(s)
           /\ RequeueAll(Q, s).inflight = Q.inflight \ Elements(s)
           /\ \A j \in Jobs : j \notin Elements(s) => RequeueAll(Q, s).owner[j] = Q.owner[j]
<1>1. Q.pending \o s \in Seq(Jobs)
      /\ Elements(Q.pending \o s) = Elements(Q.pending) \cup Elements(s)
  BY ConcatElements DEF Queue
<1> QED
  BY <1>1 DEF RequeueAll, Queue, NoWorker

-----------------------------------------------------------------------------
(* Lemmas about the pool of workers.                                       *)

\* Spawning fills the pool by n workers, or up to MAX_WORKERS.
LEMMA SpawnUpToFacts ==
    ASSUME NEW R, WellFormed(R), NEW n \in Nat, R.size + n <= MaxSpawns,
           NEW S, S = SpawnUpTo(R, n)
    PROVE  LET a == Cardinality(AliveIn(R))
               b == Cardinality(AliveIn(S))
           IN  /\ WellFormed(S) /\ DeadIn(S) = DeadIn(R)
               /\ AliveIn(R) \subseteq AliveIn(S)
               /\ b >= a /\ b <= a + n
               /\ a <= MaxWorkers => b = Lesser(a + n, MaxWorkers)
               /\ a > MaxWorkers => b = a
<1> DEFINE a == Cardinality(AliveIn(R))
           k == Lesser(n, MaxWorkers - a)
<1>1. a \in Nat /\ R.size \in Nat
  BY RegistryCounts, MaxSpawnsAssumption DEF WellFormed, Registry
<1>2. MaxWorkers \in Nat
  BY SchedulerAssumption
<1>3. CASE MaxWorkers - a > 0
  <2>1. S = Register(R, k)
    BY <1>3 DEF SpawnUpTo
  <2>2. k \in Nat /\ k <= n /\ a + k = Lesser(a + n, MaxWorkers)
    BY <1>1, <1>2, <1>3 DEF Lesser
  <2>3. R.size + k <= MaxSpawns
    BY <1>1, <2>2, MaxSpawnsAssumption
  <2> HIDE DEF k
  <2>4. /\ WellFormed(S) /\ DeadIn(S) = DeadIn(R) /\ AliveIn(R) \subseteq AliveIn(S)
        /\ Cardinality(AliveIn(S)) = a + k
    BY <2>1, <2>2, <2>3, RegisterFacts
  <2> QED
    BY <1>1, <1>2, <1>3, <2>2, <2>4
<1>4. CASE ~(MaxWorkers - a > 0)
  <2>1. S = R
    BY <1>4 DEF SpawnUpTo
  <2>2. a <= MaxWorkers => a = Lesser(a + n, MaxWorkers)
    BY <1>1, <1>2, <1>4 DEF Lesser
  <2> HIDE DEF a
  <2> QED
    BY <1>1, <1>2, <2>1, <2>2 DEF a
<1> QED
  BY <1>3, <1>4

\* _replace_worker_if_needed brings the pool back to its size, never beyond it.
LEMMA ReplaceFacts ==
    ASSUME NEW R, WellFormed(R), Cardinality(DeadIn(R)) <= MaxDeaths,
           Cardinality(AliveIn(R)) <= MaxWorkers, NEW w,
           NEW S, S = ReplacedReg(R, w)
    PROVE  LET a == Cardinality(AliveIn(R))
               b == Cardinality(AliveIn(S))
           IN  /\ WellFormed(S) /\ DeadIn(S) = DeadIn(R)
               /\ AliveIn(R) \subseteq AliveIn(S)
               /\ b >= a /\ b <= MaxWorkers
               /\ b = a \/ b <= InitialWorkers
               /\ w \notin replaced => b >= Lesser(InitialWorkers, MaxWorkers)
<1> DEFINE a == Cardinality(AliveIn(R))
           d == Cardinality(DeadIn(R))
<1>1. a \in Nat /\ d \in Nat /\ R.size = a + d
  BY RegistryCounts
<1>2. /\ MaxWorkers \in Nat /\ InitialWorkers \in Nat /\ MaxDeaths \in Nat
      /\ MaxScaled \in Nat /\ MaxSpawns \in Nat
      /\ InitialWorkers + MaxScaled + MaxDeaths <= MaxSpawns
  BY SchedulerAssumption, MaxSpawnsAssumption
<1>3. CASE w \in replaced \/ a >= InitialWorkers
  <2>1. S = R
    BY <1>3 DEF ReplacedReg
  <2>2. a >= InitialWorkers => a >= Lesser(InitialWorkers, MaxWorkers)
    BY <1>1, <1>2 DEF Lesser
  <2> QED
    BY <1>1, <1>2, <1>3, <2>1, <2>2
<1>4. CASE ~(w \in replaced \/ a >= InitialWorkers)
  <2> DEFINE n == InitialWorkers - a
  <2>1. S = SpawnUpTo(R, n)
    BY <1>4 DEF ReplacedReg
  <2>2. n \in Nat /\ a + n = InitialWorkers /\ R.size + n <= MaxSpawns
    BY <1>1, <1>2, <1>4
  <2> HIDE DEF n
  <2>3. /\ WellFormed(S) /\ DeadIn(S) = DeadIn(R) /\ AliveIn(R) \subseteq AliveIn(S)
        /\ Cardinality(AliveIn(S)) >= a
        /\ Cardinality(AliveIn(S)) = Lesser(a + n, MaxWorkers)
    BY <2>1, <2>2, SpawnUpToFacts
  <2>4. Lesser(InitialWorkers, MaxWorkers) <= MaxWorkers
        /\ Lesser(InitialWorkers, MaxWorkers) <= InitialWorkers
    BY <1>2 DEF Lesser
  <2>5. Lesser(InitialWorkers, MaxWorkers) \in Nat
    BY <1>2 DEF Lesser
  <2> QED
    BY <2>2, <2>3, <2>4, <2>5
<1> QED
  BY <1>3, <1>4

-----------------------------------------------------------------------------
(* The initial state.                                                      *)

LEMMA InitIInv == Init => IInv
<1> SUFFICES ASSUME Init PROVE IInv
  OBVIOUS
<1> DEFINE n == Lesser(InitialWorkers, MaxWorkers)
<1>1. /\ MaxWorkers \in Nat /\ InitialWorkers \in Nat /\ MaxDeaths \in Nat
      /\ MaxScaled \in Nat /\ MaxFaults \in Nat /\ MaxSpawns \in Nat
      /\ InitialWorkers + MaxScaled + MaxDeaths <= MaxSpawns
  BY SchedulerAssumption, MaxSpawnsAssumption
<1>2. /\ WellFormed(EmptyRegistry) /\ EmptyRegistry.size = 0
      /\ Cardinality(AliveIn(EmptyRegistry)) = 0 /\ DeadIn(EmptyRegistry) = {}
  BY EmptyRegistryFacts, FS_EmptySet
<1>3. reg = SpawnUpTo(EmptyRegistry, InitialWorkers)
  BY DEF Init
<1>4. 0 + InitialWorkers <= MaxSpawns /\ 0 <= MaxWorkers /\ 0 + InitialWorkers = InitialWorkers
  BY <1>1
<1>5. WellFormed(reg) /\ Dead = {} /\ AliveCount = n
  BY <1>1, <1>2, <1>3, <1>4, SpawnUpToFacts DEF Dead, Alive, AliveCount
<1>6. n \in Nat /\ n <= MaxWorkers /\ n <= InitialWorkers
  BY <1>1 DEF Lesser
<1>7. Cardinality(Dead) = 0 /\ Cardinality({}) = 0
  BY <1>5, FS_EmptySet
<1>8. reg.size = n
  BY <1>5, <1>6, <1>7, RegistryCounts DEF Dead, Alive, AliveCount
<1> HIDE DEF n
<1>9. JobTypeOK
  <2>1. EmptyQueue \in Queue
    BY DEF EmptyQueue, Queue, NoWorker
  <2>2. MaxJobs \in Nat
    BY MaxJobsAssumption
  <2> QED
    BY <1>1, <2>1, <2>2 DEF Init, JobTypeOK
<1>10. PoolTypeOK
  BY <1>1, <1>5, <1>7 DEF Init, PoolTypeOK
<1>11. PoolBounded
  BY <1>1, <1>5, <1>6, <1>7, <1>8 DEF Init, PoolBounded
<1>12. DeficitCovered
  BY <1>1, <1>5 DEF n, DeficitCovered, Lesser
<1>13. NoJobLost /\ InflightHasRun /\ LateRunsFinished
  BY DEF Init, EmptyQueue, NoJobLost, InflightHasRun, LateRunsFinished
<1> QED
  BY <1>9, <1>10, <1>11, <1>12, <1>13 DEF IInv, TypeOK

-----------------------------------------------------------------------------
(* The job part of the type invariant.                                     *)

LEMMA DispatchJobType ==
    ASSUME JobTypeOK, NEW w \in WorkerIds, Dispatch(w) PROVE JobTypeOK'
<1> DEFINE j == Head(queue.pending)
           r == [job |-> j, try |-> tries[j] + 1, worker |-> w, pc |-> "assigned"]
<1>1. j \in Jobs /\ queue' \in Queue
  BY DequeueFacts DEF JobTypeOK, Dispatch
<1>2. r \in Run
  BY <1>1 DEF JobTypeOK, Run, RunPc
<1>3. runs' = runs \cup {r} /\ tries' = [tries EXCEPT ![j] = @ + 1]
  BY DEF Dispatch
<1>4. tries' \in [Jobs -> Nat]
  BY <1>1, <1>3 DEF JobTypeOK
<1> HIDE DEF j, r
<1> QED
  BY <1>1, <1>2, <1>3, <1>4 DEF JobTypeOK, Dispatch, None

LEMMA MoveRunType ==
    ASSUME runs \subseteq Run, NEW r \in runs, NEW pc \in RunPc, MoveRun(r, pc)
    PROVE  runs' \subseteq Run
<1>1. [r EXCEPT !.pc = pc] \in Run
  BY DEF Run
<1> QED
  BY <1>1 DEF MoveRun

LEMMA ReclaimJobType ==
    ASSUME JobTypeOK, NEW w, Reclaim(w) PROVE queue' \in Queue
<1>1. OwnedBy(queue, w) \subseteq Jobs
  BY DEF OwnedBy, JobTypeOK, Queue
<1> QED
  BY <1>1, OrderingsType, RequeueFacts DEF Reclaim, JobTypeOK

LEMMA JobTypeStep == JobTypeOK /\ [Next]_vars => JobTypeOK'
<1> SUFFICES ASSUME JobTypeOK, [Next]_vars PROVE JobTypeOK'
  OBVIOUS
<1> USE DEF dispatchVars, poolVars
<1>1. CASE EnqueueJob
  <2>1. submitted + 1 \in Jobs /\ submitted + 1 \in 0..MaxJobs
    BY <1>1, MaxJobsAssumption DEF JobTypeOK, EnqueueJob, Jobs
  <2> QED
    BY <1>1, <2>1, EnqueueFacts DEF JobTypeOK, EnqueueJob
<1>2. CASE SelectAndDispatch
  BY <1>2, DispatchJobType DEF SelectAndDispatch
<1>3. CASE SelectAndBlock
  BY <1>3 DEF JobTypeOK, SelectAndBlock
<1>4. CASE WakeAndDispatch
  BY <1>4, DispatchJobType DEF WakeAndDispatch, JobTypeOK
<1>5. CASE CreateRun
  <2>1. \A r \in Run : [r EXCEPT !.pc = IF @ = "assigned" THEN "scanning" ELSE @] \in Run
    BY DEF Run, RunPc
  <2>2. runs' \subseteq Run
    BY <1>5, <2>1 DEF JobTypeOK, CreateRun
  <2> QED
    BY <1>5, <2>2 DEF JobTypeOK, CreateRun
<1>6. ASSUME NEW r \in runs, RunComplete(r) PROVE JobTypeOK'
  <2>1. r.job \in Jobs
    BY DEF JobTypeOK, Run
  <2>2. runs' \subseteq Run
    BY <1>6, MoveRunType DEF JobTypeOK, RunComplete, RunPc
  <2> QED
    BY <1>6, <2>1, <2>2, CompleteFacts DEF JobTypeOK, RunComplete
<1>7. ASSUME NEW r \in runs, RunReported(r) PROVE JobTypeOK'
  BY <1>7 DEF JobTypeOK, RunReported
<1>8. ASSUME NEW r \in runs, RunRaises(r) PROVE JobTypeOK'
  <2>1. runs' \subseteq Run
    BY <1>8, MoveRunType DEF JobTypeOK, RunRaises, RunPc
  <2>2. faults' \in 0..MaxFaults
    BY <1>8, SchedulerAssumption DEF JobTypeOK, RunRaises
  <2> QED
    BY <1>8, <2>1, <2>2 DEF JobTypeOK, RunRaises
<1>9. ASSUME NEW r \in runs, RunRequeue(r) PROVE JobTypeOK'
  <2>1. <<r.job>> \in Seq(Jobs)
    BY ElementsType DEF JobTypeOK, Run
  <2> QED
    BY <1>9, <2>1, RequeueFacts DEF JobTypeOK, RunRequeue
<1>10. ASSUME NEW w \in WorkerIds, FinishKill(w) PROVE JobTypeOK'
  BY <1>10, ReclaimJobType DEF JobTypeOK, FinishKill
<1>11. CASE MonitorResume
  BY <1>11, ReclaimJobType DEF JobTypeOK, MonitorResume
<1>12. ASSUME NEW w \in WorkerIds,
              Kill(w) \/ DuplicateKill(w) \/ GoLate(w) \/ Heartbeat(w)
       PROVE  JobTypeOK'
  BY <1>12 DEF JobTypeOK, Kill, DuplicateKill, GoLate, Heartbeat
<1>13. ASSUME NEW n \in 1..MaxWorkers, Scale(n) PROVE JobTypeOK'
  BY <1>13 DEF JobTypeOK, Scale
<1>14. CASE MonitorPass
  BY <1>14 DEF JobTypeOK, MonitorPass
<1>15. CASE UNCHANGED vars
  BY <1>15 DEF JobTypeOK, vars
<1> QED
  BY <1>1, <1>2, <1>3, <1>4, <1>5, <1>6, <1>7, <1>8, <1>9, <1>10, <1>11, <1>12,
     <1>13, <1>14, <1>15 DEF Next, RunStep

-----------------------------------------------------------------------------
(* The pool: its type, its bound and the replacement of every death.       *)

PoolInv == PoolTypeOK /\ PoolBounded /\ DeficitCovered

\* The sets of the pool are finite; the constants are numbers.
LEMMA PoolNumbers ==
    ASSUME PoolTypeOK
    PROVE  /\ IsFiniteSet(Alive) /\ IsFiniteSet(late) /\ IsFiniteSet(suspects)
           /\ AliveCount \in Nat /\ Cardinality(Dead) \in Nat
           /\ Cardinality(suspects) \in Nat /\ scaled \in Nat
           /\ reg.size = AliveCount + Cardinality(Dead)
           /\ Alive \cap Dead = {}
           /\ MaxWorkers \in Nat /\ InitialWorkers \in Nat /\ MaxDeaths \in Nat
           /\ MaxScaled \in Nat /\ MaxSpawns \in Nat
           /\ InitialWorkers + MaxScaled + MaxDeaths <= MaxSpawns
           /\ Lesser(InitialWorkers, MaxWorkers) \in Nat
           /\ Lesser(InitialWorkers, MaxWorkers) <= InitialWorkers
           /\ Lesser(InitialWorkers, MaxWorkers) <= MaxWorkers
<1>1. /\ IsFiniteSet(Alive) /\ AliveCount \in Nat /\ Cardinality(Dead) \in Nat
      /\ Alive \cap Dead = {} /\ AliveCount + Cardinality(Dead) = reg.size
  BY RegistryCounts DEF PoolTypeOK, Alive, Dead, AliveCount
<1>2. IsFiniteSet(late)
  BY <1>1, FS_Subset DEF PoolTypeOK
<1>3. IsFiniteSet(suspects)
  BY <1>2, FS_Subset DEF PoolTypeOK
<1>4. Cardinality(suspects) \in Nat
  BY <1>3, FS_CardinalityType
<1>5. /\ MaxWorkers \in Nat /\ InitialWorkers \in Nat /\ MaxDeaths \in Nat
      /\ MaxScaled \in Nat /\ MaxSpawns \in Nat
      /\ InitialWorkers + MaxScaled + MaxDeaths <= MaxSpawns
  BY SchedulerAssumption, MaxSpawnsAssumption
<1>6. /\ Lesser(InitialWorkers, MaxWorkers) \in Nat
      /\ Lesser(InitialWorkers, MaxWorkers) <= InitialWorkers
      /\ Lesser(InitialWorkers, MaxWorkers) <= MaxWorkers
  BY <1>5 DEF Lesser
<1>7. scaled \in Nat
  BY <1>5 DEF PoolTypeOK
<1> QED
  BY <1>1, <1>2, <1>3, <1>4, <1>5, <1>6, <1>7

\* Steps that change no status, and at most drop suspects.
LEMMA PoolFrame ==
    ASSUME PoolInv, WellFormed(reg'), AliveIn(reg') = AliveIn(reg),
           DeadIn(reg') = DeadIn(reg), reg'.size = reg.size,
           UNCHANGED <<dying, replaced, monCur, scaled>>,
           late' \subseteq Alive, suspects' \subseteq late', suspects' \subseteq suspects
    PROVE  PoolInv'
<1>1. Alive' = Alive /\ Dead' = Dead /\ AliveCount' = AliveCount
  BY DEF Alive, Dead, AliveCount
<1>2. IsFiniteSet(suspects) /\ Cardinality(suspects) \in Nat
      /\ Cardinality(Dead) \in Nat /\ MaxDeaths \in Nat
  BY PoolNumbers DEF PoolInv
<1>3. Cardinality(suspects') <= Cardinality(suspects) /\ IsFiniteSet(suspects')
  BY <1>2, FS_Subset
<1>4. Cardinality(suspects') \in Nat
  BY <1>3, FS_CardinalityType
<1>5. Cardinality(Dead) + Cardinality(suspects') <= MaxDeaths
  BY <1>2, <1>3, <1>4 DEF PoolInv, PoolTypeOK
<1>6. PoolTypeOK'
  BY <1>1, <1>5 DEF PoolInv, PoolTypeOK
<1>7. PoolBounded'
  BY <1>1 DEF PoolInv, PoolBounded
<1>8. DeficitCovered'
  BY <1>1 DEF PoolInv, DeficitCovered, Handled
<1> QED
  BY <1>6, <1>7, <1>8 DEF PoolInv

\* The dispatcher and the job tasks only move the counters of a worker.
LEMMA CounterStep ==
    ASSUME PoolInv, UNCHANGED poolVars, NEW w \in WorkerIds,
           reg' \in {reg, MarkAssigned(reg, w), MarkCompleted(reg, w), MarkFailed(reg, w)}
    PROVE  PoolInv'
<1>1. WellFormed(reg)
  BY DEF PoolInv, PoolTypeOK
<1>2. /\ WellFormed(reg') /\ AliveIn(reg') = AliveIn(reg) /\ DeadIn(reg') = DeadIn(reg)
      /\ reg'.size = reg.size
  <2>1. CASE reg' = reg
    BY <1>1, <2>1
  <2>2. CASE reg' \in {MarkAssigned(reg, w), MarkCompleted(reg, w), MarkFailed(reg, w)}
    BY <1>1, <2>2, CounterFacts
  <2> QED  BY <2>1, <2>2
<1> QED
  BY <1>2, PoolFrame DEF poolVars, PoolInv, PoolTypeOK

\* What a step makes of the pool when workers are only added, up to b alive.
LEMMA GrowStep ==
    ASSUME PoolInv, NEW b \in Nat, WellFormed(reg'), DeadIn(reg') = DeadIn(reg),
           AliveIn(reg) \subseteq AliveIn(reg'), Cardinality(AliveIn(reg')) = b,
           b >= AliveCount, b <= MaxWorkers, b <= InitialWorkers + scaled',
           scaled' \in 0..MaxScaled, scaled' >= scaled,
           dying' \subseteq dying, monCur' \in {monCur, None},
           replaced' \subseteq Dead, UNCHANGED <<suspects, late>>,
           b >= Lesser(InitialWorkers, MaxWorkers) \/ Handled' \ replaced' = Handled \ replaced
    PROVE  PoolInv'
<1>1. Alive \subseteq Alive' /\ Dead' = Dead /\ AliveCount' = b
  BY DEF Alive, Dead, AliveCount
<1>2. PoolTypeOK'
  BY <1>1 DEF PoolInv, PoolTypeOK
<1>3. reg'.size = b + Cardinality(Dead) /\ Cardinality(Dead) \in Nat /\ scaled' \in Nat
      /\ InitialWorkers \in Nat
  BY <1>1, <1>2, PoolNumbers, RegistryCounts DEF PoolInv, Dead
<1>4. PoolBounded'
  <2>1. AliveCount' <= MaxWorkers
    BY <1>1
  <2>2. reg'.size <= InitialWorkers + scaled' + Cardinality(Dead')
    <3>1. Cardinality(Dead') = Cardinality(Dead)
      BY <1>1
    <3>2. b + Cardinality(Dead) <= InitialWorkers + scaled' + Cardinality(Dead)
      BY <1>3, AddBothSides
    <3> QED  BY <1>3, <3>1, <3>2
  <2> QED  BY <2>1, <2>2 DEF PoolBounded
<1>5. AliveCount < Lesser(InitialWorkers, MaxWorkers) => Handled \ replaced # {}
  BY DEF PoolInv, DeficitCovered
<1>6. AliveCount \in Nat /\ Lesser(InitialWorkers, MaxWorkers) \in Nat
  BY PoolNumbers DEF PoolInv
<1>7. DeficitCovered'
  <2> SUFFICES ASSUME b < Lesser(InitialWorkers, MaxWorkers)
               PROVE  (Handled \ replaced)' # {}
    BY <1>1 DEF DeficitCovered
  <2> QED  BY <1>5, <1>6
<1> QED
  BY <1>2, <1>4, <1>7 DEF PoolInv

LEMMA ScaleStep ==
    ASSUME PoolInv, NEW n \in 1..MaxWorkers, Scale(n) PROVE PoolInv'
<1> DEFINE k == Lesser(n, MaxWorkers - AliveCount)
           b == Cardinality(AliveIn(reg'))
<1>1. /\ AliveCount \in Nat /\ Cardinality(Dead) \in Nat /\ scaled \in Nat
      /\ reg.size = AliveCount + Cardinality(Dead)
      /\ MaxWorkers \in Nat /\ InitialWorkers \in Nat /\ MaxDeaths \in Nat
      /\ MaxScaled \in Nat /\ MaxSpawns \in Nat
      /\ InitialWorkers + MaxScaled + MaxDeaths <= MaxSpawns
      /\ Cardinality(suspects) \in Nat
  BY PoolNumbers DEF PoolInv
<1>2. /\ MaxWorkers - AliveCount > 0 /\ scaled + k <= MaxScaled /\ scaled' = scaled + k
      /\ reg' = SpawnUpTo(reg, k) /\ UNCHANGED <<dying, replaced, monCur, suspects, late>>
  BY DEF Scale
<1>3. k \in Nat /\ AliveCount + k <= MaxWorkers
  BY <1>1, <1>2 DEF Lesser
<1>4. AliveCount <= InitialWorkers + scaled /\ Cardinality(Dead) <= MaxDeaths
  BY <1>1 DEF PoolInv, PoolBounded, PoolTypeOK
<1> HIDE DEF k
<1>5. reg.size + k <= MaxSpawns
  BY <1>1, <1>2, <1>3, <1>4
<1>6. /\ WellFormed(reg') /\ DeadIn(reg') = DeadIn(reg) /\ AliveIn(reg) \subseteq AliveIn(reg')
      /\ b >= AliveCount /\ b <= AliveCount + k
  BY <1>2, <1>3, <1>5, SpawnUpToFacts DEF PoolInv, PoolTypeOK, AliveCount, Alive
<1>7. b \in Nat
  BY <1>6, RegistryCounts
<1> HIDE DEF b
<1>8. scaled' \in 0..MaxScaled /\ scaled' >= scaled /\ b <= MaxWorkers
      /\ b <= InitialWorkers + scaled'
  BY <1>1, <1>2, <1>3, <1>4, <1>6, <1>7
<1>9. Handled' \ replaced' = Handled \ replaced
  BY <1>2 DEF Handled
<1>10. dying' \subseteq dying /\ monCur' \in {monCur, None} /\ replaced' \subseteq Dead
  BY <1>2 DEF PoolInv, PoolTypeOK
<1> QED
  BY <1>2, <1>6, <1>7, <1>8, <1>9, <1>10, GrowStep DEF b

\* A failure handler that ends: FinishKill, DuplicateKill, MonitorResume.
LEMMA ReplaceStep ==
    ASSUME PoolInv, NEW w \in Dead, reg' = ReplacedReg(reg, w), Replace(w),
           \/ dying' = dying \ {w} /\ monCur' = monCur
           \/ dying' = dying /\ monCur' = monCur
           \/ dying' = dying /\ monCur = w /\ monCur' = None,
           UNCHANGED <<suspects, late, scaled>>
    PROVE  PoolInv'
<1> DEFINE b == Cardinality(AliveIn(reg'))
<1>1. /\ AliveCount \in Nat /\ Cardinality(Dead) \in Nat /\ scaled \in Nat
      /\ InitialWorkers \in Nat /\ MaxDeaths \in Nat /\ Cardinality(suspects) \in Nat
      /\ reg.size = AliveCount + Cardinality(Dead)
  BY PoolNumbers DEF PoolInv
<1>2. Cardinality(Dead) <= MaxDeaths /\ AliveCount <= MaxWorkers
      /\ AliveCount <= InitialWorkers + scaled
  BY <1>1 DEF PoolInv, PoolTypeOK, PoolBounded
<1>3. /\ WellFormed(reg') /\ DeadIn(reg') = DeadIn(reg) /\ AliveIn(reg) \subseteq AliveIn(reg')
      /\ b >= AliveCount /\ b <= MaxWorkers
      /\ b = AliveCount \/ b <= InitialWorkers
      /\ w \notin replaced => b >= Lesser(InitialWorkers, MaxWorkers)
  BY <1>2, ReplaceFacts DEF PoolInv, PoolTypeOK, AliveCount, Alive, Dead
<1>4. b \in Nat
  BY <1>3, RegistryCounts
<1>5. replaced' = replaced \cup {w}
  BY DEF Replace
<1>6. replaced' \subseteq Dead
  BY <1>5 DEF PoolInv, PoolTypeOK
<1>7. w \in replaced => Handled' \ replaced' = Handled \ replaced
  BY <1>5 DEF Handled
<1> HIDE DEF b
<1>8. b <= InitialWorkers + scaled' /\ scaled' \in 0..MaxScaled /\ scaled' >= scaled
  BY <1>1, <1>2, <1>3, <1>4 DEF PoolInv, PoolTypeOK
<1>9. b >= Lesser(InitialWorkers, MaxWorkers) \/ Handled' \ replaced' = Handled \ replaced
  BY <1>3, <1>7
<1>10. dying' \subseteq dying /\ monCur' \in {monCur, None}
  OBVIOUS
<1>11. UNCHANGED <<suspects, late>>
  OBVIOUS
<1> QED
  BY <1>3, <1>4, <1>6, <1>8, <1>9, <1>10, <1>11, GrowStep DEF b

\* A worker dies: killed by hand, or found silent by the monitor, which may
\* just have replaced its previous victim (R is the registry it has reached).
LEMMA DeathStep ==
    ASSUME PoolInv, NEW R, WellFormed(R), DeadIn(R) = Dead, Alive \subseteq AliveIn(R),
           Cardinality(AliveIn(R)) <= MaxWorkers,
           Cardinality(AliveIn(R)) <= InitialWorkers + scaled,
           NEW w \in Alive, reg' = MarkDead(R, w), late' = late \ {w},
           suspects' \subseteq late', Cardinality(Dead) + Cardinality(suspects') < MaxDeaths,
           dying' \subseteq Dead \cup {w}, monCur' \in Dead \cup {None, w}, w \in Handled',
           replaced' \subseteq Dead, scaled' = scaled
    PROVE  PoolInv'
<1> DEFINE a == Cardinality(AliveIn(R))
           d == Cardinality(Dead)
<1>1. /\ d \in Nat /\ scaled \in Nat /\ InitialWorkers \in Nat /\ MaxDeaths \in Nat
      /\ MaxWorkers \in Nat /\ IsFiniteSet(late) /\ Alive \cap Dead = {}
  BY PoolNumbers DEF PoolInv
<1>2. /\ WellFormed(reg') /\ Alive' = AliveIn(R) \ {w} /\ Dead' = Dead \cup {w}
      /\ reg'.size = R.size /\ AliveCount' = a - 1 /\ Cardinality(Dead') = d + 1
  BY MarkDeadFacts DEF Alive, Dead, AliveCount
<1>3. a \in Nat /\ R.size = a + d
  BY RegistryCounts DEF Dead
<1>4. Cardinality(suspects') \in Nat
  <2>1. suspects' \subseteq late
    OBVIOUS
  <2> QED  BY <1>1, <2>1, FS_Subset, FS_CardinalityType
<1>5. PoolTypeOK'
  <2>1. late' \subseteq Alive'
    BY <1>2 DEF PoolInv, PoolTypeOK
  <2>2. Cardinality(Dead') + Cardinality(suspects') <= MaxDeaths
    BY <1>1, <1>2, <1>4
  <2>3. scaled' \in 0..MaxScaled
    BY DEF PoolInv, PoolTypeOK
  <2> QED
    BY <1>2, <2>1, <2>2, <2>3 DEF PoolTypeOK
<1>6. PoolBounded'
  <2>1. AliveCount' <= MaxWorkers
    BY <1>1, <1>2, <1>3
  <2>2. a + d <= InitialWorkers + scaled + d
    BY <1>1, <1>3, AddBothSides
  <2>3. reg'.size <= InitialWorkers + scaled' + Cardinality(Dead')
    <3>1. \A x, y, z \in Nat : x <= y + z => x <= y + (z + 1)
      OBVIOUS
    <3>2. InitialWorkers + scaled \in Nat
      BY <1>1
    <3> HIDE DEF d, a
    <3> QED  BY <1>1, <1>2, <1>3, <2>2, <3>1, <3>2
  <2> QED  BY <2>1, <2>3 DEF PoolBounded
<1>7. DeficitCovered'
  <2>1. w \in (Handled \ replaced)'
    BY <1>1
  <2> QED  BY <2>1 DEF DeficitCovered
<1> QED
  BY <1>5, <1>6, <1>7 DEF PoolInv

LEMMA MonitorPassStep ==
    ASSUME PoolInv, MonitorPass PROVE PoolInv'
<1>1. PICK w \in late : /\ reg' = MarkDead(reg, w) /\ monCur' = w
                        /\ suspects' = late \ {w} /\ late' = late \ {w}
  BY DEF MonitorPass, MonitorVisit
<1>2. /\ Cardinality(Dead) \in Nat /\ MaxDeaths \in Nat /\ IsFiniteSet(late)
  BY PoolNumbers DEF PoolInv
<1>3. Cardinality(late) \in Nat /\ Cardinality(late \ {w}) = Cardinality(late) - 1
  BY <1>2, FS_RemoveElement, FS_CardinalityType
<1>4. Cardinality(Dead) + Cardinality(late) <= MaxDeaths
  BY DEF MonitorPass
<1>5. Cardinality(Dead) + Cardinality(suspects') < MaxDeaths
  BY <1>1, <1>2, <1>3, <1>4
<1>6. w \in Alive /\ w \in WorkerIds
  BY DEF PoolInv, PoolTypeOK, Alive, AliveIn
<1>7. w \in Handled'
  BY <1>1, <1>6 DEF Handled, None, WorkerIds
<1>8. UNCHANGED <<dying, replaced, scaled>>
  BY DEF MonitorPass
<1>9. /\ WellFormed(reg) /\ dying \subseteq Dead /\ replaced \subseteq Dead
      /\ Cardinality(AliveIn(reg)) <= MaxWorkers
  BY DEF PoolInv, PoolTypeOK, PoolBounded, AliveCount, Alive
<1>10. Cardinality(AliveIn(reg)) <= InitialWorkers + scaled
  BY PoolNumbers DEF PoolInv, PoolBounded, AliveCount, Alive
<1>11. DeadIn(reg) = Dead /\ Alive = AliveIn(reg)
  BY DEF Dead, Alive
<1>12. dying' \subseteq Dead \cup {w} /\ monCur' \in Dead \cup {None, w}
       /\ suspects' \subseteq late' /\ replaced' \subseteq Dead /\ scaled' = scaled
  BY <1>1, <1>8, <1>9
<1> QED
  BY <1>1, <1>5, <1>6, <1>7, <1>9, <1>10, <1>11, <1>12, DeathStep

LEMMA MonitorResumeStep ==
    ASSUME PoolInv, MonitorResume PROVE PoolInv'
<1> DEFINE R == ReplacedReg(reg, monCur)
<1>1. monCur \in Dead /\ Replace(monCur) /\ UNCHANGED <<dying, scaled>>
      /\ MonitorVisit(R, suspects)
  BY DEF PoolInv, PoolTypeOK, MonitorResume
<1>2. CASE suspects = {}
  <2>1. reg' = R /\ monCur' = None /\ UNCHANGED <<suspects, late>>
    BY <1>1, <1>2 DEF MonitorVisit
  <2>2. UNCHANGED <<suspects, late, scaled>> /\ dying' = dying
    BY <1>1, <2>1
  <2> QED
    BY <1>1, <2>1, <2>2, ReplaceStep
<1>3. CASE suspects # {}
  <2>1. PICK w \in suspects : /\ reg' = MarkDead(R, w) /\ monCur' = w
                              /\ suspects' = suspects \ {w} /\ late' = late \ {w}
    BY <1>1, <1>3 DEF MonitorVisit
  <2>2. /\ Cardinality(Dead) \in Nat /\ MaxDeaths \in Nat /\ IsFiniteSet(suspects)
        /\ Cardinality(suspects) \in Nat /\ AliveCount \in Nat /\ scaled \in Nat
        /\ InitialWorkers \in Nat /\ reg.size = AliveCount + Cardinality(Dead)
    BY PoolNumbers DEF PoolInv
  <2>3. Cardinality(suspects \ {w}) = Cardinality(suspects) - 1
    BY <2>2, FS_RemoveElement
  <2>4. /\ Cardinality(Dead) + Cardinality(suspects) <= MaxDeaths /\ WellFormed(reg)
        /\ w \in late /\ w \in Alive /\ dying \subseteq Dead /\ replaced \subseteq Dead
        /\ suspects \subseteq late /\ AliveCount <= MaxWorkers
        /\ reg.size <= InitialWorkers + scaled + Cardinality(Dead)
    BY DEF PoolInv, PoolTypeOK, PoolBounded
  <2>5. Cardinality(Dead) + Cardinality(suspects') < MaxDeaths /\ Cardinality(Dead) <= MaxDeaths
        /\ AliveCount <= InitialWorkers + scaled
    BY <2>1, <2>2, <2>3, <2>4
  <2>6. /\ WellFormed(R) /\ DeadIn(R) = DeadIn(reg) /\ AliveIn(reg) \subseteq AliveIn(R)
        /\ Cardinality(AliveIn(R)) <= MaxWorkers
        /\ \/ Cardinality(AliveIn(R)) = Cardinality(AliveIn(reg))
           \/ Cardinality(AliveIn(R)) <= InitialWorkers
    BY <2>4, <2>5, ReplaceFacts DEF Dead, Alive, AliveCount
  <2>7. Cardinality(AliveIn(R)) \in Nat
    BY <2>6, RegistryCounts
  <2> HIDE DEF R
  <2>8. Cardinality(AliveIn(R)) <= InitialWorkers + scaled
    BY <2>2, <2>5, <2>6, <2>7 DEF AliveCount, Alive
  <2>9. w \in Handled'
    BY <2>1, <2>4 DEF Handled, None, WorkerIds, Alive, AliveIn
  <2>10. replaced' \subseteq Dead
    BY <1>1, <2>4 DEF Replace
  <2>11. dying' \subseteq Dead \cup {w} /\ monCur' \in Dead \cup {None, w}
         /\ suspects' \subseteq late' /\ scaled' = scaled
    BY <1>1, <2>1, <2>4
  <2>12. DeadIn(R) = Dead /\ Alive \subseteq AliveIn(R)
    BY <2>6 DEF Dead, Alive
  <2> QED
    BY <2>1, <2>4, <2>5, <2>6, <2>8, <2>9, <2>10, <2>11, <2>12, DeathStep
<1> QED
  BY <1>2, <1>3

LEMMA KillStep ==
    ASSUME PoolInv, NEW w \in WorkerIds, Kill(w) PROVE PoolInv'
<1>1. /\ w \in Alive /\ reg' = MarkDead(reg, w) /\ dying' = dying \cup {w}
      /\ late' = late \ {w} /\ suspects' = suspects \ {w}
      /\ Cardinality(Dead) + Cardinality(suspects \ {w}) < MaxDeaths
      /\ UNCHANGED <<replaced, monCur, scaled>>
  BY DEF Kill
<1>2. /\ WellFormed(reg) /\ dying \subseteq Dead /\ replaced \subseteq Dead
      /\ Cardinality(AliveIn(reg)) <= MaxWorkers /\ monCur \in Dead \cup {None}
      /\ suspects \subseteq late
  BY DEF PoolInv, PoolTypeOK, PoolBounded, AliveCount, Alive
<1>3. Cardinality(AliveIn(reg)) <= InitialWorkers + scaled
  BY PoolNumbers DEF PoolInv, PoolBounded, AliveCount, Alive
<1>4. DeadIn(reg) = Dead /\ Alive = AliveIn(reg)
  BY DEF Dead, Alive
<1>5. dying' \subseteq Dead \cup {w} /\ monCur' \in Dead \cup {None, w}
      /\ suspects' \subseteq late' /\ replaced' \subseteq Dead /\ scaled' = scaled
      /\ Cardinality(Dead) + Cardinality(suspects') < MaxDeaths
  BY <1>1, <1>2
<1>6. w \in Handled'
  BY <1>1 DEF Handled
<1> QED
  BY <1>1, <1>2, <1>3, <1>4, <1>5, <1>6, DeathStep

LEMMA PoolStep == JobTypeOK /\ PoolInv /\ [Next]_vars => PoolInv'
<1> SUFFICES ASSUME JobTypeOK, PoolInv, [Next]_vars PROVE PoolInv'
  OBVIOUS
<1>1. CASE EnqueueJob \/ SelectAndBlock \/ CreateRun \/ UNCHANGED vars
  <2>1. reg' = reg /\ UNCHANGED poolVars
    BY <1>1 DEF EnqueueJob, SelectAndBlock, CreateRun, vars, poolVars
  <2>2. 1 \in WorkerIds
    BY MaxSpawnsAssumption DEF WorkerIds
  <2> QED
    BY <2>1, <2>2, CounterStep
<1>2. CASE SelectAndDispatch
  <2>1. PICK w \in WorkerIds : Dispatch(w)
    BY <1>2 DEF SelectAndDispatch
  <2> QED
    BY <2>1, CounterStep DEF Dispatch
<1>3. CASE WakeAndDispatch
  <2>1. candidate \in WorkerIds /\ Dispatch(candidate)
    BY <1>3 DEF WakeAndDispatch, JobTypeOK
  <2> QED
    BY <2>1, CounterStep DEF Dispatch
<1>4. ASSUME NEW r \in runs, RunStep(r) PROVE PoolInv'
  <2>1. r.worker \in WorkerIds
    BY DEF JobTypeOK, Run
  <2>2. UNCHANGED poolVars
    BY <1>4 DEF RunStep, RunComplete, RunReported, RunRaises, RunRequeue
  <2>3. reg' \in {reg, MarkAssigned(reg, r.worker), MarkCompleted(reg, r.worker),
                  MarkFailed(reg, r.worker)}
    BY <1>4 DEF RunStep, RunComplete, RunReported, RunRaises, RunRequeue
  <2> QED
    BY <2>1, <2>2, <2>3, CounterStep
<1>5. ASSUME NEW w \in WorkerIds, GoLate(w) \/ Heartbeat(w) PROVE PoolInv'
  <2>1. /\ reg' = reg /\ UNCHANGED <<dying, replaced, monCur, scaled>>
        /\ late' \subseteq Alive /\ suspects' \subseteq late' /\ suspects' \subseteq suspects
    BY <1>5 DEF GoLate, Heartbeat, PoolInv, PoolTypeOK
  <2>2. WellFormed(reg)
    BY DEF PoolInv, PoolTypeOK
  <2> QED
    BY <2>1, <2>2, PoolFrame
<1>6. ASSUME NEW w \in WorkerIds, Kill(w) PROVE PoolInv'
  BY <1>6, KillStep
<1>7. ASSUME NEW w \in WorkerIds, FinishKill(w) PROVE PoolInv'
  <2>1. w \in Dead /\ UNCHANGED <<suspects, late, scaled>>
    BY <1>7 DEF FinishKill, PoolInv, PoolTypeOK
  <2> QED
    BY <1>7, <2>1, ReplaceStep DEF FinishKill
<1>8. ASSUME NEW w \in WorkerIds, DuplicateKill(w) PROVE PoolInv'
  <2>1. UNCHANGED <<suspects, late, scaled>>
    BY <1>8 DEF DuplicateKill
  <2> QED
    BY <1>8, <2>1, ReplaceStep DEF DuplicateKill
<1>9. ASSUME NEW n \in 1..MaxWorkers, Scale(n) PROVE PoolInv'
  BY <1>9, ScaleStep
<1>10. CASE MonitorPass
  BY <1>10, MonitorPassStep
<1>11. CASE MonitorResume
  BY <1>11, MonitorResumeStep
<1> QED
  BY <1>1, <1>2, <1>3, <1>4, <1>5, <1>6, <1>7, <1>8, <1>9, <1>10, <1>11 DEF Next

-----------------------------------------------------------------------------
(* The jobs: none is lost, and reclaiming finds only jobs under way.       *)

JobInv == NoJobLost /\ InflightHasRun /\ LateRunsFinished

\* A dispatch moves the head of the queue to a new task.
LEMMA DispatchJobs ==
    ASSUME JobTypeOK, JobInv, NEW w \in WorkerIds, Dispatch(w)
    PROVE  /\ JobInv'
           /\ \E j \in Jobs : /\ j \in Elements(queue.pending)
                             /\ Elements(queue.pending) = Elements(queue'.pending) \cup {j}
                             /\ RunningJobs' = RunningJobs \cup {j}
<1> DEFINE j == Head(queue.pending)
           new == [job |-> j, try |-> tries[j] + 1, worker |-> w, pc |-> "assigned"]
<1>1. /\ j \in Jobs /\ j \in Elements(queue.pending)
      /\ Elements(queue.pending) = Elements(queue'.pending) \cup {j}
      /\ queue'.inflight = queue.inflight \cup {j}
      /\ queue'.owner = [queue.owner EXCEPT ![j] = w]
  BY DequeueFacts DEF JobTypeOK, Dispatch
<1>2. runs' = runs \cup {new} /\ submitted' = submitted /\ finished' = finished
  BY DEF Dispatch
<1>3. new.job = j /\ new.worker = w /\ new.pc = "assigned"
  OBVIOUS
<1>4. queue.owner \in [Jobs -> Nat] /\ queue.inflight \subseteq Jobs
  BY DEF JobTypeOK, Queue
<1> HIDE DEF j, new
<1>5. RunningJobs' = RunningJobs \cup {j}
  BY <1>2, <1>3 DEF RunningJobs, ActiveRun
<1>6. NoJobLost'
  BY <1>1, <1>2, <1>5 DEF JobInv, NoJobLost
<1>7. InflightHasRun'
  <2> SUFFICES ASSUME NEW k \in queue'.inflight
               PROVE  \E r \in runs' : r.job = k /\ r.worker = queue'.owner[k] /\ ActiveRun(r)
    BY DEF InflightHasRun, ActiveRun
  <2>1. CASE k = j
    BY <1>1, <1>2, <1>3, <1>4, <2>1 DEF ActiveRun
  <2>2. CASE k # j
    <3>1. k \in queue.inflight /\ queue'.owner[k] = queue.owner[k]
      BY <1>1, <1>4, <2>2
    <3> QED  BY <1>2, <3>1 DEF JobInv, InflightHasRun
  <2> QED  BY <2>1, <2>2
<1>8. LateRunsFinished'
  BY <1>2, <1>3 DEF JobInv, LateRunsFinished
<1> QED
  BY <1>1, <1>5, <1>6, <1>7, <1>8 DEF JobInv

\* Creating the task changes no job.
LEMMA CreateRunJobs ==
    ASSUME JobTypeOK, JobInv, CreateRun
    PROVE  JobInv' /\ RunningJobs' = RunningJobs
<1> DEFINE next(r) == [r EXCEPT !.pc = IF @ = "assigned" THEN "scanning" ELSE @]
<1>1. \A r \in runs : /\ next(r).job = r.job /\ next(r).worker = r.worker
                      /\ ActiveRun(next(r)) <=> ActiveRun(r)
                      /\ next(r).pc \in {"reporting", "failing"} => r.pc = next(r).pc
  BY DEF JobTypeOK, Run, ActiveRun
<1>2. runs' = {next(r) : r \in runs}
      /\ UNCHANGED <<queue, submitted, finished>>
  BY DEF CreateRun
<1> HIDE DEF next
<1>3. RunningJobs' = RunningJobs
  <2>1. RunningJobs' = {r.job : r \in {q \in runs' : ActiveRun(q)}}
    BY DEF RunningJobs, ActiveRun
  <2> QED  BY <1>1, <1>2, <2>1 DEF RunningJobs
<1>4. NoJobLost'
  BY <1>2, <1>3 DEF JobInv, NoJobLost
<1>5. InflightHasRun'
  <2> SUFFICES ASSUME NEW k \in queue.inflight
               PROVE  \E r \in runs' : r.job = k /\ r.worker = queue.owner[k] /\ ActiveRun(r)
    BY <1>2 DEF InflightHasRun, ActiveRun
  <2>1. PICK r \in runs : r.job = k /\ r.worker = queue.owner[k] /\ ActiveRun(r)
    BY DEF JobInv, InflightHasRun
  <2> QED  BY <1>1, <1>2, <2>1
<1>6. LateRunsFinished'
  BY <1>1, <1>2 DEF JobInv, LateRunsFinished
<1> QED
  BY <1>3, <1>4, <1>5, <1>6 DEF JobInv

\* The end of a scan leaves a result, and takes one task of that job away.
LEMMA RunCompleteJobs ==
    ASSUME JobTypeOK, JobInv, NEW r \in runs, RunComplete(r)
    PROVE  /\ JobInv' /\ r.job \in RunningJobs
           /\ RunningJobs' \in {RunningJobs, RunningJobs \ {r.job}}
<1> DEFINE moved == [r EXCEPT !.pc = "reporting"]
<1>1. /\ r.job \in Jobs /\ moved.job = r.job /\ moved.pc = "reporting"
  BY DEF JobTypeOK, Run
<1>2. /\ runs' = (runs \ {r}) \cup {moved} /\ finished' = finished \cup {r.job}
      /\ r.pc = "scanning" /\ submitted' = submitted /\ queue' = Complete(queue, r.job)
  BY DEF RunComplete, MoveRun
<1>3. /\ queue'.pending = queue.pending /\ queue'.inflight = queue.inflight \ {r.job}
      /\ queue'.owner = queue.owner
  BY <1>1, <1>2, CompleteFacts DEF JobTypeOK
<1> HIDE DEF moved
<1>4. RunningJobs' = {q.job : q \in {p \in runs \ {r} : ActiveRun(p)}}
  BY <1>1, <1>2 DEF RunningJobs, ActiveRun
<1>5. RunningJobs \ {r.job} \subseteq RunningJobs' /\ RunningJobs' \subseteq RunningJobs
  BY <1>4 DEF RunningJobs
<1>6. r.job \in RunningJobs
  BY <1>2 DEF RunningJobs, ActiveRun
<1>7. NoJobLost'
  BY <1>2, <1>3, <1>5 DEF JobInv, NoJobLost
<1>8. InflightHasRun'
  <2> SUFFICES ASSUME NEW k \in queue'.inflight
               PROVE  \E q \in runs' : q.job = k /\ q.worker = queue'.owner[k] /\ ActiveRun(q)
    BY DEF InflightHasRun, ActiveRun
  <2>1. k \in queue.inflight /\ k # r.job
    BY <1>3
  <2>2. PICK q \in runs : q.job = k /\ q.worker = queue.owner[k] /\ ActiveRun(q)
    BY <2>1 DEF JobInv, InflightHasRun
  <2> QED  BY <1>2, <1>3, <2>1, <2>2
<1>9. LateRunsFinished'
  BY <1>1, <1>2 DEF JobInv, LateRunsFinished
<1> QED
  BY <1>5, <1>6, <1>7, <1>8, <1>9 DEF JobInv

\* After its result is stored, what a task still does concerns no other job.
LEMMA RunEndJobs ==
    ASSUME JobTypeOK, JobInv, NEW r \in runs,
           RunReported(r) \/ RunRaises(r) \/ RunRequeue(r)
    PROVE  /\ JobInv' /\ RunningJobs' = RunningJobs
           /\ Elements(queue.pending) \subseteq Elements(queue'.pending)
           /\ Elements(queue'.pending) \subseteq Elements(queue.pending) \cup finished
<1> DEFINE moved == [r EXCEPT !.pc = "failing"]
<1>1. /\ r.job \in Jobs /\ moved.job = r.job /\ moved.pc = "failing"
  BY DEF JobTypeOK, Run
<1>2. /\ runs' = runs \ {r} \/ runs' = (runs \ {r}) \cup {moved}
      /\ r.pc \in {"reporting", "failing"} /\ UNCHANGED <<submitted, finished>>
      /\ queue' = queue \/ queue' = RequeueAll(queue, <<r.job>>)
  BY DEF RunReported, RunRaises, RunRequeue, MoveRun
<1>3. r.job \in finished
  BY <1>2 DEF JobInv, LateRunsFinished
<1>4. /\ Elements(queue.pending) \subseteq Elements(queue'.pending)
      /\ Elements(queue'.pending) \subseteq Elements(queue.pending) \cup {r.job}
      /\ queue'.inflight \subseteq queue.inflight
      /\ \A k \in queue'.inflight : queue'.owner[k] = queue.owner[k]
  <2>1. CASE queue' = queue
    BY <2>1
  <2>2. CASE queue' = RequeueAll(queue, <<r.job>>)
    <3>1. <<r.job>> \in Seq(Jobs) /\ Elements(<<r.job>>) = {r.job}
      BY <1>1, ElementsType
    <3>2. queue.inflight \subseteq Jobs /\ queue \in Queue
      BY DEF JobTypeOK, Queue
    <3> DEFINE Q == RequeueAll(queue, <<r.job>>)
    <3>3. /\ Elements(Q.pending) = Elements(queue.pending) \cup Elements(<<r.job>>)
          /\ Q.inflight = queue.inflight \ Elements(<<r.job>>)
          /\ \A k \in Jobs : k \notin Elements(<<r.job>>) => Q.owner[k] = queue.owner[k]
      BY <3>1, <3>2, RequeueFacts, Zenon
    <3> HIDE DEF Q
    <3>4. queue' = Q   BY <2>2 DEF Q
    <3> QED  BY <3>1, <3>2, <3>3, <3>4
  <2> QED  BY <1>2, <2>1, <2>2
<1> HIDE DEF moved
<1>5. RunningJobs' = RunningJobs
  BY <1>1, <1>2 DEF RunningJobs, ActiveRun
<1>6. NoJobLost'
  BY <1>2, <1>4, <1>5 DEF JobInv, NoJobLost
<1>7. InflightHasRun'
  <2> SUFFICES ASSUME NEW k \in queue'.inflight
               PROVE  \E q \in runs' : q.job = k /\ q.worker = queue'.owner[k] /\ ActiveRun(q)
    BY DEF InflightHasRun, ActiveRun
  <2>1. PICK q \in runs : q.job = k /\ q.worker = queue.owner[k] /\ ActiveRun(q)
    BY <1>4 DEF JobInv, InflightHasRun
  <2> QED  BY <1>2, <1>4, <2>1 DEF ActiveRun
<1>8. LateRunsFinished'
  BY <1>1, <1>2, <1>3 DEF JobInv, LateRunsFinished
<1> QED
  BY <1>3, <1>4, <1>5, <1>6, <1>7, <1>8 DEF JobInv

\* Reclaiming makes jobs wait again that some task is still processing.
LEMMA ReclaimJobs ==
    ASSUME JobTypeOK, JobInv, NEW w, Reclaim(w), UNCHANGED <<submitted, finished, runs>>
    PROVE  /\ JobInv' /\ RunningJobs' = RunningJobs
           /\ Elements(queue.pending) \subseteq Elements(queue'.pending)
           /\ Elements(queue'.pending) \subseteq Elements(queue.pending) \cup RunningJobs
<1>1. OwnedBy(queue, w) \subseteq Jobs /\ queue.inflight \subseteq Jobs /\ queue \in Queue
  BY DEF OwnedBy, JobTypeOK, Queue
<1>2. PICK s \in Orderings(OwnedBy(queue, w)) : queue' = RequeueAll(queue, s)
  BY DEF Reclaim
<1>3. s \in Seq(Jobs) /\ Elements(s) = OwnedBy(queue, w)
  BY <1>1, <1>2, OrderingsType
<1>4. /\ Elements(queue'.pending) = Elements(queue.pending) \cup Elements(s)
      /\ queue'.inflight = queue.inflight \ Elements(s)
      /\ \A k \in Jobs : k \notin Elements(s) => queue'.owner[k] = queue.owner[k]
  BY <1>1, <1>2, <1>3, RequeueFacts
<1>5. Elements(s) \subseteq RunningJobs
  BY <1>3 DEF OwnedBy, JobInv, InflightHasRun, RunningJobs
<1>6. RunningJobs' = RunningJobs
  BY DEF RunningJobs, ActiveRun
<1>7. NoJobLost'
  BY <1>4, <1>6 DEF JobInv, NoJobLost
<1>8. InflightHasRun'
  BY <1>1, <1>4 DEF JobInv, InflightHasRun, ActiveRun
<1>9. LateRunsFinished'
  BY DEF JobInv, LateRunsFinished
<1> QED
  BY <1>4, <1>5, <1>6, <1>7, <1>8, <1>9 DEF JobInv

\* The steps that leave the jobs alone.
LEMMA IdleJobs ==
    ASSUME JobInv, UNCHANGED <<queue, submitted, finished, runs>>
    PROVE  JobInv' /\ RunningJobs' = RunningJobs
  BY DEF JobInv, NoJobLost, InflightHasRun, LateRunsFinished, RunningJobs, ActiveRun

-----------------------------------------------------------------------------
(* Every step keeps the job invariant and is a step of the service.        *)

LEMMA AcceptStep ==
    ASSUME JobTypeOK, JobInv, EnqueueJob
    PROVE  JobInv' /\ Service!Next
<1> DEFINE j == submitted + 1
<1>1. /\ j \in Jobs /\ queue' = Enqueue(queue, j) /\ submitted' = j
      /\ UNCHANGED <<finished, runs>> /\ submitted \in Nat
  BY MaxJobsAssumption DEF EnqueueJob, JobTypeOK, Jobs
<1>2. /\ Elements(queue'.pending) = Elements(queue.pending) \cup {j}
      /\ queue'.inflight = queue.inflight /\ queue'.owner = queue.owner
  BY <1>1, EnqueueFacts DEF JobTypeOK
<1>3. 1..submitted' = (1..submitted) \cup {j} /\ j \notin 1..submitted
  BY <1>1
<1> HIDE DEF j
<1>4. RunningJobs' = RunningJobs
  BY <1>1 DEF RunningJobs, ActiveRun
<1>5. JobInv'
  BY <1>1, <1>2, <1>3, <1>4
  DEF JobInv, NoJobLost, InflightHasRun, LateRunsFinished, ActiveRun
<1>6. Service!Accept(j)
  BY <1>1, <1>2, <1>3, <1>4 DEF Service!Accept
<1> QED
  BY <1>1, <1>5, <1>6 DEF Service!Next

LEMMA StartStep ==
    ASSUME JobTypeOK, JobInv, NEW w \in WorkerIds, Dispatch(w)
    PROVE  JobInv' /\ Service!Next
<1>1. JobInv'
  BY DispatchJobs
<1>2. PICK j \in Jobs : /\ j \in Elements(queue.pending)
                        /\ Elements(queue.pending) = Elements(queue'.pending) \cup {j}
                        /\ RunningJobs' = RunningJobs \cup {j}
  BY DispatchJobs
<1>3. submitted' = submitted /\ finished' = finished
  BY DEF Dispatch
<1>4. Elements(queue'.pending)
          \in {Elements(queue.pending), Elements(queue.pending) \ {j}}
  BY <1>2
<1>5. Service!Start(j)
  BY <1>2, <1>3, <1>4 DEF Service!Start
<1> QED
  BY <1>1, <1>5 DEF Service!Next

LEMMA FinishStep ==
    ASSUME JobTypeOK, JobInv, NEW r \in runs, RunComplete(r)
    PROVE  JobInv' /\ Service!Next
<1>1. JobInv' /\ r.job \in RunningJobs
      /\ RunningJobs' \in {RunningJobs, RunningJobs \ {r.job}}
  BY RunCompleteJobs
<1>2. r.job \in Jobs
  BY DEF JobTypeOK, Run
<1>3. finished' = finished \cup {r.job} /\ submitted' = submitted
      /\ queue'.pending = queue.pending
  BY <1>2, CompleteFacts DEF RunComplete, JobTypeOK
<1>4. Service!Finish(r.job)
  BY <1>1, <1>3 DEF Service!Finish
<1> QED
  BY <1>1, <1>2, <1>4 DEF Service!Next

LEMMA RetryStep ==
    ASSUME JobTypeOK, JobInv,
           \/ \E r \in runs : RunReported(r) \/ RunRaises(r) \/ RunRequeue(r)
           \/ \E w \in WorkerIds : FinishKill(w)
           \/ MonitorResume
    PROVE  JobInv' /\ Service!Next
<1>1. /\ JobInv' /\ RunningJobs' = RunningJobs /\ UNCHANGED <<submitted, finished>>
      /\ Elements(queue.pending) \subseteq Elements(queue'.pending)
      /\ Elements(queue'.pending) \subseteq Elements(queue.pending) \cup RunningJobs \cup finished
  <2>1. CASE \E r \in runs : RunReported(r) \/ RunRaises(r) \/ RunRequeue(r)
    BY <2>1, RunEndJobs DEF RunReported, RunRaises, RunRequeue
  <2>2. ASSUME NEW w \in WorkerIds, FinishKill(w)
        PROVE  Reclaim(w) /\ UNCHANGED <<submitted, finished, runs>>
    BY <2>2 DEF FinishKill
  <2>3. ASSUME MonitorResume
        PROVE  Reclaim(monCur) /\ UNCHANGED <<submitted, finished, runs>>
    BY <2>3 DEF MonitorResume
  <2> QED
    BY <2>1, <2>2, <2>3, ReclaimJobs
<1>2. Service!Retry
  BY <1>1 DEF Service!Retry
<1> QED
  BY <1>1, <1>2 DEF Service!Next

LEMMA JobsStep ==
    JobTypeOK /\ JobInv /\ [Next]_vars
        => JobInv' /\ [Service!Next]_(Service!vars)
<1> SUFFICES ASSUME JobTypeOK, JobInv, [Next]_vars
             PROVE  JobInv' /\ [Service!Next]_(Service!vars)
  OBVIOUS
<1>1. CASE EnqueueJob
  BY <1>1, AcceptStep
<1>2. CASE SelectAndDispatch \/ WakeAndDispatch
  BY <1>2, StartStep DEF SelectAndDispatch, WakeAndDispatch, JobTypeOK
<1>3. CASE CreateRun
  BY <1>3, CreateRunJobs DEF CreateRun, Service!vars
<1>4. ASSUME NEW r \in runs, RunStep(r)
      PROVE  JobInv' /\ [Service!Next]_(Service!vars)
  BY <1>4, FinishStep, RetryStep DEF RunStep
<1>5. CASE MonitorResume \/ \E w \in WorkerIds : FinishKill(w)
  BY <1>5, RetryStep
<1>6. CASE \/ SelectAndBlock \/ MonitorPass \/ UNCHANGED vars
           \/ \E w \in WorkerIds : \/ Kill(w) \/ DuplicateKill(w)
                                   \/ GoLate(w) \/ Heartbeat(w)
           \/ \E n \in 1..MaxWorkers : Scale(n)
  <2>1. UNCHANGED <<queue, submitted, finished, runs>>
    BY <1>6 DEF SelectAndBlock, MonitorPass, vars, Kill, DuplicateKill, GoLate,
                Heartbeat, Scale
  <2> QED
    BY <2>1, IdleJobs DEF Service!vars
<1> QED
  BY <1>1, <1>2, <1>3, <1>4, <1>5, <1>6 DEF Next

-----------------------------------------------------------------------------
(* The theorems.                                                           *)

\* IInv is an invariant of the scheduler: it holds at start, and each
\* handler, loop iteration and task step preserves it.
THEOREM InductiveInvariant == Spec => []IInv
<1>1. Init => IInv
  BY InitIInv
<1>2. IInv /\ [Next]_vars => IInv'
  BY JobTypeStep, PoolStep, JobsStep DEF IInv, TypeOK, PoolInv, JobInv
<1> QED
  BY <1>1, <1>2, PTL DEF Spec

\* Type correctness, including the monitor's bookkeeping of its suspects.
THEOREM TypeCorrect == Spec => []TypeOK
<1>1. IInv => TypeOK
  BY DEF IInv
<1> QED
  BY <1>1, InductiveInvariant, PTL

\* No accepted job is ever dropped, for any number of deaths and faults.
THEOREM JobsAreNeverLost == Spec => []NoJobLost
<1>1. IInv => NoJobLost
  BY DEF IInv
<1> QED
  BY <1>1, InductiveInvariant, PTL

\* Every in-flight entry belongs to a task of the worker it names.
THEOREM InflightIsBacked == Spec => []InflightHasRun
<1>1. IInv => InflightHasRun
  BY DEF IInv
<1> QED
  BY <1>1, InductiveInvariant, PTL

\* The pool never exceeds MAX_WORKERS, nor one replacement per death.
THEOREM PoolStaysBounded == Spec => []PoolBounded
<1>1. IInv => PoolBounded
  BY DEF IInv
<1> QED
  BY <1>1, InductiveInvariant, PTL

\* A missing worker is always some handler's business.
THEOREM DeficitIsCovered == Spec => []DeficitCovered
<1>1. IInv => DeficitCovered
  BY DEF IInv
<1> QED
  BY <1>1, InductiveInvariant, PTL

\* The scheduler implements the at-least-once job service (safety part).
THEOREM ImplementsService == Spec => ServiceSpec
<1>1. Init => Service!Init
  BY DEF Init, Service!Init, EmptyQueue, Elements, RunningJobs
<1>2. IInv /\ [Next]_vars => [Service!Next]_(Service!vars)
  BY JobsStep DEF IInv, TypeOK, JobInv
<1> QED
  BY <1>1, <1>2, InductiveInvariant, PTL DEF Spec, ServiceSpec, Service!Spec

-----------------------------------------------------------------------------
(***************************************************************************)
(* The inductive invariant.  A job that was never dispatched waits in the  *)
(* queue, and no later job is before it there; so when a job is taken from *)
(* the head, all earlier ones have had their turn.                         *)
(***************************************************************************)
FreshWait == \A j \in 1..submitted : tries[j] = 0 => j \in Elements(queue.pending)

FreshInOrder ==
    \A i \in 1..Len(queue.pending), k \in Jobs :
        k < queue.pending[i] /\ tries[k] = 0
            => \E h \in 1..Len(queue.pending) : h < i /\ queue.pending[h] = k

DispatchedInOrder == \A j, k \in Jobs : k < j /\ tries[j] > 0 => tries[k] > 0

TasksWereDispatched == \A r \in runs : tries[r.job] > 0

OrderInv == FreshWait /\ FreshInOrder /\ DispatchedInOrder /\ TasksWereDispatched

-----------------------------------------------------------------------------
\* Steps that leave the queue and the dispatches alone, and bring no new job to a task.
LEMMA OrderFrame ==
    ASSUME OrderInv, queue'.pending = queue.pending, UNCHANGED <<submitted, tries>>,
           \A r \in runs' : \E q \in runs : q.job = r.job
    PROVE  OrderInv'
  BY DEF OrderInv, FreshWait, FreshInOrder, DispatchedInOrder, TasksWereDispatched

\* Jobs that come back to the queue were dispatched before, so all earlier ones were.
LEMMA RequeueOrder ==
    ASSUME JobTypeOK, OrderInv, NEW s \in Seq(Jobs), queue'.pending = queue.pending \o s,
           \A j \in Elements(s) : tries[j] > 0,
           UNCHANGED <<submitted, tries>>, runs' \subseteq runs
    PROVE  OrderInv'
<1> DEFINE p == queue.pending
<1>1. p \in Seq(Jobs) /\ tries \in [Jobs -> Nat]
  BY DEF JobTypeOK, Queue
<1>2. /\ Len(p \o s) = Len(p) + Len(s) /\ Len(p) \in Nat /\ Len(s) \in Nat
      /\ \A i \in 1..(Len(p) + Len(s)) :
            (p \o s)[i] = IF i <= Len(p) THEN p[i] ELSE s[i - Len(p)]
  BY <1>1, ConcatProperties, LenProperties
<1>3. Elements(p) \subseteq Elements(p \o s)
  BY <1>1, ConcatElements
<1>4. FreshWait'
  BY <1>3 DEF OrderInv, FreshWait
<1>5. FreshInOrder'
  <2> SUFFICES ASSUME NEW i \in 1..Len(p \o s), NEW k \in Jobs,
                      k < (p \o s)[i], tries[k] = 0
               PROVE  \E h \in 1..Len(p \o s) : h < i /\ (p \o s)[h] = k
    BY DEF FreshInOrder
  <2>1. CASE i <= Len(p)
    <3>1. (p \o s)[i] = p[i] /\ i \in 1..Len(p)
      BY <1>2, <2>1
    <3>2. PICK h \in 1..Len(p) : h < i /\ p[h] = k
      BY <3>1 DEF OrderInv, FreshInOrder
    <3>3. h \in 1..Len(p \o s) /\ (p \o s)[h] = k
      BY <1>2, <3>2
    <3> QED  BY <3>2, <3>3
  <2>2. CASE ~(i <= Len(p))
    <3>1. i - Len(p) \in 1..Len(s) /\ (p \o s)[i] = s[i - Len(p)]
      BY <1>2, <2>2
    <3>2. s[i - Len(p)] \in Jobs /\ s[i - Len(p)] \in Elements(s)
      BY <3>1, ElementOfSeq DEF Elements
    <3>3. tries[k] > 0
      BY <3>1, <3>2 DEF OrderInv, DispatchedInOrder
    <3> QED  BY <1>1, <3>3
  <2> QED  BY <2>1, <2>2
<1> QED
  BY <1>4, <1>5 DEF OrderInv, DispatchedInOrder, TasksWereDispatched

\* A reclaimed job is in flight, so a task has been working on it.
LEMMA ReclaimOrder ==
    ASSUME JobTypeOK, JobInv, OrderInv, NEW w, Reclaim(w), UNCHANGED <<submitted, tries, runs>>
    PROVE  OrderInv'
<1>1. OwnedBy(queue, w) \subseteq Jobs
  BY DEF OwnedBy, JobTypeOK, Queue
<1>2. PICK s \in Orderings(OwnedBy(queue, w)) : queue' = RequeueAll(queue, s)
  BY DEF Reclaim
<1>3. s \in Seq(Jobs) /\ Elements(s) = OwnedBy(queue, w)
  BY <1>1, <1>2, OrderingsType
<1>4. queue'.pending = queue.pending \o s
  BY <1>2 DEF RequeueAll
<1>5. \A j \in Elements(s) : tries[j] > 0
  BY <1>3 DEF OwnedBy, JobInv, InflightHasRun, OrderInv, TasksWereDispatched
<1> QED
  BY <1>3, <1>4, <1>5, RequeueOrder

\* A new job goes behind all others, those that still wait included.
LEMMA EnqueueOrder ==
    ASSUME JobTypeOK, OrderInv, EnqueueJob PROVE OrderInv'
<1> DEFINE p == queue.pending
           n == submitted + 1
<1>1. /\ n \in Jobs /\ submitted \in Nat /\ submitted' = n /\ queue'.pending = Append(p, n)
      /\ UNCHANGED <<tries, runs>>
  BY MaxJobsAssumption DEF EnqueueJob, Enqueue, JobTypeOK, Jobs, Queue
<1>2. p \in Seq(Jobs)
  BY DEF JobTypeOK, Queue
<1>3. /\ Len(Append(p, n)) = Len(p) + 1 /\ Len(p) \in Nat
      /\ \A i \in 1..Len(p) : Append(p, n)[i] = p[i]
      /\ Append(p, n)[Len(p) + 1] = n
  BY <1>1, <1>2, AppendProperties, LenProperties
<1>4. Elements(Append(p, n)) = Elements(p) \cup {n}
  BY <1>1, <1>2, AppendElements
<1>5. \A j \in 1..n : j = n \/ j \in 1..submitted
  BY <1>1
<1> HIDE DEF n
<1>6. FreshWait'
  BY <1>1, <1>4, <1>5 DEF OrderInv, FreshWait
<1>7. FreshInOrder'
  <2> SUFFICES ASSUME NEW i \in 1..Len(Append(p, n)), NEW k \in Jobs,
                      k < Append(p, n)[i], tries[k] = 0
               PROVE  \E h \in 1..Len(Append(p, n)) : h < i /\ Append(p, n)[h] = k
    BY <1>1 DEF FreshInOrder
  <2>1. CASE i \in 1..Len(p)
    <3>1. PICK h \in 1..Len(p) : h < i /\ p[h] = k
      BY <1>3, <2>1 DEF OrderInv, FreshInOrder
    <3> QED  BY <1>3, <3>1
  <2>2. CASE i = Len(p) + 1
    <3>1. k < n
      BY <1>3, <2>2
    <3>2. k \in 1..submitted
      BY <1>1, <3>1, MaxJobsAssumption DEF Jobs, n
    <3>3. PICK h \in 1..Len(p) : p[h] = k
      BY <3>2 DEF OrderInv, FreshWait, Elements
    <3> QED  BY <1>3, <2>2, <3>3
  <2> QED  BY <1>3, <2>1, <2>2
<1> QED
  BY <1>1, <1>6, <1>7 DEF OrderInv, DispatchedInOrder, TasksWereDispatched

\* The head of the queue is dispatched: by FreshInOrder no earlier job is fresh.
LEMMA DispatchOrder ==
    ASSUME JobTypeOK, OrderInv, NEW w \in WorkerIds, Dispatch(w) PROVE OrderInv'
<1> DEFINE p == queue.pending
           j == Head(p)
<1>1. /\ p \in Seq(Jobs) /\ p # << >> /\ tries \in [Jobs -> Nat] /\ submitted \in Nat
      /\ submitted <= MaxJobs
  BY MaxJobsAssumption DEF JobTypeOK, Queue, Dispatch
<1>2. /\ queue'.pending = Tail(p) /\ tries' = [tries EXCEPT ![j] = @ + 1]
      /\ submitted' = submitted
      /\ \A r \in runs' : r \in runs \/ r.job = j
  BY DEF Dispatch, Dequeue
<1>3. /\ j \in Jobs /\ j = p[1] /\ Len(p) \in Nat /\ Len(p) >= 1 /\ Len(Tail(p)) = Len(p) - 1
      /\ \A i \in 1..Len(Tail(p)) : Tail(p)[i] = p[i + 1]
  BY <1>1, HeadTailProperties, EmptySeq, LenProperties
<1>4. Elements(p) = Elements(Tail(p)) \cup {j}
  BY <1>1, TailElements
<1> HIDE DEF j
<1>5. /\ tries'[j] > 0
      /\ \A k \in Jobs : /\ tries'[k] = 0 => k # j /\ tries[k] = 0
                         /\ tries[k] > 0 => tries'[k] > 0
                         /\ tries'[k] > 0 => k = j \/ tries[k] > 0
                         /\ tries[k] = 0 \/ tries[k] > 0
  BY <1>1, <1>2, <1>3
<1>6. FreshWait'
  <2>1. \A k \in 1..submitted : k \in Jobs
    BY <1>1, MaxJobsAssumption DEF Jobs
  <2> QED  BY <1>2, <1>4, <1>5, <2>1 DEF OrderInv, FreshWait
<1>7. FreshInOrder'
  <2> SUFFICES ASSUME NEW i \in 1..Len(Tail(p)), NEW k \in Jobs,
                      k < Tail(p)[i], tries'[k] = 0
               PROVE  \E h \in 1..Len(Tail(p)) : h < i /\ Tail(p)[h] = k
    BY <1>2 DEF FreshInOrder
  <2>1. i + 1 \in 1..Len(p) /\ Tail(p)[i] = p[i + 1] /\ k # j /\ tries[k] = 0
    BY <1>3, <1>5
  <2>2. PICK h \in 1..Len(p) : h < i + 1 /\ p[h] = k
    BY <2>1 DEF OrderInv, FreshInOrder
  <2>3. h - 1 \in 1..Len(Tail(p)) /\ h - 1 < i /\ (h - 1) + 1 = h
    BY <1>3, <2>1, <2>2
  <2>4. Tail(p)[h - 1] = k
    BY <1>3, <2>2, <2>3
  <2> QED  BY <2>3, <2>4
<1>8. DispatchedInOrder'
  <2>1. \A k \in Jobs : k < j => tries[k] > 0
    <3> SUFFICES ASSUME NEW k \in Jobs, k < j, tries[k] = 0 PROVE FALSE
      BY <1>5
    <3>1. PICK h \in 1..Len(p) : h < 1 /\ p[h] = k
      BY <1>3 DEF OrderInv, FreshInOrder
    <3> QED  BY <3>1
  <2> QED  BY <1>5, <2>1 DEF OrderInv, DispatchedInOrder
<1>9. TasksWereDispatched'
  <2>1. \A r \in runs : r.job \in Jobs
    BY DEF JobTypeOK, Run
  <2> QED  BY <1>2, <1>5, <2>1 DEF OrderInv, TasksWereDispatched
<1> QED
  BY <1>6, <1>7, <1>8, <1>9 DEF OrderInv

-----------------------------------------------------------------------------
LEMMA OrderStep == JobTypeOK /\ JobInv /\ OrderInv /\ [Next]_vars => OrderInv'
<1> SUFFICES ASSUME JobTypeOK, JobInv, OrderInv, [Next]_vars PROVE OrderInv'
  OBVIOUS
<1> USE DEF dispatchVars, poolVars
<1>1. CASE EnqueueJob
  BY <1>1, EnqueueOrder
<1>2. CASE SelectAndDispatch \/ WakeAndDispatch
  BY <1>2, DispatchOrder DEF SelectAndDispatch, WakeAndDispatch, JobTypeOK
<1>3. CASE CreateRun
  <2>1. queue' = queue /\ UNCHANGED <<submitted, tries>>
    BY <1>3 DEF CreateRun
  <2>2. \A r \in runs' : \E q \in runs : q.job = r.job
    BY <1>3 DEF CreateRun, JobTypeOK, Run
  <2> QED  BY <2>1, <2>2, OrderFrame
<1>4. ASSUME NEW r \in runs, RunComplete(r) \/ RunReported(r) \/ RunRaises(r) PROVE OrderInv'
  <2>1. queue'.pending = queue.pending /\ UNCHANGED <<submitted, tries>>
    <3>1. r.job \in Jobs /\ queue \in Queue
      BY DEF JobTypeOK, Run
    <3>2. Complete(queue, r.job).pending = queue.pending
      BY <3>1, CompleteFacts
    <3> QED  BY <1>4, <3>2 DEF RunComplete, RunReported, RunRaises
  <2>2. \A q \in runs' : q \in runs \/ q.job = r.job
    BY <1>4 DEF RunComplete, RunReported, RunRaises, MoveRun, JobTypeOK, Run
  <2> QED  BY <2>1, <2>2, OrderFrame
<1>5. ASSUME NEW r \in runs, RunRequeue(r) PROVE OrderInv'
  <2>1. r.job \in Jobs /\ tries[r.job] > 0
    BY DEF JobTypeOK, Run, OrderInv, TasksWereDispatched
  <2>2. <<r.job>> \in Seq(Jobs) /\ Elements(<<r.job>>) = {r.job}
    BY <2>1, ElementsType
  <2>3. queue'.pending = queue.pending \o <<r.job>> /\ UNCHANGED <<submitted, tries>>
        /\ runs' \subseteq runs
    BY <1>5 DEF RunRequeue, RequeueAll
  <2> QED  BY <2>1, <2>2, <2>3, RequeueOrder
<1>6. ASSUME NEW w \in WorkerIds, FinishKill(w) PROVE OrderInv'
  BY <1>6, ReclaimOrder DEF FinishKill
<1>7. CASE MonitorResume
  BY <1>7, ReclaimOrder DEF MonitorResume
<1>8. CASE \/ SelectAndBlock \/ MonitorPass \/ UNCHANGED vars
           \/ \E w \in WorkerIds : \/ Kill(w) \/ DuplicateKill(w)
                                   \/ GoLate(w) \/ Heartbeat(w)
           \/ \E n \in 1..MaxWorkers : Scale(n)
  <2>1. UNCHANGED <<queue, submitted, tries, runs>>
    BY <1>8 DEF SelectAndBlock, MonitorPass, vars, Kill, DuplicateKill, GoLate,
                Heartbeat, Scale
  <2> QED  BY <2>1, OrderFrame
<1> QED
  BY <1>1, <1>2, <1>3, <1>4, <1>5, <1>6, <1>7, <1>8 DEF Next, RunStep

(***************************************************************************)
(* First dispatches follow the order of the POST /jobs/enqueue calls, in   *)
(* spite of the retries that dispatcher.py:146 and monitor.py:64-84 put    *)
(* into the same queue and of candidates that are chosen early.            *)
(***************************************************************************)
THEOREM FirstDispatchesInOrder == Spec => []NoOvertaking
<1>1. Init => OrderInv
  BY DEF Init, EmptyQueue, OrderInv, FreshWait, FreshInOrder, DispatchedInOrder,
         TasksWereDispatched, Elements
<1>2. IInv /\ OrderInv /\ [Next]_vars => OrderInv'
  BY OrderStep DEF IInv, TypeOK, JobInv
<1>3. IInv /\ OrderInv => NoOvertaking
  <2> SUFFICES ASSUME IInv, OrderInv, NEW j \in 1..submitted, tries[j] > 0, NEW i \in 1..j
               PROVE  tries[i] > 0
    BY DEF NoOvertaking
  <2>1. j \in Jobs /\ i \in Jobs /\ (i = j \/ i < j)
    BY MaxJobsAssumption DEF IInv, TypeOK, JobTypeOK, Jobs
  <2> QED  BY <2>1 DEF OrderInv, DispatchedInOrder
<1> QED
  BY <1>1, <1>2, <1>3, InductiveInvariant, PTL DEF Spec

-----------------------------------------------------------------------------
(* The tasks and the worker each of them runs on.                          *)

\* The workers that are or were in the registry, and those whose jobs _reclaim_jobs is
\* still going to look for when, or now that, they are dead.
Known == Alive \cup Dead
Tended == Alive \cup dying \cup {monCur}

\* A task runs on a worker that was once registered, and so does the one to be created.
WorkersKnown ==
    /\ \A r \in runs : r.worker \in Known
    /\ dpc = "blocked" => candidate \in Known

-----------------------------------------------------------------------------
(* The pool: no worker is forgotten, and none comes back to life.          *)

\* _spawn_one_worker adds workers; the known ones stay what they are.
LEMMA SpawnKeeps ==
    ASSUME NEW R, WellFormed(R), NEW n \in Nat
    PROVE  LET S == SpawnUpTo(R, n)
           IN  /\ S.load = R.load /\ S.assigned = R.assigned /\ S.completed = R.completed
               /\ AliveIn(R) \subseteq AliveIn(S) /\ DeadIn(S) = DeadIn(R)
<1> DEFINE T(k) == Register(R, k)
<1>1. R \in Registry /\ R.size \in Nat
  BY MaxSpawnsAssumption DEF WellFormed, Registry
<1>2. \A w \in WorkerIds : w \in Nat /\ (R.status[w] # "unregistered" <=> w <= R.size)
  BY MaxSpawnsAssumption DEF WellFormed, WorkerIds
<1>3. ASSUME NEW k \in Nat
      PROVE  /\ T(k).load = R.load /\ T(k).assigned = R.assigned
             /\ T(k).completed = R.completed
             /\ AliveIn(R) \subseteq AliveIn(T(k)) /\ DeadIn(T(k)) = DeadIn(R)
  <2>1. /\ T(k).load = R.load /\ T(k).assigned = R.assigned
        /\ T(k).completed = R.completed
        /\ T(k).status = [w \in WorkerIds |-> IF w \in (R.size + 1)..(R.size + k)
                                              THEN "alive" ELSE R.status[w]]
    BY <1>1 DEF Register, Registry
  <2>2. \A w \in WorkerIds : w \in (R.size + 1)..(R.size + k)
                              => R.status[w] = "unregistered"
    BY <1>1, <1>2
  <2> HIDE DEF T
  <2> QED  BY <2>1, <2>2 DEF AliveIn, DeadIn
<1>4. CASE MaxWorkers - Cardinality(AliveIn(R)) > 0
  <2>1. Lesser(n, MaxWorkers - Cardinality(AliveIn(R))) \in Nat
    BY <1>4, RegistryCounts, SchedulerAssumption DEF Lesser
  <2> QED  BY <1>3, <1>4, <2>1 DEF SpawnUpTo
<1>5. CASE ~(MaxWorkers - Cardinality(AliveIn(R)) > 0)
  BY <1>5 DEF SpawnUpTo
<1> QED
  BY <1>4, <1>5

\* The same of _replace_worker_if_needed.
LEMMA ReplaceKeeps ==
    ASSUME NEW R, WellFormed(R), NEW w
    PROVE  LET S == ReplacedReg(R, w)
           IN  /\ S.load = R.load /\ S.assigned = R.assigned /\ S.completed = R.completed
               /\ AliveIn(R) \subseteq AliveIn(S) /\ DeadIn(S) = DeadIn(R)
<1>1. CASE w \in replaced \/ Cardinality(AliveIn(R)) >= InitialWorkers
  BY <1>1 DEF ReplacedReg
<1>2. CASE ~(w \in replaced \/ Cardinality(AliveIn(R)) >= InitialWorkers)
  <2>1. InitialWorkers - Cardinality(AliveIn(R)) \in Nat
    BY <1>2, RegistryCounts, SchedulerAssumption
  <2> QED  BY <1>2, <2>1, SpawnKeeps DEF ReplacedReg
<1> QED
  BY <1>1, <1>2

\* The monitor's _reclaim_jobs of the worker w it has marked dead, and then of others.
LEMMA VisitKeeps ==
    ASSUME NEW R, WellFormed(R), AliveIn(reg) \subseteq AliveIn(R), DeadIn(R) = DeadIn(reg),
           PoolTypeOK, NEW S, S \subseteq suspects \/ S \subseteq late, MonitorVisit(R, S)
    PROVE  /\ Known \subseteq Known' /\ Dead \subseteq Dead' /\ Alive' \subseteq AliveIn(R)
           /\ monCur' \in Alive \cup {None}
<1>1. S \subseteq Alive
  BY DEF PoolTypeOK
<1>2. CASE S = {}
  BY <1>2 DEF MonitorVisit, Known, Alive, Dead
<1>3. CASE S # {}
  <2>1. PICK w \in S : reg' = MarkDead(R, w) /\ monCur' = w
    BY <1>3 DEF MonitorVisit
  <2>2. w \in AliveIn(R) /\ w \in Alive
    BY <1>1, <2>1 DEF Alive
  <2>3. AliveIn(reg') = AliveIn(R) \ {w} /\ DeadIn(reg') = DeadIn(R) \cup {w}
    BY <2>1, <2>2, MarkDeadFacts
  <2> QED  BY <2>1, <2>2, <2>3 DEF Known, Alive, Dead
<1> QED
  BY <1>2, <1>3

\* Each step keeps the known workers known and the dead ones dead, and starts to tend
\* no known worker that it did not tend before: a death only moves a worker from Alive
\* to the handler's set, and the handlers of a worker never overlap.
LEMMA PoolKeeps ==
    ASSUME JobTypeOK, PoolInv, monCur \notin dying, [Next]_vars
    PROVE  /\ monCur' \notin dying'
           /\ Known \subseteq Known' /\ Dead \subseteq Dead' /\ Alive' \cap Dead = {}
           /\ Known \cap Tended' \subseteq Tended
           /\ \A w \in WorkerIds : FinishKill(w) => w \notin Tended'
           /\ MonitorResume => monCur \notin Tended'
<1> DEFINE Goal == /\ monCur' \notin dying'
                   /\ Known \subseteq Known' /\ Dead \subseteq Dead'
                   /\ Known \cap Tended' \subseteq Tended
<1>1. /\ WellFormed(reg) /\ dying \subseteq Dead /\ monCur \in Dead \cup {None}
      /\ suspects \subseteq late /\ late \subseteq Alive /\ Alive \cap Dead = {}
      /\ PoolTypeOK /\ None \notin Known /\ Known \subseteq WorkerIds
  BY MaxSpawnsAssumption
  DEF PoolInv, PoolTypeOK, Alive, Dead, AliveIn, DeadIn, None, WorkerIds, Known
<1>2. Cardinality(DeadIn(reg)) <= MaxDeaths /\ Cardinality(AliveIn(reg)) <= MaxWorkers
  BY PoolNumbers DEF PoolInv, PoolTypeOK, PoolBounded, AliveCount, Alive, Dead
<1>3. \A w : /\ WellFormed(ReplacedReg(reg, w))
             /\ AliveIn(reg) \subseteq AliveIn(ReplacedReg(reg, w))
             /\ DeadIn(ReplacedReg(reg, w)) = DeadIn(reg)
  BY <1>1, <1>2, ReplaceFacts
<1>4. Alive' \cap Dead' = {}
  BY DEF Alive, Dead, AliveIn, DeadIn
<1>5. ASSUME Alive' = Alive, Dead' = Dead, UNCHANGED <<dying, monCur>> PROVE Goal
  BY <1>5 DEF Known, Tended
<1>6. ASSUME \/ EnqueueJob \/ SelectAndBlock \/ CreateRun \/ UNCHANGED vars
             \/ \E w \in WorkerIds : GoLate(w) \/ Heartbeat(w)
      PROVE  Goal
  BY <1>5, <1>6
  DEF EnqueueJob, SelectAndBlock, CreateRun, vars, poolVars, GoLate, Heartbeat, Alive, Dead
<1>7. ASSUME NEW w \in WorkerIds, UNCHANGED poolVars,
             reg' \in {reg, MarkAssigned(reg, w), MarkCompleted(reg, w), MarkFailed(reg, w)}
      PROVE  Goal
  <2>1. CASE reg' = reg
    BY <1>5, <1>7, <2>1 DEF poolVars, Alive, Dead
  <2>2. CASE reg' \in {MarkAssigned(reg, w), MarkCompleted(reg, w), MarkFailed(reg, w)}
    <3>1. AliveIn(reg') = AliveIn(reg) /\ DeadIn(reg') = DeadIn(reg)
      BY <1>1, <2>2, CounterFacts
    <3> QED  BY <1>5, <1>7, <3>1 DEF poolVars, Alive, Dead
  <2> QED  BY <1>7, <2>1, <2>2
<1>8. ASSUME SelectAndDispatch \/ WakeAndDispatch PROVE Goal
  <2>1. PICK w \in WorkerIds : Dispatch(w)
    BY <1>8 DEF SelectAndDispatch, WakeAndDispatch, JobTypeOK
  <2>2. UNCHANGED poolVars /\ reg' = MarkAssigned(reg, w)
    BY <2>1 DEF Dispatch
  <2> QED  BY <2>2, <1>7
<1>9. ASSUME NEW r \in runs, RunStep(r) PROVE Goal
  <2>1. r.worker \in WorkerIds
    BY DEF JobTypeOK, Run
  <2>2. UNCHANGED poolVars
    BY <1>9 DEF RunStep, RunComplete, RunReported, RunRaises, RunRequeue
  <2>3. reg' \in {reg, MarkAssigned(reg, r.worker), MarkCompleted(reg, r.worker),
                  MarkFailed(reg, r.worker)}
    BY <1>9 DEF RunStep, RunComplete, RunReported, RunRaises, RunRequeue
  <2> QED  BY <2>1, <2>2, <2>3, <1>7
<1>10. ASSUME NEW w \in WorkerIds, Kill(w) PROVE Goal
  <2>1. w \in Alive /\ reg' = MarkDead(reg, w) /\ dying' = dying \cup {w} /\ monCur' = monCur
    BY <1>10 DEF Kill
  <2>2. Alive' = Alive \ {w} /\ Dead' = Dead \cup {w}
    BY <1>1, <2>1, MarkDeadFacts DEF Alive, Dead
  <2>3. w # monCur
    BY <1>1, <2>1 DEF Known
  <2> QED  BY <2>1, <2>2, <2>3 DEF Known, Tended
<1>11. ASSUME NEW w \in WorkerIds, FinishKill(w) PROVE Goal /\ w \notin Tended'
  <2>1. w \in dying /\ reg' = ReplacedReg(reg, w) /\ dying' = dying \ {w} /\ monCur' = monCur
    BY <1>11 DEF FinishKill
  <2>2. Alive \subseteq Alive' /\ Dead' = Dead
    BY <1>3, <2>1 DEF Alive, Dead
  <2> QED  BY <1>1, <1>4, <2>1, <2>2 DEF Known, Tended
<1>12. ASSUME NEW w \in WorkerIds, DuplicateKill(w) PROVE Goal
  <2>1. reg' = ReplacedReg(reg, w) /\ UNCHANGED <<dying, monCur>>
    BY <1>12 DEF DuplicateKill
  <2>2. Alive \subseteq Alive' /\ Dead' = Dead
    BY <1>3, <2>1 DEF Alive, Dead
  <2> QED  BY <1>1, <1>4, <2>1, <2>2 DEF Known, Tended
<1>13. ASSUME NEW n \in 1..MaxWorkers, Scale(n) PROVE Goal
  <2>1. reg' = SpawnUpTo(reg, Lesser(n, MaxWorkers - AliveCount)) /\ UNCHANGED <<dying, monCur>>
        /\ MaxWorkers - AliveCount > 0
    BY <1>13 DEF Scale
  <2>2. Lesser(n, MaxWorkers - AliveCount) \in Nat
    BY <2>1, PoolNumbers DEF Lesser, PoolInv
  <2>3. Alive \subseteq Alive' /\ Dead' = Dead
    BY <1>1, <2>1, <2>2, SpawnKeeps DEF Alive, Dead
  <2> QED  BY <1>1, <1>4, <2>1, <2>3 DEF Known, Tended
<1>14. ASSUME MonitorPass PROVE Goal
  <2>1. MonitorVisit(reg, late) /\ dying' = dying /\ monCur = None
    BY <1>14 DEF MonitorPass
  <2>2. /\ Known \subseteq Known' /\ Dead \subseteq Dead' /\ Alive' \subseteq Alive
        /\ monCur' \in Alive \cup {None}
    BY <1>1, <2>1, VisitKeeps DEF Alive
  <2> QED  BY <1>1, <2>1, <2>2 DEF Known, Tended
<1>15. ASSUME MonitorResume PROVE Goal /\ monCur \notin Tended'
  <2> DEFINE R == ReplacedReg(reg, monCur)
  <2>1. MonitorVisit(R, suspects) /\ dying' = dying /\ monCur # None
    BY <1>15 DEF MonitorResume
  <2>2. /\ Known \subseteq Known' /\ Dead \subseteq Dead' /\ Alive' \subseteq AliveIn(R)
        /\ monCur' \in Alive \cup {None}
    BY <1>1, <1>3, <2>1, VisitKeeps
  <2>3. Alive' \cap Dead = {}
    BY <1>4, <2>2
  <2>4. monCur \in Dead
    BY <1>1, <2>1
  <2> QED  BY <1>1, <2>1, <2>2, <2>3, <2>4 DEF Known, Tended
<1>16. Goal
  BY <1>6, <1>8, <1>9, <1>10, <1>11, <1>12, <1>13, <1>14, <1>15 DEF Next
<1>17. Alive' \cap Dead = {}
  BY <1>4, <1>16
<1> QED
  BY <1>11, <1>15, <1>16, <1>17

-----------------------------------------------------------------------------
(* The queue: as long as no report raises, each job is in it at most once. *)

Distinct(s) == \A i, k \in 1..Len(s) : s[i] = s[k] => i = k

OnlyAccepted ==
    /\ Elements(queue.pending) \cup queue.inflight \subseteq 1..submitted
    /\ \A r \in runs : r.job \in 1..submitted

\* A second copy of a job comes only from a task that failed after complete().
OneCopy ==
    faults = 0 => /\ Distinct(queue.pending)
                  /\ Elements(queue.pending) \cap queue.inflight = {}
                  /\ \A r \in runs : r.pc # "failing"

QueueInv == OnlyAccepted /\ OneCopy

\* A new job at the end keeps the jobs distinct.
LEMMA DistinctAppend ==
    ASSUME NEW s \in Seq(Jobs), NEW j \in Jobs, Distinct(s), j \notin Elements(s)
    PROVE  Distinct(Append(s, j))
<1>1. /\ Len(Append(s, j)) = Len(s) + 1 /\ Len(s) \in Nat
      /\ \A i \in 1..Len(s) : Append(s, j)[i] = s[i]
      /\ Append(s, j)[Len(s) + 1] = j
  BY AppendProperties, LenProperties
<1>2. \A i \in 1..Len(s) : s[i] # j
  BY DEF Elements
<1>3. \A i \in 1..(Len(s) + 1) : i \in 1..Len(s) \/ i = Len(s) + 1
  BY <1>1
<1> QED
  BY <1>1, <1>2, <1>3 DEF Distinct

\* What is taken from the head is not in the rest.
LEMMA DistinctTail ==
    ASSUME NEW s \in Seq(Jobs), s # << >>, Distinct(s)
    PROVE  Distinct(Tail(s)) /\ Head(s) \notin Elements(Tail(s))
<1>1. /\ Head(s) = s[1] /\ Len(Tail(s)) = Len(s) - 1 /\ Len(s) \in Nat /\ Len(s) >= 1
      /\ \A i \in 1..Len(Tail(s)) : Tail(s)[i] = s[i + 1]
  BY HeadTailProperties, EmptySeq, LenProperties
<1>2. \A i \in 1..Len(Tail(s)) : i + 1 \in 1..Len(s) /\ i + 1 # 1
  BY <1>1
<1>3. Head(s) \notin Elements(Tail(s))
  <2>1. 1 \in 1..Len(s)
    BY <1>1
  <2> QED  BY <1>1, <1>2, <2>1 DEF Distinct, Elements
<1>4. ASSUME NEW i \in 1..Len(Tail(s)), NEW k \in 1..Len(Tail(s)), Tail(s)[i] = Tail(s)[k]
      PROVE  i = k
  <2>1. i + 1 = k + 1
    BY <1>1, <1>2, <1>4 DEF Distinct
  <2> QED  BY <2>1
<1> QED
  BY <1>3, <1>4 DEF Distinct

\* Two sequences that have nothing in common.
LEMMA DistinctConcat ==
    ASSUME NEW s \in Seq(Jobs), NEW t \in Seq(Jobs), Distinct(s), Distinct(t),
           Elements(s) \cap Elements(t) = {}
    PROVE  Distinct(s \o t)
<1>1. /\ Len(s \o t) = Len(s) + Len(t) /\ Len(s) \in Nat /\ Len(t) \in Nat
      /\ \A i \in 1..(Len(s) + Len(t)) :
            (s \o t)[i] = IF i <= Len(s) THEN s[i] ELSE t[i - Len(s)]
  BY ConcatProperties, LenProperties
<1>2. ASSUME NEW i \in 1..Len(s \o t)
      PROVE  \/ i \in 1..Len(s) /\ (s \o t)[i] = s[i] /\ s[i] \in Elements(s)
             \/ /\ i - Len(s) \in 1..Len(t) /\ (s \o t)[i] = t[i - Len(s)]
                /\ t[i - Len(s)] \in Elements(t)
  BY <1>1 DEF Elements
<1> SUFFICES ASSUME NEW i \in 1..Len(s \o t), NEW k \in 1..Len(s \o t),
                    (s \o t)[i] = (s \o t)[k]
             PROVE  i = k
  BY DEF Distinct
<1>3. CASE i \in 1..Len(s) /\ k \in 1..Len(s)
  <2>1. s[i] = s[k]
    BY <1>1, <1>3
  <2> QED  BY <1>3, <2>1 DEF Distinct
<1>4. CASE i - Len(s) \in 1..Len(t) /\ k - Len(s) \in 1..Len(t)
  <2>1. (s \o t)[i] = t[i - Len(s)] /\ (s \o t)[k] = t[k - Len(s)]
    BY <1>1, <1>4
  <2>2. i - Len(s) = k - Len(s)
    BY <1>4, <2>1 DEF Distinct
  <2> QED  BY <1>1, <2>2
<1>5. CASE \/ i \in 1..Len(s) /\ k - Len(s) \in 1..Len(t)
           \/ i - Len(s) \in 1..Len(t) /\ k \in 1..Len(s)
  <2>1. \/ (s \o t)[i] \in Elements(s) /\ (s \o t)[k] \in Elements(t)
        \/ (s \o t)[i] \in Elements(t) /\ (s \o t)[k] \in Elements(s)
    BY <1>1, <1>5 DEF Elements
  <2> QED  BY <2>1
<1> QED
  BY <1>2, <1>3, <1>4, <1>5

\* Reclaiming moves jobs from the in-flight table to the queue, each once.
LEMMA ReclaimQueue ==
    ASSUME JobTypeOK, QueueInv, NEW w, Reclaim(w), UNCHANGED <<submitted, runs, faults>>
    PROVE  QueueInv'
<1>1. OwnedBy(queue, w) \subseteq queue.inflight /\ queue.inflight \subseteq Jobs /\ queue \in Queue
      /\ queue.pending \in Seq(Jobs)
  BY DEF OwnedBy, JobTypeOK, Queue
<1>2. PICK s \in Orderings(OwnedBy(queue, w)) : queue' = RequeueAll(queue, s)
  BY DEF Reclaim
<1>3. s \in Seq(Jobs) /\ Elements(s) = OwnedBy(queue, w) /\ Distinct(s)
  <2>1. Distinct(s)
    BY <1>2 DEF Orderings, Distinct
  <2> QED  BY <1>1, <1>2, <2>1, OrderingsType
<1>4. /\ Elements(queue'.pending) = Elements(queue.pending) \cup Elements(s)
      /\ queue'.inflight = queue.inflight \ Elements(s)
      /\ queue'.pending = queue.pending \o s
  <2>1. queue'.pending = queue.pending \o s
    BY <1>2 DEF RequeueAll
  <2> QED  BY <1>1, <1>2, <1>3, <2>1, RequeueFacts
<1>5. OnlyAccepted'
  BY <1>1, <1>3, <1>4 DEF QueueInv, OnlyAccepted
<1>6. OneCopy'
  <2> SUFFICES ASSUME faults = 0
               PROVE  /\ Distinct(queue'.pending)
                      /\ Elements(queue'.pending) \cap queue'.inflight = {}
                      /\ \A r \in runs : r.pc # "failing"
    BY DEF OneCopy, Distinct
  <2>1. /\ Distinct(queue.pending) /\ Elements(queue.pending) \cap queue.inflight = {}
        /\ \A r \in runs : r.pc # "failing"
    BY DEF QueueInv, OneCopy
  <2>2. Distinct(queue.pending \o s)
    BY <1>1, <1>3, <2>1, DistinctConcat
  <2> QED  BY <1>4, <2>1, <2>2
<1> QED
  BY <1>5, <1>6 DEF QueueInv

LEMMA EnqueueQueue ==
    ASSUME JobTypeOK, QueueInv, EnqueueJob PROVE QueueInv'
<1> DEFINE n == submitted + 1
<1>1. /\ n \in Jobs /\ submitted \in Nat /\ submitted' = n /\ queue' = Enqueue(queue, n)
      /\ UNCHANGED <<runs, faults>> /\ n \notin 1..submitted /\ 1..n = (1..submitted) \cup {n}
  BY MaxJobsAssumption DEF EnqueueJob, JobTypeOK, Jobs
<1>2. queue \in Queue /\ queue.pending \in Seq(Jobs)
  BY DEF JobTypeOK, Queue
<1>3. /\ Elements(queue'.pending) = Elements(queue.pending) \cup {n}
      /\ queue'.inflight = queue.inflight /\ queue'.pending = Append(queue.pending, n)
  <2>1. queue'.pending = Append(queue.pending, n)
    BY <1>1, <1>2 DEF Enqueue, Queue
  <2> QED  BY <1>1, <1>2, <2>1, EnqueueFacts
<1> HIDE DEF n
<1>4. OnlyAccepted'
  BY <1>1, <1>3 DEF QueueInv, OnlyAccepted
<1>5. n \notin Elements(queue.pending) \cup queue.inflight
  BY <1>1 DEF QueueInv, OnlyAccepted
<1>6. Distinct(queue.pending) => Distinct(queue'.pending)
  BY <1>1, <1>2, <1>3, <1>5, DistinctAppend
<1>7. OneCopy'
  <2> SUFFICES ASSUME faults = 0
               PROVE  /\ Distinct(queue'.pending)
                      /\ Elements(queue'.pending) \cap queue'.inflight = {}
                      /\ \A r \in runs : r.pc # "failing"
    BY <1>1 DEF OneCopy, Distinct
  <2> QED  BY <1>3, <1>5, <1>6 DEF QueueInv, OneCopy
<1> QED
  BY <1>4, <1>7 DEF QueueInv

LEMMA DispatchQueue ==
    ASSUME JobTypeOK, QueueInv, NEW w \in WorkerIds, Dispatch(w) PROVE QueueInv'
<1> DEFINE j == Head(queue.pending)
           new == [job |-> j, try |-> tries[j] + 1, worker |-> w, pc |-> "assigned"]
<1>1. queue \in Queue /\ queue.pending \in Seq(Jobs) /\ queue.pending # << >>
  BY DEF JobTypeOK, Queue, Dispatch
<1>2. /\ j \in Elements(queue.pending)
      /\ Elements(queue.pending) = Elements(queue'.pending) \cup {j}
      /\ queue'.inflight = queue.inflight \cup {j}
  BY <1>1, DequeueFacts DEF Dispatch
<1>3. queue'.pending = Tail(queue.pending)
  BY <1>1 DEF Dispatch, Dequeue, Queue
<1>4. runs' = runs \cup {new} /\ UNCHANGED <<submitted, faults>>
  BY DEF Dispatch
<1>5. new.job = j /\ new.pc = "assigned"
  OBVIOUS
<1> HIDE DEF j, new
<1>6. OnlyAccepted'
  BY <1>2, <1>4, <1>5 DEF QueueInv, OnlyAccepted
<1>7. Distinct(queue.pending) => Distinct(queue'.pending) /\ j \notin Elements(queue'.pending)
  BY <1>1, <1>3, DistinctTail DEF j
<1>8. OneCopy'
  BY <1>2, <1>4, <1>5, <1>7 DEF QueueInv, OneCopy, Distinct
<1> QED
  BY <1>6, <1>8 DEF QueueInv

LEMMA QueueStep == JobTypeOK /\ QueueInv /\ [Next]_vars => QueueInv'
<1> SUFFICES ASSUME JobTypeOK, QueueInv, [Next]_vars PROVE QueueInv'
  OBVIOUS
<1>1. CASE EnqueueJob
  BY <1>1, EnqueueQueue
<1>2. CASE SelectAndDispatch \/ WakeAndDispatch
  BY <1>2, DispatchQueue DEF SelectAndDispatch, WakeAndDispatch, JobTypeOK
<1>3. ASSUME queue'.pending = queue.pending, queue'.inflight \subseteq queue.inflight,
             submitted' = submitted, faults' = faults \/ faults' # 0,
             \A r \in runs' : \E q \in runs :
                q.job = r.job /\ (faults' = 0 /\ r.pc = "failing" => q.pc = "failing")
      PROVE  QueueInv'
  BY <1>3 DEF QueueInv, OnlyAccepted, OneCopy, Distinct
<1>4. CASE CreateRun
  <2>1. UNCHANGED <<queue, submitted, faults>>
    BY <1>4 DEF CreateRun
  <2>2. \A r \in runs' : \E q \in runs : q.job = r.job /\ (r.pc = "failing" => q.pc = "failing")
    BY <1>4 DEF CreateRun, JobTypeOK, Run
  <2> QED  BY <1>3, <2>1, <2>2
<1>5. ASSUME NEW r \in runs, RunComplete(r) \/ RunReported(r) \/ RunRaises(r) PROVE QueueInv'
  <2>1. r.job \in Jobs /\ queue \in Queue
    BY DEF JobTypeOK, Run
  <2>2. /\ queue'.pending = queue.pending /\ queue'.inflight \subseteq queue.inflight
        /\ submitted' = submitted
    BY <1>5, <2>1, CompleteFacts DEF RunComplete, RunReported, RunRaises
  <2>3. faults' = faults \/ faults' # 0
    BY <1>5, SchedulerAssumption DEF RunComplete, RunReported, RunRaises, JobTypeOK
  <2>4. \A p \in runs' : \E q \in runs :
           q.job = p.job /\ (faults' = 0 /\ p.pc = "failing" => q.pc = "failing")
    <3>1. \A p \in runs' : p \in runs \/ (p.job = r.job /\ (p.pc = "failing" => RunRaises(r)))
      BY <1>5 DEF RunComplete, RunReported, RunRaises, MoveRun, JobTypeOK, Run
    <3>2. RunRaises(r) => faults' # 0
      BY SchedulerAssumption DEF RunRaises, JobTypeOK
    <3> QED  BY <3>1, <3>2
  <2> QED  BY <1>3, <2>2, <2>3, <2>4
<1>6. ASSUME NEW r \in runs, RunRequeue(r) PROVE QueueInv'
  <2>1. r.job \in Jobs /\ queue \in Queue /\ r.job \in 1..submitted /\ faults # 0
    BY <1>6 DEF JobTypeOK, Run, QueueInv, OnlyAccepted, OneCopy, RunRequeue
  <2>2. <<r.job>> \in Seq(Jobs) /\ Elements(<<r.job>>) = {r.job}
    BY <2>1, ElementsType
  <2> DEFINE Q == RequeueAll(queue, <<r.job>>)
  <2>4. /\ Elements(Q.pending) = Elements(queue.pending) \cup Elements(<<r.job>>)
        /\ Q.inflight = queue.inflight \ Elements(<<r.job>>)
    BY <2>1, <2>2, RequeueFacts, Zenon
  <2> HIDE DEF Q
  <2>5. queue' = Q /\ runs' \subseteq runs /\ submitted' = submitted /\ faults' = faults
    BY <1>6 DEF RunRequeue, Q
  <2>3. /\ Elements(queue'.pending) = Elements(queue.pending) \cup {r.job}
        /\ queue'.inflight \subseteq queue.inflight
        /\ runs' \subseteq runs /\ submitted' = submitted /\ faults' # 0
    BY <2>1, <2>2, <2>4, <2>5
  <2> QED  BY <2>1, <2>3 DEF QueueInv, OnlyAccepted, OneCopy
<1>7. ASSUME NEW w \in WorkerIds, FinishKill(w) PROVE QueueInv'
  BY <1>7, ReclaimQueue DEF FinishKill
<1>8. CASE MonitorResume
  BY <1>8, ReclaimQueue DEF MonitorResume
<1>9. CASE \/ SelectAndBlock \/ MonitorPass \/ UNCHANGED vars
           \/ \E w \in WorkerIds : \/ Kill(w) \/ DuplicateKill(w)
                                   \/ GoLate(w) \/ Heartbeat(w)
           \/ \E n \in 1..MaxWorkers : Scale(n)
  <2>1. UNCHANGED <<queue, submitted, runs, faults>>
    BY <1>9 DEF SelectAndBlock, MonitorPass, vars, Kill, DuplicateKill, GoLate,
                Heartbeat, Scale
  <2> QED  BY <1>3, <2>1
<1> QED
  BY <1>1, <1>2, <1>4, <1>5, <1>6, <1>7, <1>8, <1>9 DEF Next, RunStep

-----------------------------------------------------------------------------
(* The tasks: whose worker is tended can be reclaimed.                     *)

ReclaimInv ==
    /\ monCur \notin dying /\ WorkersKnown
    /\ QueueInv /\ UnfinishedRunIsReclaimable

\* Dispatches choose registered workers; a candidate may die, but stays known.
LEMMA WorkersKnownStep ==
    ASSUME JobTypeOK, PoolInv, monCur \notin dying, WorkersKnown, [Next]_vars
    PROVE  WorkersKnown'
<1>1. Known \subseteq Known'
  BY PoolKeeps
<1>2. ASSUME \A r \in runs' : \E q \in runs : q.worker = r.worker,
             dpc' = "blocked" => candidate' \in Known
      PROVE  WorkersKnown'
  BY <1>1, <1>2 DEF WorkersKnown
<1>3. ASSUME NEW w \in Known, Dispatch(w) PROVE WorkersKnown'
  <2>1. \A r \in runs' : r \in runs \/ r.worker = w
    BY <1>3 DEF Dispatch
  <2>2. dpc' = "reporting"
    BY <1>3 DEF Dispatch
  <2> QED  BY <1>1, <2>1, <2>2 DEF WorkersKnown
<1>4. CASE SelectAndDispatch
  BY <1>3, <1>4 DEF SelectAndDispatch, IsLeastLoaded, Known, Alive
<1>5. CASE WakeAndDispatch
  BY <1>3, <1>5 DEF WakeAndDispatch, WorkersKnown
<1>6. CASE SelectAndBlock
  <2>1. candidate' \in Known /\ runs' = runs
    BY <1>6 DEF SelectAndBlock, IsLeastLoaded, Known, Alive
  <2> QED  BY <1>2, <2>1
<1>7. CASE CreateRun
  <2>1. \A r \in runs' : \E q \in runs : q.worker = r.worker
    BY <1>7 DEF CreateRun, JobTypeOK, Run
  <2> QED  BY <1>2, <1>7, <2>1 DEF CreateRun
<1>8. ASSUME NEW r \in runs, RunStep(r) PROVE WorkersKnown'
  <2>1. \A p \in runs' : p \in runs \/ p.worker = r.worker
    BY <1>8 DEF RunStep, RunComplete, RunReported, RunRaises, RunRequeue, MoveRun, JobTypeOK, Run
  <2>2. UNCHANGED <<dpc, candidate>>
    BY <1>8 DEF RunStep, RunComplete, RunReported, RunRaises, RunRequeue, dispatchVars
  <2> QED  BY <1>2, <2>1, <2>2 DEF WorkersKnown
<1>9. CASE \/ EnqueueJob \/ MonitorPass \/ MonitorResume \/ UNCHANGED vars
           \/ \E w \in WorkerIds : \/ Kill(w) \/ FinishKill(w) \/ DuplicateKill(w)
                                   \/ GoLate(w) \/ Heartbeat(w)
           \/ \E n \in 1..MaxWorkers : Scale(n)
  <2>1. UNCHANGED <<runs, dpc, candidate>>
    BY <1>9 DEF EnqueueJob, MonitorPass, MonitorResume, vars, Kill, FinishKill, DuplicateKill,
                GoLate, Heartbeat, Scale, dispatchVars
  <2> QED  BY <1>2, <2>1 DEF WorkersKnown
<1> QED
  BY <1>4, <1>5, <1>6, <1>7, <1>8, <1>9 DEF Next

\* The reclaim of w takes no job of a task on another worker.
LEMMA ReclaimSpares ==
    ASSUME JobTypeOK, NEW w, Reclaim(w), NEW j \in queue.inflight, queue.owner[j] # w
    PROVE  j \in queue'.inflight /\ queue'.owner[j] = queue.owner[j]
<1>1. OwnedBy(queue, w) \subseteq Jobs /\ queue \in Queue /\ j \in Jobs
  BY DEF OwnedBy, JobTypeOK, Queue
<1>2. PICK s \in Orderings(OwnedBy(queue, w)) : queue' = RequeueAll(queue, s)
  BY DEF Reclaim
<1>3. s \in Seq(Jobs) /\ j \notin Elements(s)
  BY <1>1, <1>2, OrderingsType DEF OwnedBy
<1> QED
  BY <1>1, <1>2, <1>3, RequeueFacts

\* The task of a dispatch is in flight under its worker; an older task of the same job
\* is none that could still be reclaimed, because the job was waiting.
LEMMA DispatchReclaimable ==
    ASSUME JobTypeOK, PoolInv, ReclaimInv, NEW w \in WorkerIds, Dispatch(w)
    PROVE  UnfinishedRunIsReclaimable'
<1> DEFINE j == Head(queue.pending)
           new == [job |-> j, try |-> tries[j] + 1, worker |-> w, pc |-> "assigned"]
<1>1. queue \in Queue /\ queue.pending # << >> /\ queue.owner \in [Jobs -> Nat]
  BY DEF JobTypeOK, Queue, Dispatch
<1>2. /\ j \in Jobs /\ j \in Elements(queue.pending)
      /\ queue'.inflight = queue.inflight \cup {j}
      /\ queue'.owner = [queue.owner EXCEPT ![j] = w]
  BY <1>1, DequeueFacts DEF Dispatch
<1>3. runs' = runs \cup {new} /\ new.job = j /\ new.worker = w
      /\ UNCHANGED <<finished, faults, dying, monCur>>
  BY DEF Dispatch, poolVars
<1>4. Alive' = Alive
  BY CounterFacts DEF Dispatch, PoolInv, PoolTypeOK, Alive
<1>5. \A r \in runs : r.job \in Jobs
  BY DEF JobTypeOK, Run
<1> HIDE DEF j, new
<1> SUFFICES ASSUME faults = 0, NEW r \in runs', ActiveRun(r), r.job \notin finished,
                    r.worker \in Alive \/ r.worker \in dying \cup {monCur}
             PROVE  r.job \in queue'.inflight /\ queue'.owner[r.job] = r.worker
  BY <1>3, <1>4 DEF UnfinishedRunIsReclaimable, ActiveRun
<1>6. CASE r = new
  BY <1>1, <1>2, <1>3, <1>6
<1>7. CASE r \in runs
  <2>1. r.job \in queue.inflight /\ queue.owner[r.job] = r.worker
    BY <1>7 DEF ReclaimInv, UnfinishedRunIsReclaimable
  <2>2. r.job # j
    BY <1>2, <2>1 DEF ReclaimInv, QueueInv, OneCopy
  <2> QED  BY <1>1, <1>2, <1>5, <1>7, <2>1, <2>2
<1> QED
  BY <1>3, <1>6, <1>7

\* The steps that add no task, tend no more workers and take no job of a tended one away.
LEMMA ReclaimableFrame ==
    ASSUME JobTypeOK, PoolInv, ReclaimInv, [Next]_vars,
           faults' = 0 => faults = 0, finished \subseteq finished',
           \A r \in runs' : \E q \in runs : /\ q.job = r.job /\ q.worker = r.worker
                                           /\ (ActiveRun(r) => ActiveRun(q)),
           \A j \in queue.inflight :
               queue.owner[j] \in Known \cap Tended' /\ j \notin finished'
                   => j \in queue'.inflight /\ queue'.owner[j] = queue.owner[j]
    PROVE  UnfinishedRunIsReclaimable'
<1> SUFFICES ASSUME faults' = 0, NEW r \in runs', ActiveRun(r), r.job \notin finished',
                    r.worker \in Tended'
             PROVE  r.job \in queue'.inflight /\ queue'.owner[r.job] = r.worker
  BY DEF UnfinishedRunIsReclaimable, ActiveRun, Tended
<1>1. PICK q \in runs : q.job = r.job /\ q.worker = r.worker /\ ActiveRun(q)
  BY DEF ActiveRun
<1>2. r.worker \in Known
  BY <1>1 DEF ReclaimInv, WorkersKnown
<1>3. q.worker \in Tended
  BY <1>1, <1>2, PoolKeeps DEF ReclaimInv
<1>4. q.job \notin finished
  BY <1>1
<1>5. q.job \in queue.inflight /\ queue.owner[q.job] = q.worker
  BY <1>1, <1>3, <1>4 DEF ReclaimInv, UnfinishedRunIsReclaimable, Tended
<1> QED
  BY <1>1, <1>2, <1>5

LEMMA ReclaimableStep ==
    ASSUME JobTypeOK, PoolInv, ReclaimInv, [Next]_vars
    PROVE  UnfinishedRunIsReclaimable'
<1> DEFINE Kept == \A j \in queue.inflight :
               queue.owner[j] \in Known \cap Tended' /\ j \notin finished'
                   => j \in queue'.inflight /\ queue'.owner[j] = queue.owner[j]
           Older == \A r \in runs' : \E q \in runs : /\ q.job = r.job /\ q.worker = r.worker
                                                    /\ (ActiveRun(r) => ActiveRun(q))
<1>1. CASE EnqueueJob
  <2>1. submitted + 1 \in Jobs /\ queue \in Queue
    BY <1>1, MaxJobsAssumption DEF EnqueueJob, JobTypeOK, Jobs
  <2>2. Kept
    BY <1>1, <2>1, EnqueueFacts DEF EnqueueJob
  <2>3. UNCHANGED <<runs, finished, faults>>
    BY <1>1 DEF EnqueueJob
  <2> QED  BY <2>2, <2>3, ReclaimableFrame
<1>2. CASE SelectAndDispatch \/ WakeAndDispatch
  BY <1>2, DispatchReclaimable DEF SelectAndDispatch, WakeAndDispatch, JobTypeOK
<1>3. CASE CreateRun
  <2>1. Older
    BY <1>3 DEF CreateRun, JobTypeOK, Run, ActiveRun
  <2>2. UNCHANGED <<queue, finished, faults>>
    BY <1>3 DEF CreateRun
  <2> QED  BY <2>1, <2>2, ReclaimableFrame
<1>4. ASSUME NEW r \in runs, RunComplete(r) PROVE UnfinishedRunIsReclaimable'
  <2>1. r.job \in Jobs /\ queue \in Queue
    BY DEF JobTypeOK, Run
  <2>2. queue'.inflight = queue.inflight \ {r.job} /\ queue'.owner = queue.owner
        /\ finished' = finished \cup {r.job} /\ faults' = faults
    BY <1>4, <2>1, CompleteFacts DEF RunComplete
  <2>3. Older
    BY <1>4 DEF RunComplete, MoveRun, JobTypeOK, Run, ActiveRun
  <2> QED  BY <2>2, <2>3, ReclaimableFrame
<1>5. ASSUME NEW r \in runs, RunReported(r) PROVE UnfinishedRunIsReclaimable'
  <2>1. Older /\ UNCHANGED <<queue, finished, faults>>
    BY <1>5 DEF RunReported
  <2> QED  BY <2>1, ReclaimableFrame
<1>6. ASSUME NEW r \in runs, RunRaises(r) PROVE UnfinishedRunIsReclaimable'
  <2>1. faults' # 0
    BY <1>6, SchedulerAssumption DEF RunRaises, JobTypeOK
  <2> QED  BY <2>1 DEF UnfinishedRunIsReclaimable
<1>7. ASSUME NEW r \in runs, RunRequeue(r) PROVE UnfinishedRunIsReclaimable'
  <2>1. faults # 0 /\ faults' = faults
    BY <1>7 DEF RunRequeue, ReclaimInv, QueueInv, OneCopy
  <2> QED  BY <2>1 DEF UnfinishedRunIsReclaimable
<1>8. ASSUME NEW w \in WorkerIds, FinishKill(w) PROVE UnfinishedRunIsReclaimable'
  <2>1. w \notin Tended' /\ Reclaim(w) /\ UNCHANGED <<runs, finished, faults>>
    BY <1>8, PoolKeeps DEF FinishKill, ReclaimInv
  <2>2. Kept
    BY <2>1, ReclaimSpares
  <2> QED  BY <2>1, <2>2, ReclaimableFrame
<1>9. CASE MonitorResume
  <2>1. monCur \notin Tended' /\ Reclaim(monCur) /\ UNCHANGED <<runs, finished, faults>>
    BY <1>9, PoolKeeps DEF MonitorResume, ReclaimInv
  <2>2. Kept
    BY <2>1, ReclaimSpares
  <2> QED  BY <2>1, <2>2, ReclaimableFrame
<1>10. CASE \/ SelectAndBlock \/ MonitorPass \/ UNCHANGED vars
            \/ \E w \in WorkerIds : \/ Kill(w) \/ DuplicateKill(w)
                                    \/ GoLate(w) \/ Heartbeat(w)
            \/ \E n \in 1..MaxWorkers : Scale(n)
  <2>1. UNCHANGED <<queue, finished, runs, faults>>
    BY <1>10 DEF SelectAndBlock, MonitorPass, vars, Kill, DuplicateKill, GoLate,
                 Heartbeat, Scale
  <2> QED  BY <2>1, ReclaimableFrame
<1> QED
  BY <1>1, <1>2, <1>3, <1>4, <1>5, <1>6, <1>7, <1>8, <1>9, <1>10 DEF Next, RunStep

\* What the theorem rests on is inductive, given the invariants of SchedulerProofs.
LEMMA ReclaimInvariant == Spec => []ReclaimInv
<1>1. Init => ReclaimInv
  BY DEF Init, EmptyQueue, Elements, ReclaimInv, WorkersKnown, QueueInv, OnlyAccepted, OneCopy,
         Distinct, UnfinishedRunIsReclaimable
<1>2. IInv /\ ReclaimInv /\ [Next]_vars => ReclaimInv'
  <2> SUFFICES ASSUME IInv, ReclaimInv, [Next]_vars PROVE ReclaimInv'
    OBVIOUS
  <2>1. JobTypeOK /\ PoolInv
    BY DEF IInv, TypeOK, PoolInv
  <2>2. monCur' \notin dying'
    BY <2>1, PoolKeeps DEF ReclaimInv
  <2>3. WorkersKnown' /\ QueueInv' /\ UnfinishedRunIsReclaimable'
    BY <2>1, WorkersKnownStep, QueueStep, ReclaimableStep DEF ReclaimInv
  <2> QED  BY <2>2, <2>3 DEF ReclaimInv
<1> QED
  BY <1>1, <1>2, InductiveInvariant, PTL DEF Spec

(***************************************************************************)
(* _reclaim_jobs (monitor.py:58-84) finds the unfinished job of every task *)
(* on a worker whose death is, or may yet be, handled -- however DELETE    *)
(* handlers, the monitor and dispatches to stale candidates interleave.    *)
(***************************************************************************)
THEOREM TasksAreReclaimable == Spec => []UnfinishedRunIsReclaimable
<1>1. ReclaimInv => UnfinishedRunIsReclaimable
  BY DEF ReclaimInv
<1> QED
  BY <1>1, ReclaimInvariant, PTL

-----------------------------------------------------------------------------
(* The counters of the registry.                                           *)

\* A job and the number of its dispatch name one task; the numbers used are behind us.
UniqueRuns == \A r, q \in runs : r.job = q.job /\ r.try = q.try => r = q
TriesOfRuns == \A r \in runs : r.try <= tries[r.job]
RunsNamed == IsFiniteSet(runs) /\ UniqueRuns /\ TriesOfRuns

-----------------------------------------------------------------------------
(* Tasks keep their names.                                                 *)

\* No step but a dispatch adds a task, and that one has a number of its own.
LEMMA RunsNamedStep == JobTypeOK /\ RunsNamed /\ [Next]_vars => RunsNamed'
<1> SUFFICES ASSUME JobTypeOK, RunsNamed, [Next]_vars PROVE RunsNamed'
  OBVIOUS
<1>1. /\ IsFiniteSet(runs) /\ UniqueRuns /\ TriesOfRuns /\ tries \in [Jobs -> Nat]
      /\ \A r \in runs : r \in Run /\ r.job \in Jobs /\ r.try \in Nat
  BY DEF RunsNamed, JobTypeOK, Run
<1>2. ASSUME UNCHANGED <<runs, tries>> PROVE RunsNamed'
  BY <1>1, <1>2 DEF RunsNamed, UniqueRuns, TriesOfRuns
<1>3. ASSUME NEW w \in WorkerIds, Dispatch(w) PROVE RunsNamed'
  <2> DEFINE j == Head(queue.pending)
             new == [job |-> j, try |-> tries[j] + 1, worker |-> w, pc |-> "assigned"]
  <2>1. runs' = runs \cup {new} /\ tries' = [tries EXCEPT ![j] = @ + 1] /\ j \in Jobs
    BY <1>3, DequeueFacts DEF Dispatch, JobTypeOK
  <2>2. new.job = j /\ new.try = tries[j] + 1 /\ tries[j] \in Nat
    BY <1>1, <2>1
  <2> HIDE DEF j, new
  <2>3. IsFiniteSet(runs')
    BY <1>1, <2>1, FS_AddElement
  <2>4. TriesOfRuns'
    <3>1. \A i \in Jobs : tries[i] \in Nat /\ tries'[i] = IF i = j THEN tries[i] + 1 ELSE tries[i]
      BY <1>1, <2>1
    <3> QED  BY <1>1, <2>1, <2>2, <3>1 DEF TriesOfRuns
  <2>5. \A r \in runs : ~(r.job = new.job /\ r.try = new.try)
    BY <1>1, <2>1, <2>2 DEF TriesOfRuns
  <2>6. UniqueRuns'
    BY <1>1, <2>1, <2>5 DEF UniqueRuns
  <2> QED  BY <2>3, <2>4, <2>6 DEF RunsNamed
<1>4. CASE CreateRun
  <2> DEFINE Created(r) == [r EXCEPT !.pc = IF @ = "assigned" THEN "scanning" ELSE @]
             f == [r \in runs |-> Created(r)]
  <2>1. runs' = {Created(r) : r \in runs} /\ tries' = tries
    BY <1>4 DEF CreateRun
  <2>2. \A r \in runs : Created(r).job = r.job /\ Created(r).try = r.try
    BY <1>1 DEF Run
  <2>3. f \in Surjection(runs, runs')
    BY <2>1 DEF Surjection
  <2> HIDE DEF Created, f
  <2>4. IsFiniteSet(runs')
    BY <1>1, <2>3, FS_Surjection
  <2> QED  BY <1>1, <2>1, <2>2, <2>4 DEF RunsNamed, UniqueRuns, TriesOfRuns
<1>5. ASSUME NEW r \in runs, NEW pc, MoveRun(r, pc), UNCHANGED tries PROVE RunsNamed'
  <2> DEFINE new == [r EXCEPT !.pc = pc]
  <2>1. runs' = (runs \ {r}) \cup {new} /\ new.job = r.job /\ new.try = r.try
    BY <1>1, <1>5 DEF MoveRun, Run
  <2> HIDE DEF new
  <2>2. IsFiniteSet(runs')
    BY <1>1, <2>1, FS_RemoveElement, FS_AddElement
  <2> QED  BY <1>1, <1>5, <2>1, <2>2 DEF RunsNamed, UniqueRuns, TriesOfRuns
<1>6. ASSUME NEW r \in runs, runs' = runs \ {r}, UNCHANGED tries PROVE RunsNamed'
  BY <1>1, <1>6, FS_RemoveElement DEF RunsNamed, UniqueRuns, TriesOfRuns
<1>7. ASSUME NEW r \in runs, RunStep(r) PROVE RunsNamed'
  BY <1>5, <1>6, <1>7 DEF RunStep, RunComplete, RunReported, RunRaises, RunRequeue
<1>8. CASE SelectAndDispatch \/ WakeAndDispatch
  BY <1>3, <1>8 DEF SelectAndDispatch, WakeAndDispatch, JobTypeOK
<1>9. CASE \/ EnqueueJob \/ SelectAndBlock \/ MonitorPass \/ MonitorResume \/ UNCHANGED vars
           \/ \E w \in WorkerIds : \/ Kill(w) \/ FinishKill(w) \/ DuplicateKill(w)
                                   \/ GoLate(w) \/ Heartbeat(w)
           \/ \E n \in 1..MaxWorkers : Scale(n)
  BY <1>2, <1>9 DEF EnqueueJob, SelectAndBlock, MonitorPass, MonitorResume, vars, Kill,
                    FinishKill, DuplicateKill, GoLate, Heartbeat, Scale
<1> QED
  BY <1>4, <1>7, <1>8, <1>9 DEF Next

-----------------------------------------------------------------------------
(* The counters.                                                           *)

\* What LoadMatchesRuns says of one worker.
Matches(w) ==
    LET active == Cardinality(RunsOn(w))
    IN  /\ reg.assigned[w] = reg.completed[w] + active
        /\ reg.load[w] <= active
        /\ faults = 0 /\ w \in Alive => reg.load[w] = active

\* The counters and the number of active tasks of a worker are natural numbers.
LEMMA CounterTypes ==
    ASSUME WellFormed(reg), IsFiniteSet(runs), NEW w \in WorkerIds
    PROVE  /\ reg.load[w] \in Nat /\ reg.assigned[w] \in Nat /\ reg.completed[w] \in Nat
           /\ IsFiniteSet(RunsOn(w)) /\ Cardinality(RunsOn(w)) \in Nat
<1>1. RunsOn(w) \in SUBSET runs
  BY DEF RunsOn
<1>2. IsFiniteSet(RunsOn(w)) /\ Cardinality(RunsOn(w)) \in Nat
  BY <1>1, FS_Subset, FS_CardinalityType
<1> QED
  BY <1>2 DEF WellFormed, Registry

\* A worker whose counters and active tasks stay matches as before, dead or alive;
\* a load set to 0 is one of a worker that is now dead; a new worker has no tasks.
LEMMA MatchesFrame ==
    ASSUME JobTypeOK, PoolInv, ReclaimInv, IsFiniteSet(runs), [Next]_vars,
           NEW w \in WorkerIds, Matches(w),
           Cardinality(RunsOn(w))' = Cardinality(RunsOn(w)), faults' = 0 => faults = 0,
           reg'.assigned[w] = reg.assigned[w], reg'.completed[w] = reg.completed[w],
           \/ reg'.load[w] = reg.load[w]
           \/ reg'.load[w] = 0 /\ w \notin Alive'
    PROVE  Matches(w)'
<1> DEFINE n == Cardinality(RunsOn(w))
<1>1. /\ n \in Nat /\ reg.load[w] \in Nat /\ reg.assigned[w] \in Nat
      /\ reg.completed[w] \in Nat
  BY CounterTypes DEF PoolInv, PoolTypeOK
<1>2. /\ reg.assigned[w] = reg.completed[w] + n /\ reg.load[w] <= n
      /\ faults = 0 /\ w \in Alive => reg.load[w] = n
  BY DEF Matches
<1>3. CASE w \in Alive' /\ w \notin Alive
  <2>1. w \notin Known
    BY <1>3, PoolKeeps DEF ReclaimInv, Known
  <2>2. RunsOn(w) = {}
    BY <2>1 DEF ReclaimInv, WorkersKnown, RunsOn
  <2>3. n = 0
    BY <2>2, FS_EmptySet
  <2> HIDE DEF n
  <2> QED  BY <1>1, <1>2, <1>3, <2>3 DEF Matches, n
<1>4. CASE ~(w \in Alive' /\ w \notin Alive)
  <2> HIDE DEF n
  <2> QED  BY <1>1, <1>2, <1>4 DEF Matches, n
<1> QED
  BY <1>3, <1>4

\* The pool never touches a counter but the load of a worker it marks dead.
LEMMA PoolCounters ==
    ASSUME PoolInv, NEW w \in WorkerIds,
           \/ MonitorPass \/ MonitorResume
           \/ \E v \in WorkerIds : \/ Kill(v) \/ FinishKill(v) \/ DuplicateKill(v)
                                   \/ GoLate(v) \/ Heartbeat(v)
           \/ \E n \in 1..MaxWorkers : Scale(n)
    PROVE  /\ reg'.assigned[w] = reg.assigned[w] /\ reg'.completed[w] = reg.completed[w]
           /\ reg'.load[w] = reg.load[w] \/ (reg'.load[w] = 0 /\ w \notin Alive')
           /\ runs' = runs /\ faults' = faults
<1> DEFINE Goal == /\ reg'.assigned[w] = reg.assigned[w]
                   /\ reg'.completed[w] = reg.completed[w]
                   /\ (reg'.load[w] = reg.load[w] \/ (reg'.load[w] = 0 /\ w \notin Alive'))
           Same(R) == R.load = reg.load /\ R.assigned = reg.assigned
                      /\ R.completed = reg.completed
<1>1. WellFormed(reg) /\ suspects \subseteq WorkerIds /\ late \subseteq WorkerIds
  BY DEF PoolInv, PoolTypeOK, Alive, AliveIn
<1>2. runs' = runs /\ faults' = faults
  BY DEF MonitorPass, MonitorResume, Kill, FinishKill, DuplicateKill, GoLate, Heartbeat, Scale
<1>3. \A v : WellFormed(ReplacedReg(reg, v)) /\ Same(ReplacedReg(reg, v))
  <2>1. Cardinality(DeadIn(reg)) <= MaxDeaths /\ Cardinality(AliveIn(reg)) <= MaxWorkers
    BY PoolNumbers DEF PoolInv, PoolTypeOK, PoolBounded, AliveCount, Alive, Dead
  <2> QED  BY <1>1, <2>1, ReplaceFacts, ReplaceKeeps
<1>4. ASSUME Same(reg') PROVE Goal
  BY <1>4
<1>5. ASSUME NEW R, WellFormed(R), Same(R), NEW v \in WorkerIds, reg' = MarkDead(R, v)
      PROVE  Goal
  <2>1. /\ reg'.assigned = R.assigned /\ reg'.completed = R.completed
        /\ reg'.load = [R.load EXCEPT ![v] = 0] /\ reg'.status[v] = "dead"
    BY <1>5 DEF MarkDead, WellFormed, Registry
  <2>2. R.load \in [WorkerIds -> Nat]
    BY <1>5 DEF WellFormed, Registry
  <2>3. v \notin Alive'
    BY <2>1 DEF Alive, AliveIn
  <2> QED  BY <1>5, <2>1, <2>2, <2>3
<1>6. ASSUME NEW R, WellFormed(R), Same(R), NEW S \in SUBSET WorkerIds, MonitorVisit(R, S)
      PROVE  Goal
  BY <1>4, <1>5, <1>6 DEF MonitorVisit
<1> HIDE DEF Same
<1>7. Same(reg)
  BY DEF Same
<1>8. CASE MonitorPass
  BY <1>1, <1>2, <1>6, <1>7, <1>8 DEF MonitorPass
<1>9. CASE MonitorResume
  BY <1>1, <1>2, <1>3, <1>6, <1>9 DEF MonitorResume
<1>10. CASE \E v \in WorkerIds : Kill(v)
  BY <1>1, <1>2, <1>5, <1>7, <1>10 DEF Kill
<1>11. CASE \E v \in WorkerIds : FinishKill(v) \/ DuplicateKill(v)
  BY <1>2, <1>3, <1>4, <1>11 DEF FinishKill, DuplicateKill
<1>12. CASE \E v \in WorkerIds : GoLate(v) \/ Heartbeat(v)
  BY <1>2, <1>4, <1>7, <1>12 DEF GoLate, Heartbeat
<1>13. CASE \E n \in 1..MaxWorkers : Scale(n)
  <2>1. PICK n \in 1..MaxWorkers : Scale(n)
    BY <1>13
  <2> DEFINE k == Lesser(n, MaxWorkers - AliveCount)
  <2>2. k \in Nat /\ reg' = SpawnUpTo(reg, k)
    BY <1>1, <2>1, RegistryCounts, SchedulerAssumption DEF Scale, Lesser, AliveCount, Alive
  <2> HIDE DEF k
  <2>3. Same(reg')
    BY <1>1, <2>2, SpawnKeeps DEF Same
  <2> QED  BY <1>2, <1>4, <2>3
<1> QED
  BY <1>8, <1>9, <1>10, <1>11, <1>12, <1>13

-----------------------------------------------------------------------------
(* The tasks.                                                              *)

\* A dispatch counts one job more for its worker, and adds one task.
LEMMA DispatchMatches ==
    ASSUME JobTypeOK, PoolInv, ReclaimInv, RunsNamed, [Next]_vars,
           NEW v \in WorkerIds, Dispatch(v), NEW w \in WorkerIds, Matches(w)
    PROVE  Matches(w)'
<1> DEFINE j == Head(queue.pending)
           new == [job |-> j, try |-> tries[j] + 1, worker |-> v, pc |-> "assigned"]
           n == Cardinality(RunsOn(w))
<1>1. runs' = runs \cup {new} /\ reg' = MarkAssigned(reg, v) /\ faults' = faults /\ j \in Jobs
  BY DequeueFacts DEF Dispatch, JobTypeOK
<1>2. new.worker = v /\ new.job = j /\ new.try = tries[j] + 1 /\ ActiveRun(new)
      /\ tries[j] \in Nat
  BY <1>1 DEF ActiveRun, JobTypeOK
<1>3. WellFormed(reg) /\ IsFiniteSet(runs)
  BY DEF PoolInv, PoolTypeOK, RunsNamed
<1>4. /\ reg.load \in [WorkerIds -> Nat] /\ reg.assigned \in [WorkerIds -> Nat]
      /\ reg'.load = [reg.load EXCEPT ![v] = @ + 1]
      /\ reg'.assigned = [reg.assigned EXCEPT ![v] = @ + 1]
      /\ reg'.completed = reg.completed
  BY <1>1, <1>3 DEF MarkAssigned, WellFormed, Registry
<1>5. n \in Nat /\ IsFiniteSet(RunsOn(w)) /\ reg.completed[w] \in Nat
  BY <1>3, CounterTypes
<1>6. new \notin runs
  BY <1>2 DEF RunsNamed, TriesOfRuns, JobTypeOK, Run
<1> HIDE DEF j, new
<1>7. CASE w = v
  <2>1. RunsOn(w)' = RunsOn(w) \cup {new} /\ new \notin RunsOn(w)
    BY <1>1, <1>2, <1>6, <1>7 DEF RunsOn
  <2>2. Cardinality(RunsOn(w))' = n + 1
    BY <1>5, <2>1, FS_AddElement
  <2>3. Alive' = Alive
    BY <1>1, <1>3, CounterFacts DEF Alive
  <2>4. /\ reg.load[w] \in Nat /\ reg.assigned[w] \in Nat
        /\ reg'.load[w] = reg.load[w] + 1 /\ reg'.assigned[w] = reg.assigned[w] + 1
        /\ reg'.completed[w] = reg.completed[w]
    BY <1>4, <1>7
  <2>5. /\ reg.assigned[w] = reg.completed[w] + n /\ reg.load[w] <= n
        /\ faults = 0 /\ w \in Alive => reg.load[w] = n
    BY DEF Matches
  <2> HIDE DEF n
  <2> QED  BY <1>1, <1>5, <2>2, <2>3, <2>4, <2>5 DEF Matches
<1>8. CASE w # v
  <2>1. RunsOn(w)' = RunsOn(w)
    BY <1>1, <1>2, <1>8 DEF RunsOn
  <2> QED  BY <1>1, <1>3, <1>4, <1>8, <2>1, MatchesFrame
<1> QED
  BY <1>7, <1>8

\* The creation of a task renames it in place: no worker gains or loses one.
LEMMA CreateKeepsCount ==
    ASSUME JobTypeOK, RunsNamed, CreateRun, NEW w \in WorkerIds
    PROVE  Cardinality(RunsOn(w))' = Cardinality(RunsOn(w))
<1> DEFINE Created(r) == [r EXCEPT !.pc = IF @ = "assigned" THEN "scanning" ELSE @]
           f == [r \in RunsOn(w) |-> Created(r)]
<1>1. runs' = {Created(r) : r \in runs}
  BY DEF CreateRun
<1>2. \A r \in runs : /\ Created(r).job = r.job /\ Created(r).try = r.try
                      /\ Created(r).worker = r.worker
                      /\ (ActiveRun(Created(r)) <=> ActiveRun(r))
  BY DEF JobTypeOK, Run, ActiveRun
<1>3. RunsOn(w) \in SUBSET runs /\ IsFiniteSet(RunsOn(w))
  <2>1. RunsOn(w) \in SUBSET runs
    BY DEF RunsOn
  <2> QED  BY <2>1, FS_Subset DEF RunsNamed
<1> HIDE DEF Created
<1>4. RunsOn(w)' = {Created(r) : r \in RunsOn(w)}
  BY <1>1, <1>2 DEF RunsOn
<1>5. f \in Bijection(RunsOn(w), RunsOn(w)')
  <2>1. f \in Surjection(RunsOn(w), RunsOn(w)')
    BY <1>4 DEF Surjection
  <2>2. \A r, q \in RunsOn(w) : f[r] = f[q] => r = q
    BY <1>2, <1>3 DEF RunsNamed, UniqueRuns
  <2> QED  BY <2>1, <2>2 DEF Bijection, Injection, Surjection, IsInjective
<1> QED
  BY <1>3, <1>5, FS_Bijection DEF ExistsBijection

\* A job done leaves its worker's active tasks, and its load unless that is 0 already.
LEMMA CompleteMatches ==
    ASSUME JobTypeOK, PoolInv, ReclaimInv, RunsNamed, [Next]_vars,
           NEW r \in runs, RunComplete(r), NEW w \in WorkerIds, Matches(w)
    PROVE  Matches(w)'
<1> DEFINE new == [r EXCEPT !.pc = "reporting"]
           n == Cardinality(RunsOn(w))
           v == r.worker
<1>1. runs' = (runs \ {r}) \cup {new} /\ reg' = MarkCompleted(reg, v) /\ faults' = faults
      /\ v \in WorkerIds
  BY DEF RunComplete, MoveRun, JobTypeOK, Run
<1>2. ActiveRun(r) /\ ~ActiveRun(new)
  BY DEF RunComplete, ActiveRun, JobTypeOK, Run
<1>3. WellFormed(reg) /\ IsFiniteSet(runs)
  BY DEF PoolInv, PoolTypeOK, RunsNamed
<1>4. /\ reg.load \in [WorkerIds -> Nat] /\ reg.completed \in [WorkerIds -> Nat]
      /\ reg'.load = [reg.load EXCEPT ![v] = Decrement(@)]
      /\ reg'.completed = [reg.completed EXCEPT ![v] = @ + 1]
      /\ reg'.assigned = reg.assigned
  BY <1>1, <1>3 DEF MarkCompleted, WellFormed, Registry
<1>5. n \in Nat /\ IsFiniteSet(RunsOn(w)) /\ reg.assigned[w] \in Nat
  BY <1>3, CounterTypes
<1> HIDE DEF new
<1>6. CASE w = v
  <2>1. RunsOn(w)' = RunsOn(w) \ {r} /\ r \in RunsOn(w)
    BY <1>1, <1>2, <1>6 DEF RunsOn
  <2>2. Cardinality(RunsOn(w))' = n - 1 /\ n - 1 \in Nat
    <3>1. Cardinality(RunsOn(w) \ {r}) \in Nat
      BY <1>5, FS_RemoveElement, FS_CardinalityType
    <3> QED  BY <1>5, <2>1, <3>1, FS_RemoveElement
  <2>3. Alive' = Alive
    BY <1>1, <1>3, CounterFacts DEF Alive
  <2>4. /\ reg.load[w] \in Nat /\ reg.completed[w] \in Nat
        /\ reg'.load[w] = Decrement(reg.load[w])
        /\ reg'.completed[w] = reg.completed[w] + 1 /\ reg'.assigned[w] = reg.assigned[w]
    BY <1>4, <1>6
  <2>5. /\ reg.assigned[w] = reg.completed[w] + n /\ reg.load[w] <= n
        /\ faults = 0 /\ w \in Alive => reg.load[w] = n
    BY DEF Matches
  <2> HIDE DEF n, v
  <2> QED  BY <1>1, <1>5, <2>2, <2>3, <2>4, <2>5 DEF Matches, Decrement
<1>7. CASE w # v
  <2>1. RunsOn(w)' = RunsOn(w)
    BY <1>1, <1>2, <1>7 DEF RunsOn, JobTypeOK, Run
  <2> QED  BY <1>1, <1>3, <1>4, <1>7, <2>1, MatchesFrame
<1> QED
  BY <1>6, <1>7

\* The steps of a task after queue.complete() change no count of active tasks, and the
\* one that lowers a load again is a report that raises.
LEMMA ReportMatches ==
    ASSUME JobTypeOK, PoolInv, ReclaimInv, RunsNamed, [Next]_vars, NEW r \in runs,
           RunReported(r) \/ RunRaises(r) \/ RunRequeue(r), NEW w \in WorkerIds, Matches(w)
    PROVE  Matches(w)'
<1>1. ~ActiveRun(r)
  BY DEF RunReported, RunRaises, RunRequeue, ActiveRun
<1>2. WellFormed(reg) /\ IsFiniteSet(runs) /\ r \in Run /\ r.worker \in WorkerIds
  BY DEF PoolInv, PoolTypeOK, RunsNamed, JobTypeOK, Run
<1>3. CASE RunReported(r) \/ RunRequeue(r)
  <2>1. RunsOn(w)' = RunsOn(w) /\ UNCHANGED <<reg, faults>>
    BY <1>1, <1>3 DEF RunReported, RunRequeue, RunsOn
  <2> QED  BY <1>2, <2>1, MatchesFrame
<1>4. CASE RunRaises(r)
  <2> DEFINE new == [r EXCEPT !.pc = "failing"]
             n == Cardinality(RunsOn(w))
             v == r.worker
  <2>1. runs' = (runs \ {r}) \cup {new} /\ reg' = MarkFailed(reg, v) /\ faults' # 0
    BY <1>4, SchedulerAssumption DEF RunRaises, MoveRun, JobTypeOK
  <2>2. ~ActiveRun(new)
    BY <1>2 DEF ActiveRun, Run
  <2> HIDE DEF new
  <2>3. RunsOn(w)' = RunsOn(w)
    BY <1>1, <2>1, <2>2 DEF RunsOn
  <2>4. /\ reg.load \in [WorkerIds -> Nat]
        /\ reg'.load = [reg.load EXCEPT ![v] = Decrement(@)]
        /\ reg'.completed = reg.completed /\ reg'.assigned = reg.assigned
    BY <1>2, <2>1 DEF MarkFailed, WellFormed, Registry
  <2>5. reg.load[w] \in Nat /\ reg'.load[w] \in Nat /\ reg'.load[w] <= reg.load[w]
    BY <1>2, <2>4 DEF Decrement
  <2>6. n \in Nat /\ reg.assigned[w] = reg.completed[w] + n /\ reg.load[w] <= n
    BY <1>2, CounterTypes DEF Matches
  <2> HIDE DEF n
  <2> QED  BY <2>1, <2>3, <2>4, <2>5, <2>6 DEF Matches, n
<1> QED
  BY <1>3, <1>4

LEMMA MatchesStep ==
    ASSUME JobTypeOK, PoolInv, ReclaimInv, RunsNamed, [Next]_vars,
           NEW w \in WorkerIds, Matches(w)
    PROVE  Matches(w)'
<1>1. IsFiniteSet(runs)
  BY DEF RunsNamed
<1>2. CASE EnqueueJob \/ SelectAndBlock \/ UNCHANGED vars
  <2>1. UNCHANGED <<reg, runs, faults>> /\ RunsOn(w)' = RunsOn(w)
    BY <1>2 DEF EnqueueJob, SelectAndBlock, vars, RunsOn
  <2> QED  BY <1>1, <2>1, MatchesFrame
<1>3. CASE SelectAndDispatch \/ WakeAndDispatch
  BY <1>3, DispatchMatches DEF SelectAndDispatch, WakeAndDispatch, JobTypeOK
<1>4. CASE CreateRun
  <2>1. UNCHANGED <<reg, faults>>
    BY <1>4 DEF CreateRun
  <2> QED  BY <1>1, <1>4, <2>1, CreateKeepsCount, MatchesFrame
<1>5. ASSUME NEW r \in runs, RunStep(r) PROVE Matches(w)'
  BY <1>5, CompleteMatches, ReportMatches DEF RunStep
<1>6. CASE \/ MonitorPass \/ MonitorResume
           \/ \E v \in WorkerIds : \/ Kill(v) \/ FinishKill(v) \/ DuplicateKill(v)
                                   \/ GoLate(v) \/ Heartbeat(v)
           \/ \E n \in 1..MaxWorkers : Scale(n)
  <2>1. /\ reg'.assigned[w] = reg.assigned[w] /\ reg'.completed[w] = reg.completed[w]
        /\ reg'.load[w] = reg.load[w] \/ (reg'.load[w] = 0 /\ w \notin Alive')
        /\ runs' = runs /\ faults' = faults
    BY <1>6, PoolCounters
  <2>2. RunsOn(w)' = RunsOn(w)
    BY <2>1 DEF RunsOn
  <2> QED  BY <1>1, <2>1, <2>2, MatchesFrame
<1> QED
  BY <1>2, <1>3, <1>4, <1>5, <1>6 DEF Next

(***************************************************************************)
(* The counters of worker_registry.py agree with the _run_job tasks: jobs  *)
(* assigned are those completed plus those under way; the load never       *)
(* exceeds the latter, and equals it on an alive worker until the except   *)
(* branch of _run_job (dispatcher.py) lowers it a second time.             *)
(***************************************************************************)
THEOREM LoadsAreCounted == Spec => []LoadMatchesRuns
<1>1. Init => RunsNamed /\ LoadMatchesRuns
  <2> SUFFICES ASSUME Init PROVE RunsNamed /\ LoadMatchesRuns
    OBVIOUS
  <2>1. RunsNamed
    BY FS_EmptySet DEF Init, RunsNamed, UniqueRuns, TriesOfRuns
  <2>2. WellFormed(EmptyRegistry) /\ reg = SpawnUpTo(EmptyRegistry, InitialWorkers)
        /\ InitialWorkers \in Nat
    BY EmptyRegistryFacts, SchedulerAssumption DEF Init
  <2>3. \A w \in WorkerIds : reg.load[w] = 0 /\ reg.assigned[w] = 0 /\ reg.completed[w] = 0
    BY <2>2, SpawnKeeps DEF EmptyRegistry
  <2>4. \A w \in WorkerIds : RunsOn(w) = {}
    BY DEF Init, RunsOn
  <2>5. \A w \in WorkerIds : Cardinality(RunsOn(w)) = 0
    BY <2>4, FS_EmptySet
  <2> QED  BY <2>1, <2>3, <2>5 DEF LoadMatchesRuns
<1>2. IInv /\ ReclaimInv /\ RunsNamed /\ LoadMatchesRuns /\ [Next]_vars
         => RunsNamed' /\ LoadMatchesRuns'
  <2> SUFFICES ASSUME IInv, ReclaimInv, RunsNamed, LoadMatchesRuns, [Next]_vars
               PROVE  RunsNamed' /\ LoadMatchesRuns'
    OBVIOUS
  <2>1. JobTypeOK /\ PoolInv
    BY DEF IInv, TypeOK, PoolInv
  <2>2. \A w \in WorkerIds : Matches(w)
    BY DEF LoadMatchesRuns, Matches
  <2>3. \A w \in WorkerIds : Matches(w)'
    BY <2>1, <2>2, MatchesStep
  <2>4. LoadMatchesRuns'
    BY <2>3 DEF LoadMatchesRuns, Matches
  <2> QED  BY <2>1, <2>4, RunsNamedStep
<1> QED
  BY <1>1, <1>2, InductiveInvariant, ReclaimInvariant, PTL DEF Spec
=============================================================================
