------------------------ MODULE RedisSchedulerProofs ------------------------
(***************************************************************************)
(* Proofs about schedulers on Redis, for every number of jobs, crashes,    *)
(* outages, worker deaths and failed reports, whenever processes start:    *)
(*   - with any number of processes, no job is lost and JobService is      *)
(*     implemented, while none of them crashes and Redis stays up;         *)
(*   - types, with any number of processes;                                *)
(*   - with a single process, what is in the in-flight hash, how many jobs *)
(*     can be lost, and how many copies of one the list can hold.          *)
(***************************************************************************)
EXTENDS RedisScheduler, SequenceTheorems, FiniteSetTheorems, TLAPS

\* An element of a sequence of jobs is a job; a one-element sequence has one.
LEMMA ElementsType ==
    /\ \A s \in Seq(Jobs) : Elements(s) \subseteq Jobs
    /\ \A j \in Jobs : <<j>> \in Seq(Jobs) /\ Elements(<<j>>) = {j}
BY DEF Elements

\* Appending a sequence of jobs adds its elements.
LEMMA ConcatElements ==
    ASSUME NEW s \in Seq(Jobs), NEW t \in Seq(Jobs)
    PROVE  s \o t \in Seq(Jobs) /\ Elements(s \o t) = Elements(s) \cup Elements(t)
<1>1. s \o t \in Seq(Jobs)   OBVIOUS
<1>2. Range(s \o t) = Range(s) \cup Range(t)   BY RangeConcatenation
<1>3. \A u \in Seq(Jobs) : Range(u) = Elements(u)   BY RangeEquality, Zenon DEF Elements
<1> QED  BY <1>1, <1>2, <1>3

\* RPUSH adds one element.
LEMMA AppendElements ==
    ASSUME NEW s \in Seq(Jobs), NEW j \in Jobs
    PROVE  Append(s, j) \in Seq(Jobs) /\ Elements(Append(s, j)) = Elements(s) \cup {j}
<1>1. Append(s, j) = s \o <<j>>   BY AppendIsConcat
<1>2. <<j>> \in Seq(Jobs) /\ Elements(<<j>>) = {j}   BY ElementsType
<1> QED  BY <1>1, <1>2, ConcatElements

\* BLPOP takes one copy of the head.
LEMMA TailElements ==
    ASSUME NEW s \in Seq(Jobs), s # << >>
    PROVE  /\ Head(s) \in Jobs /\ Head(s) \in Elements(s) /\ Tail(s) \in Seq(Jobs)
           /\ Elements(s) = Elements(Tail(s)) \cup {Head(s)}
<1>1. Head(s) \in Jobs /\ Tail(s) \in Seq(Jobs) /\ Head(s) = s[1]   BY HeadTailProperties
<1>2. s = <<Head(s)>> \o Tail(s)   BY <1>1, SeqEqual
<1>3. <<Head(s)>> \in Seq(Jobs) /\ Elements(<<Head(s)>>) = {Head(s)}   BY <1>1, ElementsType
<1>4. Elements(s) = Elements(<<Head(s)>>) \cup Elements(Tail(s))   BY <1>1, <1>2, <1>3, ConcatElements
<1> QED  BY <1>1, <1>3, <1>4

\* Every order in which reclaimed jobs may come is a sequence of just those.
LEMMA OrderingsType ==
    ASSUME NEW S \in SUBSET Jobs, NEW s \in Orderings(S)
    PROVE  s \in Seq(Jobs) /\ Elements(s) = S
<1>1. PICK n \in 0..MaxJobs : s \in [1..n -> S]   BY DEF Orderings
<1>2. n \in Nat /\ s \in [1..n -> Jobs]   BY <1>1, MaxJobsAssumption
<1>3. s \in Seq(Jobs)   BY <1>2, SeqDef
<1> QED  BY <1>3 DEF Orderings

\* The types that matter: a dispatcher holds a job only between BLPOP and the creation
\* of its task, and the jobs of the hash, of a snapshot and of the tasks are jobs.
Task(r) == r \in [proc: Procs, job: Jobs, try: {r.try}, worker: {r.worker}, pc: RunPc]

JobTypes ==
    /\ pending \in Seq(Jobs) /\ inflight \subseteq Jobs /\ submitted \in 0..MaxJobs
    /\ \A r \in runs : Task(r)
    /\ completing \in [Procs -> SUBSET Jobs]
    /\ {crashes, outages} \subseteq Nat

ProcTypes ==
    /\ snap \in [Procs -> SUBSET Jobs] /\ pushed \in [Procs -> Jobs \cup {None}]
    /\ held \in [Procs -> Jobs \cup {None}] /\ dpc \in [Procs -> DispatchPc]
    /\ \A p \in Procs : held[p] # None <=> dpc[p] \in {"tracking", "reporting"}

Types == JobTypes /\ ProcTypes

(***************************************************************************)
(* A job that is kept is found without the in-flight hash, which any       *)
(* process may change: whoever takes an entry out of it pushed the job     *)
(* before, or has recorded it or is about to.                              *)
(***************************************************************************)
Kept(j) ==
    \/ j \in Elements(pending) \/ j \in completed
    \/ \E r \in runs : r.job = j
    \/ \E p \in Procs : j \in completing[p] \/ held[p] = j

Calm == crashes = 0 /\ outages = 0

KeptInv ==
    Calm => /\ up
            /\ \A j \in 1..submitted : Kept(j)
            /\ \A r \in runs : r.pc # "scanning"
                  => r.job \in completed \/ r.job \in completing[r.proc]

-----------------------------------------------------------------------------
(* Types.                                                                  *)

LEMMA JobTypesStep == Types /\ [Next]_vars => JobTypes'
<1> SUFFICES ASSUME Types, [Next]_vars PROVE JobTypes'
  OBVIOUS
<1>1. /\ pending \in Seq(Jobs) /\ inflight \subseteq Jobs /\ submitted \in 0..MaxJobs
      /\ \A r \in runs : Task(r) /\ r.job \in Jobs /\ r.proc \in Procs
      /\ completing \in [Procs -> SUBSET Jobs] /\ crashes \in Nat /\ outages \in Nat
  BY DEF Types, JobTypes, Task
<1>2. ASSUME UNCHANGED <<runs, completing, crashes, outages>>, pending' \in Seq(Jobs),
             inflight' \subseteq Jobs, submitted' \in 0..MaxJobs
      PROVE  JobTypes'
  BY <1>1, <1>2 DEF JobTypes
<1>3. ASSUME NEW r \in runs, NEW pc \in RunPc, MoveRun(r, pc) PROVE \A q \in runs' : Task(q)
  BY <1>1, <1>3 DEF MoveRun, Task
<1>4. ASSUME NEW r \in runs, RunStep(r) PROVE JobTypes'
  <2>1. \A q \in runs' : Task(q)
    BY <1>1, <1>3, <1>4 DEF RunStep, RunComplete, RunReported, RunRaises, RequeueDelete,
                            RequeuePush, RequeueFails, RunPc
  <2>2. pending' \in Seq(Jobs)
    BY <1>1, <1>4, AppendElements
    DEF RunStep, RunComplete, RunReported, RunRaises, RequeueDelete, RequeuePush,
        RequeueFails, redisVars
  <2>3. inflight' \subseteq Jobs /\ completing' \in [Procs -> SUBSET Jobs]
        /\ UNCHANGED <<submitted, crashes, outages>>
    BY <1>1, <1>4 DEF RunStep, RunComplete, RunReported, RunRaises, RequeueDelete,
                      RequeuePush, RequeueFails, redisVars, counters
  <2> QED  BY <1>1, <2>1, <2>2, <2>3 DEF JobTypes
<1>5. ASSUME NEW p \in Procs, CreateRun(p) PROVE JobTypes'
  <2> DEFINE new == [proc |-> p, job |-> held[p], try |-> tries[held[p]],
                     worker |-> candidate[p], pc |-> "scanning"]
  <2>1. held[p] \in Jobs
    BY <1>5 DEF CreateRun, Types, ProcTypes
  <2>2. runs' = runs \cup {new} /\ Task(new)
    BY <1>5, <2>1 DEF CreateRun, Task, RunPc
  <2> HIDE DEF new
  <2>3. UNCHANGED <<pending, inflight, submitted, completing, crashes, outages>>
    BY <1>5 DEF CreateRun, redisVars, counters
  <2> QED  BY <1>1, <2>2, <2>3 DEF JobTypes
<1>6. ASSUME NEW p \in Procs, NEW j \in Jobs, CompleteAsync(p, j) PROVE JobTypes'
  BY <1>1, <1>6 DEF CompleteAsync, JobTypes, counters
<1>7. ASSUME NEW p \in Procs, WorkerDies(p) PROVE JobTypes'
  <2> DEFINE mine == {j \in inflight : StoredWorker(j) = worker[p]}
  <2>1. pending' \in Seq(Jobs) /\ inflight' \subseteq Jobs
    <3>1. CASE up
      <4>1. PICK s \in Orderings(mine) : pending' = pending \o s
        BY <1>7, <3>1 DEF WorkerDies
      <4>2. s \in Seq(Jobs)
        BY <1>1, OrderingsType
      <4> QED  BY <1>1, <1>7, <3>1, <4>1, <4>2, ConcatElements DEF WorkerDies
    <3>2. CASE ~up
      BY <1>1, <1>7, <3>2 DEF WorkerDies
    <3> QED  BY <3>1, <3>2
  <2> QED  BY <1>1, <1>2, <1>7, <2>1 DEF WorkerDies
<1>8. ASSUME NEW p \in Procs, Crash(p) PROVE JobTypes'
  BY <1>1, <1>8 DEF Crash, JobTypes, redisVars
<1>9. CASE EnqueueJob
  <2>1. submitted + 1 \in Jobs /\ submitted' = submitted + 1
    BY <1>1, <1>9, MaxJobsAssumption DEF EnqueueJob, Jobs
  <2>2. pending' \in Seq(Jobs)
    BY <1>1, <1>9, <2>1, AppendElements DEF EnqueueJob
  <2>3. submitted' \in 0..MaxJobs
    BY <2>1, MaxJobsAssumption DEF Jobs
  <2> QED  BY <1>1, <1>2, <1>9, <2>2, <2>3 DEF EnqueueJob, counters
<1>10. ASSUME NEW p \in Procs, ReclaimPush(p) \/ Pop(p) \/ Track(p) PROVE JobTypes'
  <2>1. pending' \in Seq(Jobs)
    <3>1. CASE ReclaimPush(p)
      BY <1>1, <3>1, AppendElements DEF ReclaimPush, Types, ProcTypes
    <3>2. CASE Pop(p)
      BY <1>1, <3>2, TailElements DEF Pop
    <3>3. CASE Track(p)
      BY <1>1, <3>3 DEF Track
    <3> QED  BY <1>10, <3>1, <3>2, <3>3
  <2>2. inflight' \subseteq Jobs
    BY <1>1, <1>10 DEF ReclaimPush, Pop, Track, Types, ProcTypes
  <2> QED  BY <1>1, <1>2, <1>10, <2>1, <2>2 DEF ReclaimPush, Pop, Track, counters
<1>11. CASE \/ \E p \in Procs : \/ Start(p) \/ ReclaimDelete(p) \/ ReclaimFails(p)
                                \/ Select(p) \/ DispatcherEnds(p)
            \/ UNCHANGED vars
  BY <1>1, <1>2, <1>11 DEF Start, ReclaimDelete, ReclaimFails, Select, DispatcherEnds, vars,
                           redisVars, counters
<1>12. CASE Outage \/ Recovery
  BY <1>1, <1>12 DEF Outage, Recovery, JobTypes, redisVars, counters
<1> QED
  BY <1>4, <1>5, <1>6, <1>7, <1>8, <1>9, <1>10, <1>11, <1>12 DEF Next

LEMMA ProcTypesStep == Types /\ [Next]_vars => ProcTypes'
<1> SUFFICES ASSUME Types, [Next]_vars PROVE ProcTypes'
  OBVIOUS
<1>1. /\ inflight \subseteq Jobs /\ pending \in Seq(Jobs) /\ None \notin Jobs
  BY RedisAssumption DEF Types, JobTypes
<1>2. ASSUME UNCHANGED <<held, dpc>>, snap' \in [Procs -> SUBSET Jobs],
             pushed' \in [Procs -> Jobs \cup {None}]
      PROVE  ProcTypes'
  BY <1>2 DEF Types, ProcTypes
<1>3. ASSUME NEW p \in Procs, UNCHANGED <<snap, pushed>>, NEW h \in Jobs \cup {None},
             NEW pc \in DispatchPc, held' = [held EXCEPT ![p] = h],
             dpc' = [dpc EXCEPT ![p] = pc],
             h # None <=> pc \in {"tracking", "reporting"}
      PROVE  ProcTypes'
  BY <1>3 DEF Types, ProcTypes
<1>4. ASSUME NEW p \in Procs, Start(p) \/ ReclaimPush(p) \/ ReclaimDelete(p) \/ ReclaimFails(p)
      PROVE  ProcTypes'
  <2>1. UNCHANGED <<held, dpc>>
    BY <1>4 DEF Start, ReclaimPush, ReclaimDelete, ReclaimFails, dispatchVars
  <2>2. snap' \in [Procs -> SUBSET Jobs]
    BY <1>1, <1>4 DEF Start, ReclaimPush, ReclaimDelete, ReclaimFails, Types, ProcTypes
  <2>3. pushed' \in [Procs -> Jobs \cup {None}]
    BY <1>4 DEF Start, ReclaimPush, ReclaimDelete, ReclaimFails, Types, ProcTypes
  <2> QED  BY <1>2, <2>1, <2>2, <2>3
<1>5. ASSUME NEW p \in Procs, Pop(p) PROVE ProcTypes'
  <2>1. Head(pending) \in Jobs
    BY <1>1, <1>5, TailElements DEF Pop
  <2> QED  BY <1>1, <1>3, <1>5, <2>1 DEF Pop, startVars, DispatchPc
<1>6. ASSUME NEW p \in Procs, CreateRun(p) \/ DispatcherEnds(p) PROVE ProcTypes'
  BY <1>3, <1>6 DEF CreateRun, DispatcherEnds, startVars, DispatchPc
<1>7. ASSUME NEW p \in Procs, Select(p) \/ Track(p) PROVE ProcTypes'
  BY <1>7 DEF Select, Track, startVars, DispatchPc, Types, ProcTypes
<1>8. ASSUME NEW p \in Procs, Crash(p) PROVE ProcTypes'
  BY <1>8 DEF Crash, DispatchPc, Types, ProcTypes
<1>9. CASE \/ \E p \in Procs : WorkerDies(p) \/ \E j \in Jobs : CompleteAsync(p, j)
           \/ \E r \in runs : RunStep(r)
           \/ EnqueueJob \/ Outage \/ Recovery \/ UNCHANGED vars
  <2>1. UNCHANGED <<held, dpc, snap, pushed>>
    BY <1>9 DEF WorkerDies, CompleteAsync, RunStep, RunComplete, RunReported, RunRaises,
                RequeueDelete, RequeuePush, RequeueFails, EnqueueJob, Outage, Recovery, vars,
                startVars, dispatchVars
  <2> QED  BY <2>1 DEF Types, ProcTypes
<1> QED
  BY <1>4, <1>5, <1>6, <1>7, <1>8, <1>9 DEF Next

-----------------------------------------------------------------------------
(* No job is dropped.                                                      *)

LEMMA KeptFrame ==
    ASSUME Types, KeptInv, Calm => up',
           \A j \in Jobs : Kept(j) => Kept(j)',
           Calm' => Calm, UNCHANGED submitted,
           Calm => \A r \in runs' : r.pc # "scanning"
                      => r.job \in completed' \/ r.job \in completing'[r.proc]
    PROVE  KeptInv'
<1> SUFFICES ASSUME Calm' PROVE up' /\ \A j \in 1..submitted' : Kept(j)'
  BY DEF KeptInv
<1>1. Calm /\ up'
  OBVIOUS
<1>2. 1..submitted \subseteq Jobs
  BY MaxJobsAssumption DEF Types, JobTypes, Jobs
<1> QED
  BY <1>1, <1>2 DEF KeptInv

\* The steps that only move a job between the places where it counts as kept.
LEMMA KeptMoves ==
    ASSUME Types, KeptInv, Calm, NEW p \in Procs,
           ReclaimDelete(p) \/ Pop(p) \/ Track(p) \/ CreateRun(p) \/ DispatcherEnds(p)
    PROVE  KeptInv'
<1>1. /\ up /\ pending \in Seq(Jobs) /\ None \notin Jobs
      /\ \A r \in runs :
            r.pc # "scanning" => r.job \in completed \/ r.job \in completing[r.proc]
  BY RedisAssumption DEF KeptInv, Types, JobTypes
<1>2. CASE ReclaimDelete(p)
  <2>1. UNCHANGED <<pending, completed, runs, completing, held, submitted, up, crashes, outages>>
    BY <1>2 DEF ReclaimDelete, dispatchVars, counters
  <2>2. \A j \in Jobs : Kept(j)' <=> Kept(j)
    BY <2>1 DEF Kept
  <2> QED  BY <1>1, <2>1, <2>2, KeptFrame DEF Calm
<1>3. CASE Pop(p)
  <2>1. /\ UNCHANGED <<completed, runs, completing, submitted, up>>
        /\ held' = [held EXCEPT ![p] = Head(pending)] /\ pending' = Tail(pending)
        /\ pending # << >> /\ dpc[p] = "popping" /\ UNCHANGED <<crashes, outages>>
    BY <1>3 DEF Pop, counters
  <2>2. Elements(pending) = Elements(pending') \cup {held'[p]}
    BY <1>1, <2>1, TailElements DEF Types, ProcTypes
  <2>3. \A q \in Procs, j \in Jobs : held[q] = j => held'[q] = j
    BY <1>1, <2>1 DEF Types, ProcTypes
  <2>4. \A j \in Jobs : Kept(j) => Kept(j)'
    BY <2>1, <2>2, <2>3 DEF Kept
  <2> QED  BY <1>1, <2>1, <2>4, KeptFrame DEF Calm
<1>4. CASE Track(p)
  <2>1. UNCHANGED <<pending, completed, runs, completing, held, submitted, up, crashes, outages>>
    BY <1>4 DEF Track, counters
  <2>2. \A j \in Jobs : Kept(j) => Kept(j)'
    BY <2>1 DEF Kept
  <2> QED  BY <1>1, <2>1, <2>2, KeptFrame DEF Calm
<1>5. CASE CreateRun(p)
  <2> DEFINE new == [proc |-> p, job |-> held[p], try |-> tries[held[p]],
                     worker |-> candidate[p], pc |-> "scanning"]
  <2>1. /\ UNCHANGED <<pending, completed, completing, submitted, up, crashes, outages>>
        /\ runs' = runs \cup {new} /\ held' = [held EXCEPT ![p] = None]
    BY <1>5 DEF CreateRun, redisVars, counters
  <2>2. new.job = held[p] /\ new.pc = "scanning"
    OBVIOUS
  <2> HIDE DEF new
  <2>3. \A q \in Procs : held'[q] = held[q] \/ held[q] = new.job
    BY <2>1, <2>2 DEF Types, ProcTypes
  <2>4. \A j \in Jobs : Kept(j) => Kept(j)'
    BY <2>1, <2>3 DEF Kept
  <2> QED  BY <1>1, <2>1, <2>2, <2>4, KeptFrame DEF Calm
<1>6. CASE DispatcherEnds(p)
  BY <1>1, <1>6 DEF DispatcherEnds
<1> QED
  BY <1>2, <1>3, <1>4, <1>5, <1>6

\* A task that has called complete() may end, as its job is recorded or about to be.
LEMMA KeptByTasks ==
    ASSUME Types, KeptInv, Calm, NEW r \in runs, RunStep(r)
    PROVE  KeptInv'
<1>1. /\ up /\ pending \in Seq(Jobs) /\ r.job \in Jobs /\ r.proc \in Procs
      /\ \A q \in runs : Task(q)
      /\ completing \in [Procs -> SUBSET Jobs]
      /\ \A q \in runs :
            q.pc # "scanning" => q.job \in completed \/ q.job \in completing[q.proc]
  BY DEF KeptInv, Types, JobTypes, Task
<1>2. UNCHANGED <<completed, held, submitted, up, crashes, outages>>
  BY DEF RunStep, RunComplete, RunReported, RunRaises, RequeueDelete, RequeuePush,
         RequeueFails, redisVars, dispatchVars, counters
<1>3. /\ \A j \in Elements(pending) : j \in Elements(pending')
      /\ \A q \in Procs : completing[q] \subseteq completing'[q]
  <2>1. CASE RequeuePush(r)
    BY <1>1, <2>1, AppendElements DEF RequeuePush
  <2>2. CASE ~RequeuePush(r)
    BY <1>1, <2>2 DEF RunStep, RunComplete, RunReported, RunRaises, RequeueDelete,
                      RequeueFails, redisVars
  <2> QED  BY <2>1, <2>2
<1>4. ASSUME NEW pc, MoveRun(r, pc), r.job \in completed \/ r.job \in completing'[r.proc]
      PROVE  KeptInv'
  <2> DEFINE new == [r EXCEPT !.pc = pc]
  <2>1. runs' = (runs \ {r}) \cup {new} /\ new.job = r.job /\ new.proc = r.proc
    BY <1>1, <1>4 DEF MoveRun, Task
  <2> HIDE DEF new
  <2>2. \A j \in Jobs : Kept(j) => Kept(j)'
    BY <1>2, <1>3, <2>1 DEF Kept
  <2>3. \A q \in runs' : q.pc # "scanning"
                            => q.job \in completed' \/ q.job \in completing'[q.proc]
    BY <1>1, <1>2, <1>3, <1>4, <2>1 DEF Task
  <2> QED  BY <1>1, <1>2, <2>2, <2>3, KeptFrame DEF Calm
<1>5. ASSUME r.pc # "scanning", runs' = runs \ {r} PROVE KeptInv'
  <2>1. r.job \in completed' \/ r.job \in completing'[r.proc]
    BY <1>1, <1>2, <1>3, <1>5
  <2>2. \A j \in Jobs : Kept(j) => Kept(j)'
    BY <1>1, <1>2, <1>3, <1>5, <2>1 DEF Kept
  <2>3. \A q \in runs' : q.pc # "scanning"
                            => q.job \in completed' \/ q.job \in completing'[q.proc]
    BY <1>1, <1>2, <1>3, <1>5 DEF Task
  <2> QED  BY <1>1, <1>2, <1>5, <2>2, <2>3, KeptFrame DEF Calm
<1>6. CASE RunComplete(r)
  BY <1>1, <1>4, <1>6 DEF RunComplete
<1>7. CASE RunReported(r)
  BY <1>5, <1>7 DEF RunReported
<1>8. CASE RunRaises(r)
  BY <1>1, <1>4, <1>8 DEF RunRaises
<1>9. CASE RequeueDelete(r)
  BY <1>1, <1>4, <1>9 DEF RequeueDelete
<1>10. CASE RequeuePush(r)
  BY <1>5, <1>10 DEF RequeuePush
<1>11. CASE RequeueFails(r)
  BY <1>1, <1>11 DEF RequeueFails
<1> QED
  BY <1>6, <1>7, <1>8, <1>9, <1>10, <1>11 DEF RunStep

\* What is pushed onto the list is kept, and so is what is recorded.
LEMMA KeptStep == Types /\ KeptInv /\ [Next]_vars => KeptInv'
<1> SUFFICES ASSUME Types, KeptInv, [Next]_vars, Calm' PROVE KeptInv'
  BY DEF KeptInv
<1>1. crashes \in Nat /\ outages \in Nat /\ pending \in Seq(Jobs) /\ inflight \subseteq Jobs
      /\ 1..submitted \subseteq Jobs /\ completing \in [Procs -> SUBSET Jobs] /\ \A r \in runs : Task(r)
  BY MaxJobsAssumption DEF Types, JobTypes, Jobs
<1>2. CASE ~Calm
  BY <1>1, <1>2 DEF Calm, Next, vars, counters, Start, ReclaimPush, ReclaimDelete,
     ReclaimFails, Select, Pop, Track, CreateRun, DispatcherEnds, WorkerDies, Crash,
     CompleteAsync, RunStep, RunComplete, RunReported, RunRaises, RequeueDelete, RequeuePush,
     RequeueFails, EnqueueJob, Outage, Recovery
<1> SUFFICES ASSUME Calm PROVE KeptInv'
  BY <1>2
<1>3. /\ up
      /\ \A j \in 1..submitted : Kept(j)
      /\ \A r \in runs :
            r.pc # "scanning" => r.job \in completed \/ r.job \in completing[r.proc]
  BY DEF KeptInv
<1>4. ASSUME UNCHANGED <<completed, runs, completing, held, up>>,
             Elements(pending) \subseteq Elements(pending')
      PROVE  /\ \A j \in Jobs : Kept(j) => Kept(j)'
             /\ \A r \in runs' : r.pc # "scanning"
                   => r.job \in completed' \/ r.job \in completing'[r.proc]
  BY <1>3, <1>4 DEF Kept
<1>5. ASSUME NEW p \in Procs, ReclaimPush(p) PROVE KeptInv'
  <2>1. PICK j \in snap[p] : pending' = Append(pending, j)
    BY <1>5 DEF ReclaimPush
  <2>2. j \in Jobs /\ Elements(pending') = Elements(pending) \cup {j}
    BY <1>1, <2>1, AppendElements DEF Types, ProcTypes
  <2>3. UNCHANGED <<completed, runs, completing, held, up, submitted, crashes, outages>>
    BY <1>5 DEF ReclaimPush, dispatchVars, counters
  <2> QED  BY <1>3, <1>4, <2>2, <2>3, KeptFrame DEF Calm
<1>6. CASE EnqueueJob
  <2> DEFINE n == submitted + 1
  <2>1. /\ n \in Jobs /\ submitted' = n /\ 1..submitted' = (1..submitted) \cup {n}
        /\ 1..submitted \subseteq Jobs /\ pending' = Append(pending, n)
    BY <1>6, MaxJobsAssumption DEF EnqueueJob, Types, JobTypes, Jobs
  <2> HIDE DEF n
  <2>2. Elements(pending') = Elements(pending) \cup {n}
    BY <1>1, <2>1, AppendElements
  <2>3. UNCHANGED <<completed, runs, completing, held, up>>
    BY <1>6 DEF EnqueueJob, dispatchVars
  <2>4. \A i \in Jobs : Kept(i) \/ i = n => Kept(i)'
    BY <1>4, <2>2, <2>3 DEF Kept
  <2> QED  BY <1>3, <1>4, <2>1, <2>2, <2>3, <2>4 DEF KeptInv
<1>7. ASSUME NEW p \in Procs, WorkerDies(p) PROVE KeptInv'
  <2> DEFINE mine == {j \in inflight : StoredWorker(j) = worker[p]}
  <2>1. UNCHANGED <<completed, runs, completing, held, up, submitted, crashes, outages>>
    BY <1>7 DEF WorkerDies, dispatchVars
  <2>2. PICK s \in Orderings(mine) : pending' = pending \o s
    BY <1>3, <1>7 DEF WorkerDies
  <2>3. s \in Seq(Jobs) /\ Elements(s) = mine
    BY <1>1, OrderingsType
  <2>4. Elements(pending') = Elements(pending) \cup mine
    BY <1>1, <2>2, <2>3, ConcatElements
  <2> HIDE DEF mine
  <2> QED  BY <1>3, <1>4, <2>1, <2>4, KeptFrame DEF Calm
<1>8. ASSUME NEW p \in Procs, NEW j \in Jobs, CompleteAsync(p, j) PROVE KeptInv'
  <2>1. /\ UNCHANGED <<pending, runs, held, up, submitted, crashes, outages>>
        /\ completing' = [completing EXCEPT ![p] = @ \ {j}]
        /\ completed' = completed \cup {j}
    BY <1>3, <1>8 DEF CompleteAsync, dispatchVars, counters
  <2>2. \A q \in Procs, i \in Jobs : i \in completing[q] => i \in completing'[q] \/ i = j
    BY <1>1, <2>1
  <2>3. \A i \in Jobs : Kept(i) => Kept(i)'
    BY <2>1, <2>2 DEF Kept
  <2>4. \A r \in runs' : r.pc # "scanning"
                            => r.job \in completed' \/ r.job \in completing'[r.proc]
    BY <1>1, <1>3, <2>1, <2>2 DEF Task
  <2> QED  BY <1>3, <2>1, <2>3, <2>4, KeptFrame DEF Calm
<1>9. CASE \/ \E p \in Procs : Start(p) \/ Select(p) \/ ReclaimFails(p)
           \/ UNCHANGED vars
  <2>1. UNCHANGED <<redisVars, runs, completing, held, up, submitted, crashes, outages>>
    BY <1>3, <1>9 DEF Start, Select, ReclaimFails, vars, dispatchVars, counters
  <2> QED  BY <1>3, <1>4, <2>1, KeptFrame DEF Calm, redisVars
<1>10. CASE Outage \/ Recovery \/ \E p \in Procs : Crash(p)
  BY <1>1, <1>3, <1>10 DEF Outage, Recovery, Crash, Calm
<1>11. CASE \E p \in Procs : \/ ReclaimDelete(p) \/ Pop(p) \/ Track(p) \/ CreateRun(p)
                             \/ DispatcherEnds(p)
  BY <1>11, KeptMoves
<1>12. CASE \E r \in runs : RunStep(r)
  BY <1>12, KeptByTasks
<1> QED
  BY <1>5, <1>6, <1>7, <1>8, <1>9, <1>10, <1>11, <1>12 DEF Next

(***************************************************************************)
(* While no scheduler crashes and Redis stays up, RedisJobQueue loses no   *)
(* job, however many schedulers share it, and although reclaim_inflight    *)
(* and requeue take a job from the hash and put it on the list in two      *)
(* separate calls (job_queue.py).                                          *)
(***************************************************************************)
THEOREM NothingIsLost == Spec => []NoSilentLoss
<1>1. Init => Types /\ KeptInv
  <2> SUFFICES ASSUME Init PROVE Types /\ KeptInv
    OBVIOUS
  <2>1. JobTypes
    BY MaxJobsAssumption DEF Init, JobTypes
  <2>2. ProcTypes
    BY DEF Init, ProcTypes, DispatchPc
  <2>3. KeptInv
    BY RedisAssumption DEF Init, KeptInv
  <2> QED  BY <2>1, <2>2, <2>3 DEF Types
<1>2. Types /\ KeptInv /\ [Next]_vars => Types' /\ KeptInv'
  BY JobTypesStep, ProcTypesStep, KeptStep DEF Types
<1>3. ASSUME Types, KeptInv PROVE NoSilentLoss
  <2> SUFFICES ASSUME Calm PROVE Lost = {}
    BY DEF NoSilentLoss, Calm
  <2>1. ASSUME NEW j \in 1..submitted, Kept(j)
        PROVE  j \in Elements(pending) \cup completed \/ \E p \in Procs : j \in InHand(p)
    <3>1. j # None
      BY <1>3, MaxJobsAssumption, RedisAssumption DEF Types, JobTypes, Jobs
    <3>2. \A r \in runs : r.proc \in Procs /\ r.job \in InHand(r.proc)
      BY <1>3 DEF Types, JobTypes, Task, InHand
    <3>3. \A p \in Procs : completing[p] \subseteq InHand(p)
                           /\ (held[p] # None => held[p] \in InHand(p))
      BY DEF InHand
    <3> QED  BY <2>1, <3>1, <3>2, <3>3 DEF Kept
  <2> QED  BY <1>3, <2>1 DEF KeptInv, Lost
<1> QED
  BY <1>1, <1>2, <1>3, PTL DEF Spec

-----------------------------------------------------------------------------
(* Type correctness.                                                       *)

Submitted == 1..submitted

\* The bounds of the environment, and of the generations of workers they allow.
Counted ==
    /\ crashes \in 0..MaxCrashes /\ outages \in 0..MaxOutages
    /\ deaths \in 0..MaxDeaths /\ faults \in 0..MaxFaults
    /\ worker \in [Procs -> Nat] /\ candidate \in [Procs -> Workers]
    /\ \A p \in Procs : worker[p] \in 1..(deaths + crashes + 1)

\* What a process does while it starts or is down: nothing but the reclaim.
Phases ==
    /\ mode \in [Procs -> Mode]
    /\ \A p \in Procs :
         /\ mode[p] # "running" => dpc[p] = "idle" /\ completing[p] = {}
         /\ mode[p] # "reclaiming" => pushed[p] = None
         /\ pushed[p] # None => pushed[p] \in snap[p]
    /\ \A r \in runs : mode[r.proc] = "running"

\* Only jobs that were submitted leave a trace, and only finished ones are recorded.
Traces ==
    /\ Elements(pending) \cup inflight \subseteq Submitted
    /\ completed \subseteq finished /\ finished \subseteq Submitted
    /\ \A p \in Procs : /\ snap[p] \subseteq Submitted
                        /\ completing[p] \subseteq finished
                        /\ held[p] # None => held[p] \in Submitted
    /\ \A r \in runs : r.job \in Submitted

\* The tasks, named by the number of their dispatch.
Tasks ==
    /\ tries \in [Jobs -> Nat] /\ runs \subseteq Run /\ IsFiniteSet(runs)
    /\ \A p \in Procs : dpc[p] = "reporting" => tries[held[p]] >= 1

TypeInv == Types /\ up \in BOOLEAN /\ Counted /\ Phases /\ Traces /\ Tasks

LEMMA TypesStep == Types /\ [Next]_vars => Types'
BY JobTypesStep, ProcTypesStep DEF Types

LEMMA UpStep == up \in BOOLEAN /\ [Next]_vars => up' \in BOOLEAN
<1> SUFFICES ASSUME up \in BOOLEAN, [Next]_vars PROVE up' \in BOOLEAN
  OBVIOUS
<1>1. UNCHANGED up \/ up' = FALSE \/ up' = TRUE
  BY DEF Next, vars, Start, ReclaimPush, ReclaimDelete, ReclaimFails, Select, Pop, Track,
     CreateRun, DispatcherEnds, WorkerDies, Crash, CompleteAsync, RunStep, RunComplete,
     RunReported, RunRaises, RequeueDelete, RequeuePush, RequeueFails, EnqueueJob, Outage,
     Recovery
<1> QED
  BY <1>1, Zenon

LEMMA CountedStep == Counted /\ [Next]_vars => Counted'
<1> SUFFICES ASSUME Counted, [Next]_vars PROVE Counted'
  OBVIOUS
<1>1. /\ MaxCrashes \in Nat /\ MaxOutages \in Nat /\ MaxDeaths \in Nat /\ MaxFaults \in Nat
      /\ NoWorker \in Workers
  BY RedisAssumption DEF NoWorker, Workers
<1>2. \A p \in Procs : worker[p] \in Workers
  BY <1>1 DEF Counted, Workers
<1>3. ASSUME UNCHANGED <<crashes, deaths, worker>>, candidate' \in [Procs -> Workers],
             outages' \in 0..MaxOutages, faults' \in 0..MaxFaults
      PROVE  Counted'
  BY <1>3 DEF Counted
<1>4. ASSUME NEW p \in Procs, Select(p) \/ CreateRun(p) \/ DispatcherEnds(p) PROVE Counted'
  <2>1. UNCHANGED <<worker, counters>>
    BY <1>4 DEF Select, CreateRun, DispatcherEnds
  <2>2. candidate' \in [Procs -> Workers]
    BY <1>1, <1>2, <1>4 DEF Select, CreateRun, DispatcherEnds, Counted
  <2> QED  BY <1>3, <2>1, <2>2 DEF counters, Counted
<1>5. ASSUME NEW p \in Procs, WorkerDies(p) PROVE Counted'
  <2>1. /\ deaths < MaxDeaths /\ deaths' = deaths + 1 /\ worker' = [worker EXCEPT ![p] = @ + 1]
        /\ UNCHANGED <<crashes, outages, faults, candidate>>
    BY <1>5 DEF WorkerDies, dispatchVars
  <2> QED  BY <1>1, <2>1 DEF Counted
<1>6. ASSUME NEW p \in Procs, Crash(p) PROVE Counted'
  <2>1. /\ crashes < MaxCrashes /\ crashes' = crashes + 1
        /\ worker' = [worker EXCEPT ![p] = @ + 1]
        /\ candidate' = [candidate EXCEPT ![p] = NoWorker]
        /\ UNCHANGED <<deaths, outages, faults>>
    BY <1>6 DEF Crash
  <2> QED  BY <1>1, <2>1 DEF Counted
<1>7. CASE \/ \E p \in Procs : \/ Start(p) \/ ReclaimPush(p) \/ ReclaimDelete(p)
                               \/ ReclaimFails(p) \/ Pop(p) \/ Track(p)
                               \/ \E j \in Jobs : CompleteAsync(p, j)
           \/ \E r \in runs : RunStep(r)
           \/ EnqueueJob \/ Outage \/ Recovery \/ UNCHANGED vars
  <2>1. UNCHANGED <<worker, candidate, crashes, deaths>>
    BY <1>7 DEF Start, ReclaimPush, ReclaimDelete, ReclaimFails, Pop, Track, CompleteAsync,
       RunStep, RunComplete, RunReported, RunRaises, RequeueDelete, RequeuePush, RequeueFails,
       EnqueueJob, Outage, Recovery, vars, dispatchVars, counters
  <2>2. outages' \in 0..MaxOutages /\ faults' \in 0..MaxFaults
    BY <1>1, <1>7 DEF Start, ReclaimPush, ReclaimDelete, ReclaimFails, Pop, Track,
       CompleteAsync, RunStep, RunComplete, RunReported, RunRaises, RequeueDelete, RequeuePush,
       RequeueFails, EnqueueJob, Outage, Recovery, vars, counters, Counted
  <2> QED  BY <1>3, <2>1, <2>2 DEF Counted
<1> QED
  BY <1>4, <1>5, <1>6, <1>7 DEF Next

LEMMA PhasesStep == Types /\ Phases /\ [Next]_vars => Phases'
<1> SUFFICES ASSUME Types, Phases, [Next]_vars PROVE Phases'
  OBVIOUS
<1>1. /\ \A r \in runs : r.proc \in Procs /\ Task(r)
      /\ dpc \in [Procs -> DispatchPc] /\ completing \in [Procs -> SUBSET Jobs]
      /\ pushed \in [Procs -> Jobs \cup {None}] /\ snap \in [Procs -> SUBSET Jobs]
      /\ inflight \subseteq Jobs /\ None \notin Jobs
  BY RedisAssumption DEF Types, JobTypes, ProcTypes, Task
\* A step of the dispatcher or of a task, of a process that runs.
<1>2. ASSUME UNCHANGED startVars, NEW p \in Procs, mode[p] = "running",
             \A q \in Procs \ {p} : dpc'[q] = dpc[q] /\ completing'[q] = completing[q],
             \A r \in runs' : r \in runs \/ r.proc = p
      PROVE  Phases'
  BY <1>1, <1>2 DEF Phases, startVars
\* A step of the start-up.
<1>3. ASSUME UNCHANGED <<dpc, completing, runs>>, NEW p \in Procs, mode[p] # "running",
             NEW m \in Mode, mode' = [mode EXCEPT ![p] = m],
             \A q \in Procs \ {p} : pushed'[q] = pushed[q] /\ snap'[q] = snap[q],
             pushed'[p] # None => m = "reclaiming" /\ pushed'[p] \in snap'[p]
      PROVE  Phases'
  BY <1>1, <1>3 DEF Phases
<1>4. ASSUME NEW p \in Procs, Start(p) PROVE Phases'
  <2> DEFINE m == IF ~up THEN "memory" ELSE IF inflight = {} THEN "running" ELSE "reclaiming"
  <2>1. /\ UNCHANGED <<dpc, completing, runs, pushed>> /\ mode' = [mode EXCEPT ![p] = m]
        /\ mode[p] = "down" /\ snap' = [snap EXCEPT ![p] = IF up THEN inflight ELSE {}]
    BY <1>4 DEF Start, dispatchVars
  <2>2. m \in Mode
    BY DEF Mode
  <2> HIDE DEF m
  <2>3. pushed[p] = None
    BY <2>1 DEF Phases
  <2> QED  BY <1>1, <1>3, <2>1, <2>2, <2>3
<1>5. ASSUME NEW p \in Procs, ReclaimPush(p) PROVE Phases'
  <2>1. /\ UNCHANGED <<dpc, completing, runs, mode, snap>> /\ mode[p] = "reclaiming"
        /\ \E j \in snap[p] : pushed' = [pushed EXCEPT ![p] = j]
    BY <1>5 DEF ReclaimPush, dispatchVars
  <2> QED  BY <1>1, <2>1 DEF Phases
<1>6. ASSUME NEW p \in Procs, ReclaimDelete(p) \/ ReclaimFails(p) PROVE Phases'
  <2>1. /\ UNCHANGED <<dpc, completing, runs>> /\ mode[p] = "reclaiming"
        /\ pushed' = [pushed EXCEPT ![p] = None]
        /\ \E s : snap' = [snap EXCEPT ![p] = s]
        /\ \E m \in Mode : mode' = [mode EXCEPT ![p] = m]
    BY <1>6 DEF ReclaimDelete, ReclaimFails, dispatchVars, Mode, Phases
  <2> QED  BY <1>1, <1>3, <2>1
<1>7. ASSUME NEW p \in Procs, Select(p) \/ Pop(p) \/ Track(p) \/ DispatcherEnds(p)
      PROVE  Phases'
  <2>1. /\ UNCHANGED <<startVars, completing, runs>>
        /\ \A q \in Procs \ {p} : dpc'[q] = dpc[q]
        /\ mode[p] = "running"
    BY <1>1, <1>7 DEF Select, Pop, Track, DispatcherEnds, Phases
  <2> QED  BY <1>2, <2>1
<1>8. ASSUME NEW p \in Procs, CreateRun(p) PROVE Phases'
  <2>1. /\ UNCHANGED <<startVars, completing>>
        /\ \A q \in Procs \ {p} : dpc'[q] = dpc[q]
        /\ mode[p] = "running"
        /\ \A r \in runs' : r \in runs \/ r.proc = p
    BY <1>1, <1>8 DEF CreateRun, Phases
  <2> QED  BY <1>2, <2>1
<1>9. ASSUME NEW r \in runs, RunStep(r) PROVE Phases'
  <2>1. /\ UNCHANGED <<startVars, dpc>>
        /\ \A q \in Procs \ {r.proc} : completing'[q] = completing[q]
    BY <1>1, <1>9 DEF RunStep, RunComplete, RunReported, RunRaises, RequeueDelete, RequeuePush,
       RequeueFails, dispatchVars
  <2>2. \A q \in runs' : q \in runs \/ q.proc = r.proc
    BY <1>1, <1>9 DEF RunStep, RunComplete, RunReported, RunRaises, RequeueDelete, RequeuePush,
       RequeueFails, MoveRun, Task
  <2>3. mode[r.proc] = "running"
    BY DEF Phases
  <2> QED  BY <1>1, <1>2, <2>1, <2>2, <2>3
<1>10. ASSUME NEW p \in Procs, Crash(p) PROVE Phases'
  <2>1. /\ mode' = [mode EXCEPT ![p] = "down"] /\ pushed' = [pushed EXCEPT ![p] = None]
        /\ snap' = [snap EXCEPT ![p] = {}] /\ dpc' = [dpc EXCEPT ![p] = "idle"]
        /\ completing' = [completing EXCEPT ![p] = {}] /\ runs' = {r \in runs : r.proc # p}
    BY <1>10 DEF Crash
  <2>2. mode' \in [Procs -> Mode]
    BY <2>1 DEF Phases, Mode
  <2> QED  BY <1>1, <2>1, <2>2 DEF Phases
<1>11. CASE \/ \E p \in Procs : WorkerDies(p) \/ \E j \in Jobs : CompleteAsync(p, j)
            \/ EnqueueJob \/ Outage \/ Recovery \/ UNCHANGED vars
  <2>1. UNCHANGED <<startVars, dpc, runs>>
    BY <1>11 DEF WorkerDies, CompleteAsync, EnqueueJob, Outage, Recovery, vars, dispatchVars
  <2>2. \A q \in Procs : completing'[q] \subseteq completing[q]
    BY <1>1, <1>11 DEF WorkerDies, CompleteAsync, EnqueueJob, Outage, Recovery, vars
  <2> QED  BY <2>1, <2>2 DEF Phases, startVars
<1> QED
  BY <1>4, <1>5, <1>6, <1>7, <1>8, <1>9, <1>10, <1>11 DEF Next

LEMMA TracesStep == Types /\ Traces /\ [Next]_vars => Traces'
<1> SUFFICES ASSUME Types, Traces, [Next]_vars PROVE Traces'
  OBVIOUS
<1>1. /\ \A r \in runs : Task(r) /\ r.proc \in Procs /\ r.job \in Submitted
      /\ pending \in Seq(Jobs) /\ inflight \subseteq Jobs /\ None \notin Jobs
      /\ held \in [Procs -> Jobs \cup {None}] /\ completing \in [Procs -> SUBSET Jobs]
      /\ snap \in [Procs -> SUBSET Jobs] /\ pushed \in [Procs -> Jobs \cup {None}]
      /\ Submitted \subseteq Jobs
  BY RedisAssumption, MaxJobsAssumption
  DEF Types, JobTypes, ProcTypes, Task, Traces, Submitted, Jobs
<1>2. ASSUME UNCHANGED <<submitted, finished>>,
             Elements(pending') \subseteq Submitted, inflight' \subseteq Submitted,
             completed' \subseteq finished,
             \A p \in Procs : /\ snap'[p] \subseteq Submitted
                              /\ completing'[p] \subseteq finished
                              /\ held'[p] # None => held'[p] \in Submitted,
             \A r \in runs' : r.job \in Submitted
      PROVE  Traces'
  BY <1>2 DEF Traces, Submitted
<1>3. ASSUME NEW p \in Procs, Start(p) \/ ReclaimDelete(p) \/ ReclaimFails(p) PROVE Traces'
  <2>1. UNCHANGED <<submitted, finished, pending, completed, completing, held, runs>>
    BY <1>3 DEF Start, ReclaimDelete, ReclaimFails, redisVars, dispatchVars
  <2>2. /\ inflight' \subseteq inflight
        /\ \A q \in Procs : snap'[q] \subseteq snap[q] \cup inflight
    BY <1>1, <1>3 DEF Start, ReclaimDelete, ReclaimFails, redisVars
  <2> QED  BY <1>2, <2>1, <2>2 DEF Traces
<1>4. ASSUME NEW p \in Procs, ReclaimPush(p) PROVE Traces'
  <2>1. /\ UNCHANGED <<submitted, finished, inflight, completed, completing, held, runs, snap>>
        /\ \E j \in snap[p] : pending' = Append(pending, j)
    BY <1>4 DEF ReclaimPush, dispatchVars
  <2>2. Elements(pending') \subseteq Submitted
    BY <1>1, <2>1, AppendElements DEF Traces
  <2> QED  BY <1>2, <2>1, <2>2 DEF Traces
<1>5. CASE EnqueueJob
  <2>1. /\ UNCHANGED <<finished, inflight, completed, completing, held, runs, snap>>
        /\ submitted' = submitted + 1 /\ pending' = Append(pending, submitted + 1)
        /\ submitted < MaxJobs
    BY <1>5 DEF EnqueueJob, dispatchVars, startVars
  <2>2. /\ Submitted \subseteq 1..submitted' /\ submitted' \in 1..submitted'
        /\ submitted' \in Jobs
    BY <2>1, MaxJobsAssumption DEF Submitted, Types, JobTypes, Jobs
  <2>3. Elements(pending') = Elements(pending) \cup {submitted'}
    BY <1>1, <2>1, <2>2, AppendElements
  <2> QED  BY <1>1, <2>1, <2>2, <2>3 DEF Traces, Submitted
<1>6. ASSUME NEW p \in Procs, Pop(p) PROVE Traces'
  <2>1. /\ UNCHANGED <<submitted, finished, inflight, completed, completing, runs, snap>>
        /\ held' = [held EXCEPT ![p] = Head(pending)] /\ pending' = Tail(pending)
        /\ pending # << >>
    BY <1>6 DEF Pop, startVars
  <2>2. Elements(pending') \subseteq Submitted /\ Head(pending) \in Submitted
    BY <1>1, <2>1, TailElements DEF Traces
  <2> QED  BY <1>1, <1>2, <2>1, <2>2 DEF Traces
<1>7. ASSUME NEW p \in Procs, Track(p) PROVE Traces'
  <2>1. /\ UNCHANGED <<submitted, finished, pending, completed, completing, runs, snap, held>>
        /\ inflight' = inflight \cup {held[p]} /\ dpc[p] = "tracking"
    BY <1>7 DEF Track, startVars
  <2>2. held[p] \in Submitted
    BY <2>1 DEF Traces, Types, ProcTypes
  <2> QED  BY <1>1, <1>2, <2>1, <2>2 DEF Traces
<1>8. ASSUME NEW p \in Procs, CreateRun(p) PROVE Traces'
  <2>1. /\ UNCHANGED <<submitted, finished, pending, inflight, completed, completing, snap>>
        /\ held' = [held EXCEPT ![p] = None] /\ dpc[p] = "reporting"
        /\ \A r \in runs' : r \in runs \/ r.job = held[p]
    BY <1>8 DEF CreateRun, startVars, redisVars
  <2>2. held[p] \in Submitted
    BY <2>1 DEF Traces, Types, ProcTypes
  <2> QED  BY <1>1, <1>2, <2>1, <2>2 DEF Traces
<1>9. ASSUME NEW r \in runs, RunComplete(r) PROVE Traces'
  <2>1. /\ UNCHANGED <<submitted, pending, inflight, completed, snap, held>>
        /\ finished' = finished \cup {r.job} /\ MoveRun(r, "reporting")
        /\ completing' = [completing EXCEPT ![r.proc] = @ \cup {r.job}]
    BY <1>9 DEF RunComplete, startVars, redisVars, dispatchVars
  <2>2. \A q \in runs' : q \in runs \/ q.job = r.job
    BY <1>1, <2>1 DEF MoveRun, Task
  <2> QED  BY <1>1, <2>1, <2>2 DEF Traces, Submitted
<1>10. ASSUME NEW r \in runs, RunReported(r) \/ RunRaises(r) \/ RequeueDelete(r)
                              \/ RequeuePush(r) \/ RequeueFails(r)
       PROVE  Traces'
  <2>1. UNCHANGED <<submitted, finished, completed, completing, snap, held>>
    BY <1>10 DEF RunReported, RunRaises, RequeueDelete, RequeuePush, RequeueFails, startVars,
       redisVars, dispatchVars
  <2>2. \A q \in runs' : q \in runs \/ q.job = r.job
    BY <1>1, <1>10 DEF RunReported, RunRaises, RequeueDelete, RequeuePush, RequeueFails,
       MoveRun, Task
  <2>3. inflight' \subseteq inflight
    BY <1>10 DEF RunReported, RunRaises, RequeueDelete, RequeuePush, RequeueFails, redisVars
  <2>4. Elements(pending') \subseteq Submitted
    <3>1. CASE RequeuePush(r)
      BY <1>1, <3>1, AppendElements DEF RequeuePush, Traces
    <3>2. CASE ~RequeuePush(r)
      BY <1>10, <3>2 DEF RunReported, RunRaises, RequeueDelete, RequeueFails, redisVars, Traces
    <3> QED  BY <3>1, <3>2
  <2> QED  BY <1>1, <1>2, <2>1, <2>2, <2>3, <2>4 DEF Traces
<1>11. ASSUME NEW p \in Procs, NEW j \in Jobs, CompleteAsync(p, j) PROVE Traces'
  <2>1. /\ UNCHANGED <<submitted, finished, pending, snap, held, runs>>
        /\ completing' = [completing EXCEPT ![p] = @ \ {j}] /\ j \in completing[p]
        /\ inflight' \subseteq inflight /\ completed' \subseteq completed \cup {j}
    BY <1>11 DEF CompleteAsync, startVars, dispatchVars
  <2> QED  BY <1>1, <1>2, <2>1 DEF Traces
<1>12. ASSUME NEW p \in Procs, WorkerDies(p) PROVE Traces'
  <2> DEFINE mine == {j \in inflight : StoredWorker(j) = worker[p]}
  <2>1. UNCHANGED <<submitted, finished, completed, completing, snap, held, runs>>
    BY <1>12 DEF WorkerDies, startVars, dispatchVars
  <2>2. Elements(pending') \subseteq Submitted /\ inflight' \subseteq Submitted
    <3>1. CASE up
      <4>1. PICK s \in Orderings(mine) : pending' = pending \o s
        BY <1>12, <3>1 DEF WorkerDies
      <4>2. s \in Seq(Jobs) /\ Elements(s) = mine
        BY <1>1, OrderingsType
      <4> QED  BY <1>1, <1>12, <3>1, <4>1, <4>2, ConcatElements DEF WorkerDies, Traces
    <3>2. CASE ~up
      BY <1>12, <3>2 DEF WorkerDies, Traces
    <3> QED  BY <3>1, <3>2
  <2> QED  BY <1>1, <1>2, <2>1, <2>2 DEF Traces
<1>13. CASE \/ \E p \in Procs : Select(p) \/ DispatcherEnds(p) \/ Crash(p)
            \/ Outage \/ Recovery \/ UNCHANGED vars
  <2>1. UNCHANGED <<submitted, finished, pending, inflight, completed>>
    BY <1>13 DEF Select, DispatcherEnds, Crash, Outage, Recovery, vars, redisVars
  <2>2. \A q \in Procs : /\ snap'[q] \subseteq snap[q] /\ completing'[q] \subseteq completing[q]
                         /\ held'[q] \in {held[q], None}
    BY <1>1, <1>13 DEF Select, DispatcherEnds, Crash, Outage, Recovery, vars, startVars,
       dispatchVars
  <2>3. runs' \subseteq runs
    BY <1>13 DEF Select, DispatcherEnds, Crash, Outage, Recovery, vars
  <2> QED  BY <1>1, <1>2, <2>1, <2>2, <2>3 DEF Traces
<1> QED
  BY <1>3, <1>4, <1>5, <1>6, <1>7, <1>8, <1>9, <1>10, <1>11, <1>12, <1>13 DEF Next, RunStep

LEMMA TasksStep == Types /\ Counted /\ Tasks /\ [Next]_vars => Tasks'
<1> SUFFICES ASSUME Types, Counted, Tasks, [Next]_vars PROVE Tasks'
  OBVIOUS
<1>1. /\ runs \subseteq Run /\ IsFiniteSet(runs) /\ tries \in [Jobs -> Nat]
      /\ dpc \in [Procs -> DispatchPc] /\ held \in [Procs -> Jobs \cup {None}]
      /\ candidate \in [Procs -> Workers] /\ pending \in Seq(Jobs)
      /\ \A p \in Procs : dpc[p] \in {"tracking", "reporting"} => held[p] \in Jobs
      /\ \A p \in Procs : dpc[p] = "reporting" => tries[held[p]] >= 1
  BY DEF Types, JobTypes, ProcTypes, Tasks, Counted
<1>2. ASSUME NEW p \in Procs, CreateRun(p) PROVE Tasks'
  <2> DEFINE new == [proc |-> p, job |-> held[p], try |-> tries[held[p]],
                     worker |-> candidate[p], pc |-> "scanning"]
  <2>1. new \in Run
    BY <1>1, <1>2 DEF CreateRun, Run, RunPc
  <2>2. /\ runs' = runs \cup {new} /\ tries' = tries
        /\ dpc' = [dpc EXCEPT ![p] = "idle"] /\ held' = [held EXCEPT ![p] = None]
    BY <1>2 DEF CreateRun
  <2> HIDE DEF new
  <2>3. runs' \subseteq Run /\ IsFiniteSet(runs')
    BY <1>1, <2>1, <2>2, FS_AddElement
  <2> QED  BY <1>1, <2>2, <2>3 DEF Tasks
<1>3. ASSUME NEW p \in Procs, Track(p) PROVE Tasks'
  <2>1. /\ tries' = [tries EXCEPT ![held[p]] = @ + 1] /\ held[p] \in Jobs
        /\ UNCHANGED <<runs, held>> /\ dpc' = [dpc EXCEPT ![p] = "reporting"]
    BY <1>1, <1>3 DEF Track
  <2>2. \A j \in Jobs : tries[j] \in Nat /\ tries'[j] \in Nat /\ tries'[j] >= tries[j]
    BY <1>1, <2>1
  <2>3. tries' \in [Jobs -> Nat] /\ tries'[held[p]] >= 1
    BY <1>1, <2>1
  <2>4. ASSUME NEW q \in Procs, dpc'[q] = "reporting" PROVE tries'[held'[q]] >= 1
    <3>1. CASE q = p
      BY <2>1, <2>3, <3>1
    <3>2. CASE q # p
      <4>1. dpc[q] = "reporting" /\ held'[q] = held[q] /\ held[q] \in Jobs
        BY <1>1, <2>1, <2>4, <3>2
      <4> QED  BY <1>1, <2>2, <4>1
    <3> QED  BY <3>1, <3>2
  <2> QED  BY <1>1, <2>1, <2>3, <2>4 DEF Tasks
<1>4. ASSUME UNCHANGED tries, runs' \subseteq Run, IsFiniteSet(runs'),
             \A p \in Procs : dpc'[p] = "reporting"
                                 => dpc[p] = "reporting" /\ held'[p] = held[p]
      PROVE  Tasks'
  BY <1>1, <1>4 DEF Tasks
<1>5. ASSUME NEW r \in runs, RunStep(r) PROVE Tasks'
  <2>1. ASSUME NEW pc \in RunPc, MoveRun(r, pc) PROVE runs' \subseteq Run /\ IsFiniteSet(runs')
    <3> DEFINE new == [r EXCEPT !.pc = pc]
    <3>1. new \in Run
      BY <1>1 DEF Run
    <3>2. runs' = (runs \ {r}) \cup {new}
      BY <2>1 DEF MoveRun
    <3> HIDE DEF new
    <3> QED  BY <1>1, <3>1, <3>2, FS_RemoveElement, FS_AddElement
  <2>2. \/ runs' = runs \ {r}
        \/ \E pc \in RunPc : MoveRun(r, pc)
    BY <1>5 DEF RunStep, RunComplete, RunReported, RunRaises, RequeueDelete, RequeuePush,
       RequeueFails, RunPc
  <2>3. runs' \subseteq Run /\ IsFiniteSet(runs')
    BY <1>1, <2>1, <2>2, FS_RemoveElement
  <2>4. UNCHANGED dispatchVars
    BY <1>5 DEF RunStep, RunComplete, RunReported, RunRaises, RequeueDelete, RequeuePush,
       RequeueFails
  <2> QED  BY <1>4, <2>3, <2>4 DEF dispatchVars
<1>6. ASSUME NEW p \in Procs, Crash(p) PROVE Tasks'
  <2>1. /\ runs' \in SUBSET runs /\ tries' = tries
        /\ dpc' = [dpc EXCEPT ![p] = "idle"] /\ held' = [held EXCEPT ![p] = None]
    BY <1>6 DEF Crash
  <2>2. runs' \subseteq Run /\ IsFiniteSet(runs')
    BY <1>1, <2>1, FS_Subset
  <2> QED  BY <1>1, <1>4, <2>1, <2>2
<1>7. CASE \/ \E p \in Procs : \/ Start(p) \/ ReclaimPush(p) \/ ReclaimDelete(p)
                               \/ ReclaimFails(p) \/ Select(p) \/ Pop(p)
                               \/ DispatcherEnds(p) \/ WorkerDies(p)
                               \/ \E j \in Jobs : CompleteAsync(p, j)
           \/ EnqueueJob \/ Outage \/ Recovery \/ UNCHANGED vars
  <2>1. UNCHANGED <<runs, tries>>
    BY <1>7 DEF Start, ReclaimPush, ReclaimDelete, ReclaimFails, Select, Pop, DispatcherEnds,
       WorkerDies, CompleteAsync, EnqueueJob, Outage, Recovery, vars, dispatchVars
  <2>2. \A p \in Procs : dpc'[p] = "reporting" => dpc[p] = "reporting" /\ held'[p] = held[p]
    BY <1>1, <1>7 DEF Start, ReclaimPush, ReclaimDelete, ReclaimFails, Select, Pop,
       DispatcherEnds, WorkerDies, CompleteAsync, EnqueueJob, Outage, Recovery, vars,
       dispatchVars
  <2> QED  BY <1>1, <1>4, <2>1, <2>2
<1> QED
  BY <1>2, <1>3, <1>5, <1>6, <1>7 DEF Next

LEMMA TypeInvInit == Init => TypeInv
<1> SUFFICES ASSUME Init PROVE TypeInv
  OBVIOUS
<1>1. Types
  BY MaxJobsAssumption DEF Init, Types, JobTypes, ProcTypes, DispatchPc
<1>2. up \in BOOLEAN
  BY Zenon DEF Init
<1>3. Counted
  BY RedisAssumption DEF Init, Counted, NoWorker, Workers
<1>4. Phases
  BY DEF Init, Phases, Mode
<1>5. Traces
  BY RedisAssumption DEF Init, Traces, Elements, Submitted
<1>6. Tasks
  BY FS_EmptySet DEF Init, Tasks
<1> QED
  BY <1>1, <1>2, <1>3, <1>4, <1>5, <1>6 DEF TypeInv

LEMMA TypeInvStep == TypeInv /\ [Next]_vars => TypeInv'
BY TypesStep, UpStep, CountedStep, PhasesStep, TracesStep, TasksStep DEF TypeInv

LEMMA TypeInvHolds == Spec => []TypeInv
BY TypeInvInit, TypeInvStep, PTL DEF Spec

(***************************************************************************)
(* Every variable of the schedulers and of Redis has its type; a process   *)
(* that is down or reclaiming dispatches nothing (create_queue of          *)
(* job_queue.py returns before the loops start), a job is in its hand only *)
(* between BLPOP and the task, and only finished jobs are recorded.        *)
(***************************************************************************)
THEOREM TypesHold == Spec => []TypeOK
<1>1. ASSUME TypeInv PROVE TypeOK
  <2>1. /\ pending \in Seq(Jobs) /\ inflight \subseteq Jobs /\ submitted \in 0..MaxJobs
        /\ completing \in [Procs -> SUBSET Jobs] /\ snap \in [Procs -> SUBSET Jobs]
        /\ pushed \in [Procs -> Jobs \cup {None}] /\ held \in [Procs -> Jobs \cup {None}]
        /\ dpc \in [Procs -> DispatchPc]
        /\ \A p \in Procs : held[p] # None <=> dpc[p] \in {"tracking", "reporting"}
    BY <1>1 DEF TypeInv, Types, JobTypes, ProcTypes
  <2>2. /\ up \in BOOLEAN /\ completed \subseteq finished /\ finished \subseteq 1..submitted
    BY <1>1, Zenon DEF TypeInv, Traces, Submitted
  <2>3. /\ mode \in [Procs -> Mode]
        /\ \A p \in Procs : /\ mode[p] # "running" => dpc[p] = "idle" /\ completing[p] = {}
                            /\ pushed[p] # None => pushed[p] \in snap[p]
    BY <1>1 DEF TypeInv, Phases
  <2>4. tries \in [Jobs -> Nat] /\ runs \subseteq Run
    BY <1>1 DEF TypeInv, Tasks
  <2>5. /\ crashes \in 0..MaxCrashes /\ outages \in 0..MaxOutages
        /\ deaths \in 0..MaxDeaths /\ faults \in 0..MaxFaults
        /\ candidate \in [Procs -> Workers]
    BY <1>1 DEF TypeInv, Counted
  <2>6. worker \in [Procs -> Workers]
    <3>1. ASSUME NEW p \in Procs PROVE worker[p] \in Workers
      BY <1>1, RedisAssumption DEF TypeInv, Counted, Workers
    <3> QED  BY <1>1, <3>1 DEF TypeInv, Counted
  <2> QED  BY <2>1, <2>2, <2>3, <2>4, <2>5, <2>6 DEF TypeOK
<1> QED
  BY <1>1, TypeInvHolds, PTL

-----------------------------------------------------------------------------
(* The job service.                                                        *)

\* No job in the hash names its worker, so a death puts nothing on the list.
LEMMA DeathsPushNothing ==
    ASSUME TypeInv, NEW p \in Procs, WorkerDies(p)
    PROVE  pending' = pending /\ inflight' = inflight
<1> DEFINE mine == {x \in inflight : StoredWorker(x) = worker[p]}
<1>1. pending \in Seq(Jobs) /\ mine = {}
  BY DEF TypeInv, Types, JobTypes, Counted, StoredWorker, NoWorker
<1>2. CASE up
  <2>1. PICK s \in Orderings(mine) : pending' = pending \o s /\ inflight' = inflight \ mine
    BY <1>2 DEF WorkerDies
  <2>2. s \in Seq(Jobs) /\ Elements(s) = {}
    BY <1>1, OrderingsType
  <2>3. Len(s) = 0
    BY <2>2, LenProperties DEF Elements
  <2>4. s = << >>
    BY <2>2, <2>3, EmptySeq
  <2> QED  BY <1>1, <2>1, <2>4
<1>3. CASE ~up
  BY <1>3 DEF WorkerDies
<1> QED
  BY <1>2, <1>3

\* A step that only lets a job of no use to anybody go, because it is recorded.
LEMMA LetGo ==
    ASSUME NEW j \in RunningJobs, UNCHANGED <<submitted, pending>>,
           completed' = completed \cup {j},
           RunningJobs' \in {RunningJobs, RunningJobs \ {j}}, j \in Jobs
    PROVE  Service!Next
<1>1. Service!Finish(j)   BY DEF Service!Finish
<1> QED  BY <1>1 DEF Service!Next

\* A step that puts a job back on the list.
LEMMA PutBack ==
    ASSUME NEW j \in Elements(pending) \cup RunningJobs \cup completed,
           Elements(pending') = Elements(pending) \cup {j},
           UNCHANGED <<submitted, completed>>, RunningJobs' = RunningJobs
    PROVE  Service!Next
<1>1. Service!Retry   BY DEF Service!Retry
<1> QED  BY <1>1 DEF Service!Next

\* What the dispatcher does to a job: BLPOP starts it, the task takes it over.
LEMMA DispatchServes ==
    ASSUME TypeInv, NEW p \in Procs, Select(p) \/ Pop(p) \/ Track(p) \/ CreateRun(p)
    PROVE  [Service!Next]_(Service!vars)
<1>1. /\ pending \in Seq(Jobs) /\ held \in [Procs -> Jobs \cup {None}] /\ None \notin Jobs
      /\ held[p] # None <=> dpc[p] \in {"tracking", "reporting"}
  BY RedisAssumption DEF TypeInv, Types, JobTypes, ProcTypes
<1>2. CASE Pop(p)
  <2> DEFINE j == Head(pending)
  <2>1. /\ UNCHANGED <<submitted, completed, runs, completing>>
        /\ held' = [held EXCEPT ![p] = j] /\ pending' = Tail(pending)
        /\ pending # << >> /\ held[p] = None
    BY <1>1, <1>2 DEF Pop
  <2>2. /\ j \in Jobs /\ j \in Elements(pending)
        /\ Elements(pending) = Elements(pending') \cup {j}
    BY <1>1, <2>1, TailElements
  <2> HIDE DEF j
  <2>3. \A q \in Procs : held'[q] = IF q = p THEN j ELSE held[q]   BY <1>1, <2>1
  <2>4. RunningJobs' = RunningJobs \cup {j}
    <3>1. \A i \in Jobs : (\E q \in Procs : held'[q] = i) <=> (\E q \in Procs : held[q] = i) \/ i = j
      BY <1>1, <2>1, <2>2, <2>3
    <3> QED  BY <2>1, <2>2, <3>1 DEF RunningJobs
  <2>5. Elements(pending') \in {Elements(pending), Elements(pending) \ {j}}   BY <2>2
  <2>6. Service!Start(j)   BY <2>1, <2>2, <2>4, <2>5 DEF Service!Start
  <2> QED  BY <2>2, <2>6 DEF Service!Next
<1>3. CASE CreateRun(p)
  <2>1. PICK new : /\ new.job = held[p] /\ new.pc = "scanning" /\ runs' = runs \cup {new}
    <3> DEFINE new == [proc |-> p, job |-> held[p], try |-> tries[held[p]],
                       worker |-> candidate[p], pc |-> "scanning"]
    <3>1. runs' = runs \cup {new}   BY <1>3 DEF CreateRun
    <3> QED  BY <3>1
  <2>2. /\ UNCHANGED <<submitted, pending, completed, completing>>
        /\ held' = [held EXCEPT ![p] = None] /\ held[p] # None
    BY <1>1, <1>3 DEF CreateRun, redisVars
  <2>3. \A q \in Procs : held'[q] = IF q = p THEN None ELSE held[q]   BY <1>1, <2>2
  <2>4. \A j : (\E r \in runs' : r.job = j /\ r.pc \in {"scanning", "reporting"})
                  <=> (\E r \in runs : r.job = j /\ r.pc \in {"scanning", "reporting"}) \/ j = held[p]
    BY <2>1
  <2>5. \A j \in Jobs : (\E q \in Procs : held[q] = j)
                           <=> (\E q \in Procs : held'[q] = j) \/ j = held[p]
    BY <1>1, <2>2, <2>3
  <2>6. RunningJobs' = RunningJobs   BY <2>2, <2>4, <2>5 DEF RunningJobs
  <2> QED  BY <2>2, <2>6 DEF Service!vars
<1>4. CASE Select(p) \/ Track(p)
  <2>1. UNCHANGED <<submitted, pending, completed, completing, held, runs>>
    BY <1>4 DEF Select, Track, redisVars
  <2> QED  BY <2>1 DEF RunningJobs, Service!vars
<1> QED  BY <1>2, <1>3, <1>4

\* What a task does to its job: nothing it drops is needed any more.
LEMMA TasksServe ==
    ASSUME TypeInv, KeptInv, Calm, NEW r \in runs, RunStep(r)
    PROVE  [Service!Next]_(Service!vars)
<1> DEFINE Active(j) == \E q \in runs : q.job = j /\ q.pc \in {"scanning", "reporting"}
           Ending(j) == \E p \in Procs : j \in completing[p]
<1>1. /\ up /\ pending \in Seq(Jobs) /\ r.job \in Jobs /\ r.proc \in Procs
      /\ \A q \in runs : Task(q)
      /\ completing \in [Procs -> SUBSET Jobs]
      /\ r.pc # "scanning" => r.job \in completed \/ r.job \in completing[r.proc]
  BY DEF KeptInv, TypeInv, Types, JobTypes, Task
<1>2. \A j : j \in RunningJobs <=> j \in Jobs /\ (Active(j) \/ Ending(j) \/ \E p \in Procs : held[p] = j)
  BY DEF RunningJobs
<1>3. \A j : j \in RunningJobs' <=> j \in Jobs /\ (Active(j)' \/ Ending(j)' \/ \E p \in Procs : held'[p] = j)
  BY DEF RunningJobs
<1>4. UNCHANGED <<submitted, completed, held>>
  BY DEF RunStep, RunComplete, RunReported, RunRaises, RequeueDelete, RequeuePush,
         RequeueFails, redisVars, dispatchVars
<1>5. ASSUME NEW pc, MoveRun(r, pc)
      PROVE  \E new : /\ runs' = (runs \ {r}) \cup {new} /\ new.job = r.job /\ new.pc = pc
  <2>1. [r EXCEPT !.pc = pc].job = r.job /\ [r EXCEPT !.pc = pc].pc = pc   BY <1>1 DEF Task
  <2> QED  BY <1>5, <2>1 DEF MoveRun
<1>6. ASSUME UNCHANGED <<pending, completing>>,
             \A j : Active(j)' => Active(j), \A j : Active(j) => Active(j)' \/ j = r.job,
             r.pc = "reporting"
      PROVE  [Service!Next]_(Service!vars)
  <2>1. r.job \in RunningJobs   BY <1>1, <1>2, <1>6
  <2>2. RunningJobs' \in {RunningJobs, RunningJobs \ {r.job}}
    <3> HIDE DEF Active, Ending
    <3>1. \A j : Ending(j)' <=> Ending(j)   BY <1>6 DEF Ending
    <3> QED  BY <1>2, <1>3, <1>4, <1>6, <3>1
  <2>3. CASE r.job \in completed
    <3>1. completed' = completed \cup {r.job}   BY <1>4, <2>3
    <3> QED  BY <1>1, <1>4, <1>6, <2>1, <2>2, <3>1, LetGo
  <2>4. CASE r.job \in completing[r.proc]
    <3>1. r.job \in RunningJobs'   BY <1>1, <1>3, <1>6, <2>4
    <3>2. RunningJobs' = RunningJobs   BY <2>1, <2>2, <3>1
    <3> QED  BY <1>4, <1>6, <3>2 DEF Service!vars
  <2> QED  BY <1>1, <1>6, <2>3, <2>4
<1>7. CASE RunComplete(r)
  <2>1. PICK new : runs' = (runs \ {r}) \cup {new} /\ new.job = r.job /\ new.pc = "reporting"
    BY <1>5, <1>7 DEF RunComplete
  <2>2. /\ r.pc = "scanning" /\ pending' = pending
        /\ completing' = [completing EXCEPT ![r.proc] = @ \cup {r.job}]
    BY <1>7 DEF RunComplete, redisVars
  <2>3. \A j : Active(j)' <=> Active(j)   BY <2>1, <2>2
  <2>4. \A j : Ending(j)' <=> Ending(j) \/ j = r.job   BY <1>1, <2>2
  <2>5. Active(r.job)   BY <2>2
  <2> HIDE DEF Active, Ending
  <2>6. RunningJobs' = RunningJobs   BY <1>2, <1>3, <1>4, <2>3, <2>4, <2>5
  <2> QED  BY <1>4, <2>2, <2>6 DEF Service!vars
<1>8. CASE RunReported(r)
  <2>1. r.pc = "reporting" /\ runs' = runs \ {r} /\ UNCHANGED <<pending, completing>>
    BY <1>8 DEF RunReported, redisVars
  <2> QED  BY <1>6, <2>1
<1>9. CASE RunRaises(r)
  <2>1. PICK new : runs' = (runs \ {r}) \cup {new} /\ new.job = r.job /\ new.pc = "failing"
    BY <1>5, <1>9 DEF RunRaises
  <2>2. r.pc = "reporting" /\ UNCHANGED <<pending, completing>>
    BY <1>9 DEF RunRaises, redisVars
  <2> QED  BY <1>6, <2>1, <2>2
<1>10. CASE RequeueDelete(r)
  <2>1. PICK new : runs' = (runs \ {r}) \cup {new} /\ new.job = r.job /\ new.pc = "repushing"
    BY <1>5, <1>10 DEF RequeueDelete
  <2>2. r.pc = "failing" /\ UNCHANGED <<pending, completing>>   BY <1>10 DEF RequeueDelete
  <2>3. \A j : Active(j)' <=> Active(j)   BY <2>1, <2>2
  <2>4. RunningJobs' = RunningJobs
    <3>1. \A j : Ending(j)' <=> Ending(j)   BY <2>2
    <3> HIDE DEF Active, Ending
    <3> QED  BY <1>2, <1>3, <1>4, <2>3, <3>1
  <2> QED  BY <1>4, <2>2, <2>4 DEF Service!vars
<1>11. CASE RequeuePush(r)
  <2>1. /\ r.pc = "repushing" /\ runs' = runs \ {r} /\ completing' = completing
        /\ pending' = Append(pending, r.job)
    BY <1>11 DEF RequeuePush
  <2>2. \A j : Active(j)' <=> Active(j)   BY <2>1
  <2>3. RunningJobs' = RunningJobs
    <3>1. \A j : Ending(j)' <=> Ending(j)   BY <2>1
    <3> HIDE DEF Active, Ending
    <3> QED  BY <1>2, <1>3, <1>4, <2>2, <3>1
  <2>4. Elements(pending') = Elements(pending) \cup {r.job}   BY <1>1, <2>1, AppendElements
  <2>5. r.job \in RunningJobs \cup completed   BY <1>1, <1>2, <2>1
  <2> QED  BY <1>4, <2>3, <2>4, <2>5, PutBack
<1>12. CASE RequeueFails(r)   BY <1>1, <1>12 DEF RequeueFails
<1> QED  BY <1>7, <1>8, <1>9, <1>10, <1>11, <1>12 DEF RunStep

LEMMA CompletionServes ==
    ASSUME TypeInv, KeptInv, Calm, NEW p \in Procs, NEW j \in Jobs, CompleteAsync(p, j)
    PROVE  Service!Next
<1>1. /\ UNCHANGED <<pending, submitted, held, runs>> /\ j \in completing[p]
      /\ completing' = [completing EXCEPT ![p] = @ \ {j}] /\ completed' = completed \cup {j}
  BY DEF CompleteAsync, KeptInv, dispatchVars
<1>2. completing \in [Procs -> SUBSET Jobs]   BY DEF TypeInv, Types, JobTypes
<1>3. /\ \A q \in Procs : completing'[q] \subseteq completing[q]
      /\ \A q \in Procs : completing[q] \subseteq completing'[q] \cup {j}
  BY <1>1, <1>2
<1>4. j \in RunningJobs   BY <1>1 DEF RunningJobs
<1>5. RunningJobs' \in {RunningJobs, RunningJobs \ {j}}
  <2>1. RunningJobs' \subseteq RunningJobs   BY <1>1, <1>3 DEF RunningJobs
  <2>2. RunningJobs \subseteq RunningJobs' \cup {j}   BY <1>1, <1>3 DEF RunningJobs
  <2> QED  BY <2>1, <2>2
<1> QED  BY <1>1, <1>4, <1>5, LetGo

\* The start of a process puts jobs of others back: each of them was submitted.
LEMMA ReclaimServes ==
    ASSUME TypeInv, KeptInv, Calm, NEW p \in Procs, ReclaimPush(p)
    PROVE  Service!Next
<1>1. PICK j \in snap[p] : pending' = Append(pending, j)   BY DEF ReclaimPush
<1>2. j \in 1..submitted /\ j \in Jobs /\ pending \in Seq(Jobs)
  BY <1>1 DEF TypeInv, Traces, Submitted, Types, JobTypes, ProcTypes
<1>3. UNCHANGED <<submitted, completed, runs, completing, held>>
  BY DEF ReclaimPush, dispatchVars
<1>4. Elements(pending') = Elements(pending) \cup {j}   BY <1>1, <1>2, AppendElements
<1>5. RunningJobs' = RunningJobs   BY <1>3 DEF RunningJobs
<1>6. j \in Elements(pending) \cup RunningJobs \cup completed
  <2>1. Kept(j)   BY <1>2 DEF KeptInv
  <2>2. \A r \in runs : r.job \in RunningJobs \cup completed
    BY DEF KeptInv, TypeInv, Types, JobTypes, Task, RunningJobs, RunPc
  <2>3. \A q \in Procs : (j \in completing[q] \/ held[q] = j) => j \in RunningJobs
    BY <1>2 DEF RunningJobs
  <2> QED  BY <2>1, <2>2, <2>3 DEF Kept
<1> QED  BY <1>3, <1>4, <1>5, <1>6, PutBack

LEMMA EnqueueServes ==
    ASSUME TypeInv, EnqueueJob   PROVE Service!Next
<1> DEFINE n == submitted + 1
<1>1. /\ n \in Jobs /\ n \notin 1..submitted /\ 1..submitted' = (1..submitted) \cup {n}
      /\ pending' = Append(pending, n) /\ pending \in Seq(Jobs)
      /\ UNCHANGED <<completed, runs, completing, held>>
  BY MaxJobsAssumption DEF EnqueueJob, TypeInv, Types, JobTypes, Jobs, dispatchVars
<1> HIDE DEF n
<1>2. Elements(pending') = Elements(pending) \cup {n}   BY <1>1, AppendElements
<1>3. RunningJobs' = RunningJobs   BY <1>1 DEF RunningJobs
<1>4. Service!Accept(n)   BY <1>1, <1>2, <1>3 DEF Service!Accept
<1> QED  BY <1>1, <1>4 DEF Service!Next

(***************************************************************************)
(* While no scheduler crashes and Redis answers, any number of schedulers  *)
(* on one Redis are one job service: dequeue starts a job that waits, a    *)
(* recorded result finishes it, and requeue and reclaim_inflight only make *)
(* jobs wait again that were started (job_queue.py).                       *)
(***************************************************************************)
THEOREM ImplementsService == Spec /\ []Calm => ServiceSpec
<1>1. Init => Service!Init
  <2> SUFFICES ASSUME Init PROVE Service!Init   OBVIOUS
  <2>1. 1..submitted = {} /\ Elements(pending) = {} /\ completed = {}   BY DEF Init, Elements
  <2>2. RunningJobs = {}   BY RedisAssumption DEF Init, RunningJobs
  <2> QED  BY <2>1, <2>2 DEF Service!Init
<1>2. TypeInv /\ KeptInv /\ Calm /\ Calm' /\ [Next]_vars => [Service!Next]_(Service!vars)
  <2> SUFFICES ASSUME TypeInv, KeptInv, Calm, Calm', [Next]_vars
               PROVE  [Service!Next]_(Service!vars)
    OBVIOUS
  <2>1. up /\ crashes' = crashes /\ outages' = outages /\ crashes \in Nat /\ outages \in Nat
    BY DEF KeptInv, Calm, TypeInv, Types, JobTypes
  <2>2. ASSUME NEW p \in Procs, WorkerDies(p) PROVE UNCHANGED Service!vars
    <3>1. pending' = pending   BY <2>2, DeathsPushNothing
    <3>2. UNCHANGED <<submitted, completed, runs, completing, held>>
      BY <2>2 DEF WorkerDies, dispatchVars
    <3> QED  BY <3>1, <3>2 DEF RunningJobs, Service!vars
  <2>3. ASSUME UNCHANGED <<submitted, redisVars, runs, completing, held>>
        PROVE  UNCHANGED Service!vars
    BY <2>3 DEF redisVars, RunningJobs, Service!vars
  <2>4. ASSUME NEW p \in Procs, ReclaimDelete(p) PROVE UNCHANGED Service!vars
    <3>1. UNCHANGED <<submitted, pending, completed, runs, completing, held>>
      BY <2>4 DEF ReclaimDelete, dispatchVars
    <3> QED  BY <3>1 DEF RunningJobs, Service!vars
  <2>5. CASE UNCHANGED vars   BY <2>3, <2>5 DEF vars, dispatchVars
  <2>6. ASSUME NEW p \in Procs, Start(p) PROVE UNCHANGED Service!vars
    BY <2>3, <2>6 DEF Start, dispatchVars
  <2>7. ASSUME NEW p \in Procs PROVE ~Crash(p) /\ ~DispatcherEnds(p) /\ ~ReclaimFails(p)
    <3>1. ~Crash(p)
      <4>1. Crash(p) => crashes' = crashes + 1   BY DEF Crash
      <4>2. crashes + 1 # crashes   BY <2>1
      <4> QED  BY <2>1, <4>1, <4>2, Zenon
    <3>2. ~DispatcherEnds(p)   BY <2>1 DEF DispatcherEnds
    <3>3. ~ReclaimFails(p)   BY <2>1 DEF ReclaimFails
    <3> QED  BY <3>1, <3>2, <3>3
  <2>12. ~Outage /\ ~Recovery
    <3>1. ~Outage
      <4>1. Outage => outages' = outages + 1   BY DEF Outage
      <4>2. outages + 1 # outages   BY <2>1
      <4> QED  BY <2>1, <4>1, <4>2, Zenon
    <3>2. ~Recovery   BY <2>1 DEF Recovery
    <3> QED  BY <3>1, <3>2
  <2>8. CASE \E p \in Procs : Select(p) \/ Pop(p) \/ Track(p) \/ CreateRun(p)
    BY <2>8, DispatchServes
  <2>9. CASE \E r \in runs : RunStep(r)   BY <2>9, TasksServe
  <2>10. CASE \E p \in Procs, j \in Jobs : CompleteAsync(p, j)   BY <2>10, CompletionServes
  <2>11. CASE (\E p \in Procs : ReclaimPush(p)) \/ EnqueueJob
    BY <2>11, ReclaimServes, EnqueueServes
  <2> QED  BY <2>2, <2>4, <2>5, <2>6, <2>7, <2>8, <2>9, <2>10, <2>11, <2>12 DEF Next
<1>3. Spec => []KeptInv
  <2>1. Init => KeptInv   BY RedisAssumption DEF Init, KeptInv
  <2>2. TypeInv /\ KeptInv /\ [Next]_vars => KeptInv'   BY KeptStep DEF TypeInv
  <2> QED  BY <2>1, <2>2, TypeInvHolds, PTL DEF Spec
<1> QED
  BY <1>1, <1>2, <1>3, TypeInvHolds, PTL DEF Spec, ServiceSpec, Service!Spec

-----------------------------------------------------------------------------
(* A single scheduler: the in-flight hash.                                 *)

(***************************************************************************)
(* InflightIsLive is not inductive: a task whose report is awaited has its *)
(* job in hand, but will drop it.  What holds a job in the hash is that it *)
(* is about to become a task, that its scan is under way, or that its      *)
(* completion is pending.  While the scheduler reclaims, what is in the    *)
(* hash is what it has still to handle.                                    *)
(***************************************************************************)
Backed(p, j) ==
    \/ held[p] = j /\ dpc[p] = "reporting"
    \/ j \in completing[p]
    \/ \E r \in runs : r.job = j /\ r.pc = "scanning"

LiveInv(p) ==
    outages = 0 => /\ up
                   /\ mode[p] = "running" => \A j \in inflight : Backed(p, j)
                   /\ mode[p] = "reclaiming" => inflight \subseteq snap[p]

LEMMA LiveStep ==
    ASSUME NEW p, Procs = {p}, TypeInv, LiveInv(p), [Next]_vars
    PROVE  LiveInv(p)'
<1> SUFFICES ASSUME outages' = 0
             PROVE  /\ up'
                    /\ mode'[p] = "running" => \A j \in inflight' : Backed(p, j)'
                    /\ mode'[p] = "reclaiming" => inflight' \subseteq snap'[p]
  BY DEF LiveInv
<1>1. p \in Procs /\ outages \in Nat
  BY DEF TypeInv, Counted
<1>2. outages = 0 /\ (up => up')
  BY <1>1 DEF Next, vars, counters, Start, ReclaimPush, ReclaimDelete,
     ReclaimFails, Select, Pop, Track, CreateRun, DispatcherEnds, WorkerDies, Crash,
     CompleteAsync, RunStep, RunComplete, RunReported, RunRaises, RequeueDelete, RequeuePush,
     RequeueFails, EnqueueJob, Outage, Recovery
<1>3. /\ up /\ up'
      /\ mode[p] = "running" => \A j \in inflight : Backed(p, j)
      /\ mode[p] = "reclaiming" => inflight \subseteq snap[p]
  BY <1>2 DEF LiveInv
<1>4. /\ \A r \in runs : Task(r) /\ r.proc = p /\ mode[p] = "running"
      /\ inflight \subseteq Jobs /\ None \notin Jobs
      /\ dpc \in [Procs -> DispatchPc] /\ completing \in [Procs -> SUBSET Jobs]
      /\ held \in [Procs -> Jobs \cup {None}] /\ mode \in [Procs -> Mode]
      /\ snap \in [Procs -> SUBSET Jobs]
      /\ mode[p] # "running" => dpc[p] = "idle" /\ completing[p] = {}
  BY RedisAssumption DEF TypeInv, Types, JobTypes, ProcTypes, Phases, Task
\* While it runs, a job is held in the hash by nothing but a task of its own.
<1>5. ASSUME mode[p] = "running", mode' = mode, inflight' \subseteq inflight,
             \A j \in inflight' : Backed(p, j) => Backed(p, j)'
      PROVE  /\ mode'[p] = "running" => \A j \in inflight' : Backed(p, j)'
             /\ mode'[p] = "reclaiming" => inflight' \subseteq snap'[p]
  BY <1>3, <1>5
<1>6. CASE Start(p)
  <2>1. /\ mode' = [mode EXCEPT ![p] = IF inflight = {} THEN "running" ELSE "reclaiming"]
        /\ snap' = [snap EXCEPT ![p] = inflight] /\ inflight' = inflight
    BY <1>3, <1>6 DEF Start, redisVars
  <2> QED  BY <1>1, <1>3, <1>4, <2>1
<1>7. CASE ReclaimPush(p)
  BY <1>3, <1>7 DEF ReclaimPush
<1>8. CASE ReclaimDelete(p)
  <2>1. /\ mode[p] = "reclaiming" /\ inflight' = inflight \ {pushed[p]}
        /\ snap' = [snap EXCEPT ![p] = @ \ {pushed[p]}]
        /\ mode' = [mode EXCEPT ![p] = IF snap'[p] = {} THEN "running" ELSE @]
    BY <1>8 DEF ReclaimDelete
  <2>2. inflight' \subseteq snap'[p]
    BY <1>1, <1>3, <1>4, <2>1
  <2> QED  BY <1>1, <1>3, <1>4, <2>1, <2>2
<1>9. CASE ReclaimFails(p) \/ DispatcherEnds(p)
  BY <1>3, <1>9 DEF ReclaimFails, DispatcherEnds
<1>10. CASE Select(p) \/ Pop(p)
  <2>1. /\ UNCHANGED <<mode, inflight, completing, runs>> /\ dpc[p] # "reporting"
        /\ mode[p] = "running"
    BY <1>1, <1>4, <1>10 DEF Select, Pop, startVars, redisVars
  <2>2. \A j \in inflight' : Backed(p, j) => Backed(p, j)'
    BY <2>1 DEF Backed
  <2> QED  BY <1>3, <1>5, <2>1, <2>2
<1>11. CASE Track(p)
  <2>1. /\ UNCHANGED <<mode, completing, runs, held>> /\ dpc[p] = "tracking"
        /\ inflight' = inflight \cup {held[p]} /\ dpc' = [dpc EXCEPT ![p] = "reporting"]
    BY <1>11 DEF Track, startVars
  <2> QED  BY <1>1, <1>3, <1>4, <2>1 DEF Backed
<1>12. CASE CreateRun(p)
  <2> DEFINE new == [proc |-> p, job |-> held[p], try |-> tries[held[p]],
                     worker |-> candidate[p], pc |-> "scanning"]
  <2>1. /\ UNCHANGED <<mode, inflight, completing>> /\ dpc[p] = "reporting"
        /\ runs' = runs \cup {new}
    BY <1>12 DEF CreateRun, startVars, redisVars
  <2>2. new.job = held[p] /\ new.pc = "scanning"
    OBVIOUS
  <2> HIDE DEF new
  <2>3. \A j \in inflight' : Backed(p, j) => Backed(p, j)'
    BY <2>1, <2>2 DEF Backed
  <2> QED  BY <1>3, <1>4, <1>5, <2>1, <2>3
<1>13. ASSUME NEW r \in runs, RunComplete(r)
       PROVE  /\ mode'[p] = "running" => \A j \in inflight' : Backed(p, j)'
              /\ mode'[p] = "reclaiming" => inflight' \subseteq snap'[p]
  <2>1. /\ UNCHANGED <<mode, inflight, held, dpc>> /\ runs \ {r} \subseteq runs'
        /\ completing' = [completing EXCEPT ![p] = @ \cup {r.job}]
    BY <1>4, <1>13 DEF RunComplete, MoveRun, startVars, redisVars, dispatchVars
  <2>2. completing[p] \cup {r.job} \subseteq completing'[p]
    BY <1>1, <1>4, <2>1
  <2> QED  BY <1>4, <1>5, <2>1, <2>2 DEF Backed
<1>14. ASSUME NEW r \in runs, RunReported(r) \/ RunRaises(r) \/ RequeueDelete(r)
                              \/ RequeuePush(r) \/ RequeueFails(r)
       PROVE  /\ mode'[p] = "running" => \A j \in inflight' : Backed(p, j)'
              /\ mode'[p] = "reclaiming" => inflight' \subseteq snap'[p]
  <2>1. /\ UNCHANGED <<mode, held, dpc, completing>> /\ runs \ {r} \subseteq runs'
        /\ inflight' \subseteq inflight /\ r.pc # "scanning"
    BY <1>14 DEF RunReported, RunRaises, RequeueDelete, RequeuePush, RequeueFails, MoveRun,
       startVars, redisVars, dispatchVars
  <2> QED  BY <1>4, <1>5, <2>1 DEF Backed
<1>15. ASSUME NEW j \in Jobs, CompleteAsync(p, j)
       PROVE  /\ mode'[p] = "running" => \A i \in inflight' : Backed(p, i)'
              /\ mode'[p] = "reclaiming" => inflight' \subseteq snap'[p]
  <2>1. /\ UNCHANGED <<mode, held, dpc, runs>> /\ j \in completing[p]
        /\ inflight' = inflight \ {j} /\ completing' = [completing EXCEPT ![p] = @ \ {j}]
    BY <1>3, <1>15 DEF CompleteAsync, startVars, dispatchVars
  <2>2. completing'[p] = completing[p] \ {j} /\ mode[p] = "running"
    BY <1>1, <1>4, <2>1
  <2>3. \A i \in inflight' : Backed(p, i) => Backed(p, i)'
    BY <2>1, <2>2 DEF Backed
  <2> QED  BY <1>5, <2>1, <2>2, <2>3
<1>16. CASE WorkerDies(p)
  <2>1. /\ UNCHANGED <<mode, held, dpc, runs, completing>> /\ mode[p] = "running"
        /\ inflight' \subseteq inflight
    BY <1>16 DEF WorkerDies, startVars, dispatchVars
  <2> QED  BY <1>3, <1>5, <2>1 DEF Backed
<1>17. CASE Crash(p)
  <2>1. mode' = [mode EXCEPT ![p] = "down"]
    BY <1>17 DEF Crash
  <2> QED  BY <1>1, <1>3, <1>4, <2>1
<1>18. CASE EnqueueJob \/ Outage \/ Recovery \/ UNCHANGED vars
  <2>1. UNCHANGED <<mode, snap, inflight, held, dpc, runs, completing>>
    BY <1>18 DEF EnqueueJob, Outage, Recovery, vars, startVars, redisVars, dispatchVars
  <2> QED  BY <1>3, <2>1 DEF Backed
<1> QED
  BY <1>3, <1>6, <1>7, <1>8, <1>9, <1>10, <1>11, <1>12, <1>13, <1>14, <1>15, <1>16, <1>17,
     <1>18 DEF Next, RunStep

(***************************************************************************)
(* While a single scheduler runs and Redis stays up, the in-flight hash    *)
(* holds no orphan, whatever crashed before: reclaim_inflight takes out    *)
(* what the last run left before any loop starts, and from then on each    *)
(* job is in hand or has its completion pending (job_queue.py).            *)
(***************************************************************************)
THEOREM HashHasNoOrphans ==
    ASSUME NEW p, Procs = {p}
    PROVE  Spec => []InflightIsLive
<1>1. Init => LiveInv(p)
  BY RedisAssumption DEF Init, LiveInv
<1>2. TypeInv /\ LiveInv(p) /\ [Next]_vars => LiveInv(p)'
  BY LiveStep
<1>3. ASSUME TypeInv, LiveInv(p) PROVE InflightIsLive
  <2>1. \A r \in runs : r.proc = p
    BY <1>3 DEF TypeInv, Types, JobTypes, Task
  <2>2. inflight \subseteq Jobs /\ None \notin Jobs
    BY <1>3, RedisAssumption DEF TypeInv, Types, JobTypes
  <2>3. \A j \in inflight : Backed(p, j) => j \in InHand(p)
    BY <2>1, <2>2 DEF Backed, InHand
  <2> QED  BY <1>3, <2>3 DEF InflightIsLive, LiveInv
<1> QED
  BY <1>1, <1>2, <1>3, TypeInvHolds, PTL DEF Spec

-----------------------------------------------------------------------------
(* A single scheduler: how many jobs can be lost.                          *)

\* A job on its way from BLPOP to HSET is known to the dispatcher only.
Popped(p) == IF dpc[p] = "tracking" THEN {held[p]} ELSE {}

\* Jobs that are nowhere on Redis: lost, or in a task that would lose them if it died.
Exposed(p) == (Submitted \ (Elements(pending) \cup inflight \cup completed)) \ Popped(p)

\* Tasks whose report has raised, and that have not begun to requeue their job.
Failing == {r \in runs : r.pc = "failing"}

\* What the environment has done to the scheduler.
Harm == crashes + outages + faults

\* 1 if the dispatcher is between BLPOP and HSET while Redis is away: the HSET will raise.
Stuck(p) == IF dpc[p] = "tracking" /\ ~up THEN 1 ELSE 0

(***************************************************************************)
(* Each report that raises pays for the job that its task takes out of the *)
(* hash, each crash for the job the dispatcher had popped, and so does     *)
(* each outage, at whose end no dispatcher is stuck any more.              *)
(***************************************************************************)
LossInv(p) ==
    /\ Cardinality(Exposed(p)) + Cardinality(Failing) + Stuck(p) <= Harm
    /\ pushed[p] # None => pushed[p] \in Elements(pending)

\* What LossInv counts is finite.
LEMMA LossTypes ==
    ASSUME NEW p, TypeInv
    PROVE  /\ IsFiniteSet(Exposed(p)) /\ IsFiniteSet(Failing)
           /\ Cardinality(Exposed(p)) \in Nat /\ Cardinality(Failing) \in Nat
           /\ Stuck(p) \in {0, 1}
           /\ crashes \in Nat /\ outages \in Nat /\ faults \in Nat
<1>1. submitted \in Int /\ IsFiniteSet(runs)
  BY DEF TypeInv, Types, JobTypes, Tasks
<1>2. IsFiniteSet(Submitted)
  BY <1>1, FS_Interval DEF Submitted
<1>3. Exposed(p) \in SUBSET Submitted /\ Failing \in SUBSET runs
  BY DEF Exposed, Failing
<1>4. IsFiniteSet(Exposed(p)) /\ IsFiniteSet(Failing)
  BY <1>1, <1>2, <1>3, FS_Subset
<1>5. Cardinality(Exposed(p)) \in Nat /\ Cardinality(Failing) \in Nat
  BY <1>4, FS_CardinalityType
<1>6. crashes \in Nat /\ outages \in Nat /\ faults \in Nat
  BY RedisAssumption DEF TypeInv, Counted
<1> QED
  BY <1>4, <1>5, <1>6 DEF Stuck

LEMMA LossTypesNext ==
    ASSUME NEW p
    PROVE  TypeInv' => /\ IsFiniteSet(Exposed(p)') /\ IsFiniteSet(Failing')
                       /\ Cardinality(Exposed(p)') \in Nat /\ Cardinality(Failing') \in Nat
                       /\ Stuck(p)' \in {0, 1}
                       /\ crashes' \in Nat /\ outages' \in Nat /\ faults' \in Nat
<1> DEFINE Typed == /\ IsFiniteSet(Exposed(p)) /\ IsFiniteSet(Failing)
                    /\ Cardinality(Exposed(p)) \in Nat /\ Cardinality(Failing) \in Nat
                    /\ Stuck(p) \in {0, 1}
                    /\ crashes \in Nat /\ outages \in Nat /\ faults \in Nat
<1>1. TypeInv => Typed
  BY LossTypes
<1> HIDE DEF Typed
<1>2. TypeInv' => Typed'
  BY <1>1, PTL
<1> QED
  BY <1>2 DEF Typed

\* A set that gains at most one element.
LEMMA AddAtMostOne ==
    ASSUME NEW S, IsFiniteSet(S), NEW x, NEW T, T \subseteq S \cup {x}
    PROVE  IsFiniteSet(T) /\ Cardinality(T) \in Nat /\ Cardinality(T) <= Cardinality(S) + 1
<1>1. /\ IsFiniteSet(S \cup {x}) /\ Cardinality(S) \in Nat
      /\ Cardinality(S \cup {x}) = IF x \in S THEN Cardinality(S) ELSE Cardinality(S) + 1
  BY FS_AddElement, FS_CardinalityType
<1>2. /\ IsFiniteSet(T) /\ Cardinality(T) <= Cardinality(S \cup {x})
  BY <1>1, FS_Subset
<1>3. Cardinality(T) \in Nat
  BY <1>2, FS_CardinalityType
<1> QED
  BY <1>1, <1>2, <1>3

\* The sums that a step may change, and how.
LEMMA LossFrame ==
    ASSUME NEW p, TypeInv, TypeInv', LossInv(p)
    PROVE  LET E == Cardinality(Exposed(p))  EE == Cardinality(Exposed(p)')
               F == Cardinality(Failing)     FF == Cardinality(Failing')
           IN  /\ Exposed(p)' \subseteq Exposed(p) => EE <= E
               /\ \A j : Exposed(p)' \subseteq Exposed(p) \cup {j} => EE <= E + 1
               /\ Failing' \subseteq Failing => FF <= F
               /\ \A r : Failing' \subseteq Failing \cup {r} => FF <= F + 1
               /\ \A r \in Failing : Failing' \subseteq Failing \ {r} => FF <= F - 1
               /\ \A d \in {0, 1}, g \in {-1, 0, 1} :
                     EE <= E + d /\ FF <= F + g /\ Stuck(p)' + d + g + Harm <= Stuck(p) + Harm'
                     => EE + FF + Stuck(p)' <= Harm'
<1> DEFINE E == Cardinality(Exposed(p))
           F == Cardinality(Failing)
           EE == Cardinality(Exposed(p)')
           FF == Cardinality(Failing')
<1>1. /\ IsFiniteSet(Exposed(p)) /\ IsFiniteSet(Failing)
      /\ E \in Nat /\ F \in Nat /\ Stuck(p) \in Nat /\ Harm \in Nat
  BY LossTypes DEF Harm
<1>2. /\ IsFiniteSet(Exposed(p)') /\ IsFiniteSet(Failing')
      /\ EE \in Nat /\ FF \in Nat /\ Stuck(p)' \in Nat /\ Harm' \in Nat
  BY <1>1, LossTypesNext DEF Harm
<1>3. /\ Exposed(p)' \subseteq Exposed(p) => EE <= E
      /\ Failing' \subseteq Failing => FF <= F
  BY <1>1, FS_Subset
<1>4. /\ \A j : Exposed(p)' \subseteq Exposed(p) \cup {j} => EE <= E + 1
      /\ \A r : Failing' \subseteq Failing \cup {r} => FF <= F + 1
  BY <1>1, AddAtMostOne
<1>5. ASSUME NEW r \in Failing, Failing' \subseteq Failing \ {r} PROVE FF <= F - 1
  <2>1. IsFiniteSet(Failing \ {r}) /\ Cardinality(Failing \ {r}) = F - 1
    BY <1>1, FS_RemoveElement
  <2>2. FF <= Cardinality(Failing \ {r})
    BY <1>5, <2>1, FS_Subset
  <2> QED  BY <2>1, <2>2
<1>6. E + F + Stuck(p) <= Harm
  BY DEF LossInv
<1> HIDE DEF E, F, EE, FF
<1>7. ASSUME NEW d \in {0, 1}, NEW g \in {-1, 0, 1}, EE <= E + d, FF <= F + g,
             Stuck(p)' + d + g + Harm <= Stuck(p) + Harm'
      PROVE  EE + FF + Stuck(p)' <= Harm'
  BY <1>1, <1>2, <1>6, <1>7
<1>8. /\ Exposed(p)' \subseteq Exposed(p) => EE <= E
      /\ \A j : Exposed(p)' \subseteq Exposed(p) \cup {j} => EE <= E + 1
      /\ Failing' \subseteq Failing => FF <= F
      /\ \A r : Failing' \subseteq Failing \cup {r} => FF <= F + 1
      /\ \A r \in Failing : Failing' \subseteq Failing \ {r} => FF <= F - 1
      /\ \A d \in {0, 1}, g \in {-1, 0, 1} :
            EE <= E + d /\ FF <= F + g /\ Stuck(p)' + d + g + Harm <= Stuck(p) + Harm'
            => EE + FF + Stuck(p)' <= Harm'
  BY <1>3, <1>4, <1>5, <1>7
<1> QED
  BY <1>8 DEF E, F, EE, FF

LEMMA LossStep ==
    ASSUME NEW p, Procs = {p}, TypeInv, LossInv(p), [Next]_vars
    PROVE  LossInv(p)'
<1> DEFINE E == Cardinality(Exposed(p))
           EE == Cardinality(Exposed(p)')
           F == Cardinality(Failing)
           FF == Cardinality(Failing')
           Goal == /\ EE + FF + Stuck(p)' <= Harm'
                   /\ pushed'[p] # None => pushed'[p] \in Elements(pending')
           Gone == Submitted \ (Elements(pending) \cup inflight \cup completed)
<1> SUFFICES Goal
  BY DEF LossInv
<1>1. TypeInv'
  BY TypeInvStep
<1>2. /\ \A r \in runs : Task(r) /\ r.proc = p /\ r.job \in Jobs
      /\ inflight \subseteq Jobs /\ None \notin Jobs /\ pending \in Seq(Jobs) /\ p \in Procs
      /\ dpc \in [Procs -> DispatchPc] /\ completing \in [Procs -> SUBSET Jobs]
      /\ held \in [Procs -> Jobs \cup {None}] /\ pushed \in [Procs -> Jobs \cup {None}]
      /\ snap \in [Procs -> SUBSET Jobs] /\ submitted \in 0..MaxJobs
      /\ pushed[p] # None => dpc[p] = "idle" /\ pushed[p] \in Elements(pending)
      /\ held[p] # None => held[p] \in Submitted
  BY RedisAssumption DEF TypeInv, Types, JobTypes, ProcTypes, Phases, Traces, Task, LossInv
<1>3. crashes \in Nat /\ outages \in Nat /\ faults \in Nat /\ Stuck(p) \in {0, 1}
  BY LossTypes
<1>a. /\ Exposed(p)' \subseteq Exposed(p) => EE <= E
      /\ \A j : Exposed(p)' \subseteq Exposed(p) \cup {j} => EE <= E + 1
      /\ Failing' \subseteq Failing => FF <= F
      /\ \A r : Failing' \subseteq Failing \cup {r} => FF <= F + 1
      /\ \A r \in Failing : Failing' \subseteq Failing \ {r} => FF <= F - 1
      /\ \A d \in {0, 1}, g \in {-1, 0, 1} :
            EE <= E + d /\ FF <= F + g /\ Stuck(p)' + d + g + Harm <= Stuck(p) + Harm'
            => EE + FF + Stuck(p)' <= Harm'
  BY <1>1, LossFrame
<1>b. E \in Nat /\ EE \in Nat /\ F \in Nat /\ FF \in Nat /\ Harm \in Nat /\ Harm' \in Nat
      /\ Stuck(p)' \in {0, 1}
  BY <1>1, <1>3, LossTypes, LossTypesNext DEF Harm
<1> HIDE DEF E, EE, F, FF
\* A step that exposes no job, and of which no fault is part.
<1>4. ASSUME Exposed(p)' \subseteq Exposed(p), Failing' \subseteq Failing,
             Stuck(p)' + Harm <= Stuck(p) + Harm'
      PROVE  EE + FF + Stuck(p)' <= Harm'
  <2>1. EE <= E + 0 /\ FF <= F + 0
    BY <1>b, <1>a, <1>4
  <2>2. Stuck(p)' + 0 + 0 + Harm <= Stuck(p) + Harm'
    BY <1>b, <1>3, <1>4
  <2> QED  BY <1>a, <2>1, <2>2
<1>5. ASSUME UNCHANGED redisVars, UNCHANGED submitted
      PROVE  /\ Gone' = Gone /\ Elements(pending') = Elements(pending)
             /\ dpc' = dpc /\ held' = held => Exposed(p)' = Exposed(p)
  BY <1>5 DEF redisVars, Submitted, Exposed, Popped
<1>6. ASSUME UNCHANGED <<crashes, outages, faults>> PROVE Harm' = Harm
  BY <1>6 DEF Harm
<1>7. CASE Start(p) \/ ReclaimFails(p) \/ Recovery \/ UNCHANGED vars
  <2>1. /\ UNCHANGED redisVars /\ UNCHANGED <<submitted, dpc, held, runs>>
        /\ UNCHANGED <<crashes, outages, faults>> /\ (up => up')
        /\ pushed'[p] \in {pushed[p], None}
    BY <1>2, <1>7 DEF Start, ReclaimFails, Recovery, vars, dispatchVars, startVars, counters
  <2>2. Exposed(p)' = Exposed(p) /\ Failing' = Failing /\ Harm' = Harm
    BY <1>5, <1>6, <2>1 DEF Failing
  <2>3. Stuck(p)' <= Stuck(p)
    BY <2>1 DEF Stuck
  <2>4. EE + FF + Stuck(p)' <= Harm'
    BY <1>3, <1>4, <1>b, <2>2, <2>3
  <2> QED  BY <1>2, <1>5, <2>1, <2>4
<1>8. CASE ReclaimPush(p)
  <2>1. PICK j \in snap[p] : /\ pending' = Append(pending, j)
                             /\ pushed' = [pushed EXCEPT ![p] = j]
    BY <1>8 DEF ReclaimPush
  <2>2. Elements(pending') = Elements(pending) \cup {j}
    BY <1>2, <2>1, AppendElements
  <2>3. UNCHANGED <<inflight, completed, submitted, dpc, held, runs, up, crashes, outages, faults>>
    BY <1>8 DEF ReclaimPush, dispatchVars, counters
  <2>4. Exposed(p)' \subseteq Exposed(p)
    BY <2>2, <2>3 DEF Exposed, Popped, Submitted
  <2>5. Failing' = Failing /\ Stuck(p)' = Stuck(p) /\ Harm' = Harm
    BY <2>3 DEF Failing, Stuck, Harm
  <2> QED  BY <1>2, <1>3, <1>4, <2>1, <2>2, <2>4, <2>5 DEF Harm
<1>9. CASE ReclaimDelete(p)
  <2>1. /\ inflight' = inflight \ {pushed[p]} /\ pushed' = [pushed EXCEPT ![p] = None]
        /\ pushed[p] # None
        /\ UNCHANGED <<pending, completed, submitted, dpc, held, runs, up>>
        /\ UNCHANGED <<crashes, outages, faults>>
    BY <1>9 DEF ReclaimDelete, dispatchVars, counters
  <2>2. Exposed(p)' \subseteq Exposed(p)
    BY <1>2, <2>1 DEF Exposed, Popped, Submitted
  <2>3. Failing' = Failing /\ Stuck(p)' = Stuck(p) /\ Harm' = Harm
    BY <2>1 DEF Failing, Stuck, Harm
  <2> QED  BY <1>2, <1>3, <1>4, <2>1, <2>2, <2>3 DEF Harm
<1>10. CASE EnqueueJob
  <2>1. /\ submitted' = submitted + 1 /\ pending' = Append(pending, submitted + 1)
        /\ submitted + 1 \in Jobs
        /\ UNCHANGED <<inflight, completed, dpc, held, runs, up, pushed>>
        /\ UNCHANGED <<crashes, outages, faults>>
    BY <1>2, <1>10, MaxJobsAssumption
    DEF EnqueueJob, dispatchVars, startVars, counters, Jobs
  <2>2. Elements(pending') = Elements(pending) \cup {submitted + 1}
    BY <1>2, <2>1, AppendElements
  <2>3. Submitted' = Submitted \cup {submitted + 1}
    BY <1>2, <2>1 DEF Submitted
  <2>4. Exposed(p)' \subseteq Exposed(p)
    BY <2>1, <2>2, <2>3 DEF Exposed, Popped
  <2>5. Failing' = Failing /\ Stuck(p)' = Stuck(p) /\ Harm' = Harm
    BY <2>1 DEF Failing, Stuck, Harm
  <2> QED  BY <1>2, <1>3, <1>4, <2>1, <2>2, <2>4, <2>5 DEF Harm
<1>11. CASE Select(p) \/ CreateRun(p)
  <2>1. /\ UNCHANGED redisVars /\ UNCHANGED <<submitted, up, pushed>>
        /\ UNCHANGED <<crashes, outages, faults>>
        /\ dpc[p] # "tracking" /\ dpc'[p] # "tracking"
    BY <1>2, <1>11 DEF Select, CreateRun, startVars, counters
  <2>2. Exposed(p)' = Exposed(p)
    BY <1>5, <2>1 DEF Exposed, Popped
  <2>3. \A r \in runs' : r \in runs \/ r.pc = "scanning"
    BY <1>11 DEF Select, CreateRun
  <2>4. Failing' \subseteq Failing /\ Stuck(p)' = 0 /\ Stuck(p) = 0 /\ Harm' = Harm
    BY <2>1, <2>3 DEF Failing, Stuck, Harm
  <2> QED  BY <1>2, <1>3, <1>4, <1>5, <2>1, <2>2, <2>4 DEF Harm
<1>12. CASE Pop(p)
  <2>1. /\ held' = [held EXCEPT ![p] = Head(pending)] /\ pending' = Tail(pending)
        /\ pending # << >> /\ dpc[p] = "popping" /\ up /\ dpc' = [dpc EXCEPT ![p] = "tracking"]
        /\ UNCHANGED <<inflight, completed, submitted, runs, up, pushed>>
        /\ UNCHANGED <<crashes, outages, faults>>
    BY <1>12 DEF Pop, startVars, counters
  <2>2. Elements(pending) = Elements(pending') \cup {held'[p]} /\ dpc'[p] = "tracking"
    BY <1>2, <2>1, TailElements
  <2>3. Exposed(p)' \subseteq Exposed(p)
    BY <2>1, <2>2 DEF Exposed, Popped, Submitted
  <2>4. Failing' = Failing /\ Stuck(p)' = 0 /\ Harm' = Harm
    BY <2>1, <2>2 DEF Failing, Stuck, Harm
  <2> QED  BY <1>2, <1>3, <1>4, <2>1, <2>3, <2>4 DEF Harm
<1>13. CASE Track(p)
  <2>1. /\ inflight' = inflight \cup {held[p]} /\ dpc[p] = "tracking" /\ dpc'[p] = "reporting"
        /\ up /\ UNCHANGED <<pending, completed, submitted, runs, up, pushed, held>>
        /\ UNCHANGED <<crashes, outages, faults>>
    BY <1>2, <1>13 DEF Track, startVars, counters
  <2>2. Exposed(p)' \subseteq Exposed(p)
    BY <2>1 DEF Exposed, Popped, Submitted
  <2>3. Failing' = Failing /\ Stuck(p)' = 0 /\ Harm' = Harm
    BY <2>1 DEF Failing, Stuck, Harm
  <2> QED  BY <1>2, <1>3, <1>4, <2>1, <2>2, <2>3 DEF Harm
\* The loop ends: what it had popped is lost, and was paid for by the outage.
<1>14. CASE DispatcherEnds(p)
  <2>1. /\ dpc'[p] = "ended" /\ ~up /\ UNCHANGED redisVars
        /\ UNCHANGED <<submitted, runs, pushed, crashes, outages, faults>>
    BY <1>2, <1>14 DEF DispatcherEnds, startVars, counters
  <2>2. Failing' = Failing /\ Stuck(p)' = 0 /\ Harm' = Harm
    BY <2>1 DEF Failing, Stuck, Harm
  <2>3. CASE dpc[p] = "tracking"
    <3>1. Exposed(p)' \subseteq Exposed(p) \cup {held[p]}
      BY <1>5, <2>1 DEF Exposed, Popped
    <3>2. Stuck(p) = 1
      BY <2>1, <2>3 DEF Stuck
    <3>3. EE <= E + 1 /\ FF <= F + 0 /\ Stuck(p)' + 1 + 0 + Harm <= Stuck(p) + Harm'
      BY <1>b, <1>a, <2>2, <3>1, <3>2
    <3>4. EE + FF + Stuck(p)' <= Harm'
      BY <1>a, <3>3
    <3> QED  BY <1>2, <1>5, <2>1, <3>4
  <2>4. CASE dpc[p] # "tracking"
    <3>1. Exposed(p)' \subseteq Exposed(p)
      BY <1>5, <2>1, <2>4 DEF Exposed, Popped
    <3>2. Stuck(p) = 0
      BY <2>4 DEF Stuck
    <3> QED  BY <1>2, <1>3, <1>4, <1>5, <2>1, <2>2, <3>1, <3>2 DEF Harm
  <2> QED  BY <2>3, <2>4
<1>15. CASE Crash(p)
  <2>1. /\ dpc'[p] = "idle" /\ UNCHANGED redisVars /\ runs' \subseteq runs
        /\ UNCHANGED <<submitted, outages, faults>> /\ crashes' = crashes + 1
        /\ pushed'[p] = None
    BY <1>2, <1>15 DEF Crash
  <2>2. Failing' \subseteq Failing /\ Stuck(p)' = 0 /\ Harm' = Harm + 1
    BY <1>3, <2>1 DEF Failing, Stuck, Harm
  <2>3. Exposed(p)' \subseteq Exposed(p) \cup {held[p]}
    BY <1>5, <2>1 DEF Exposed, Popped
  <2>4. EE <= E + 1 /\ FF <= F + 0 /\ Stuck(p)' + 1 + 0 + Harm <= Stuck(p) + Harm'
    BY <1>b, <1>a, <1>3, <2>2, <2>3
  <2>5. EE + FF + Stuck(p)' <= Harm'
    BY <1>a, <2>4
  <2> QED  BY <2>1, <2>5
<1>16. CASE Outage
  <2>1. /\ UNCHANGED redisVars /\ UNCHANGED <<submitted, dpc, held, runs, pushed>>
        /\ UNCHANGED <<crashes, faults>> /\ outages' = outages + 1
    BY <1>16 DEF Outage, startVars, dispatchVars
  <2>2. Exposed(p)' = Exposed(p) /\ Failing' = Failing /\ Harm' = Harm + 1
    BY <1>3, <1>5, <2>1 DEF Failing, Harm
  <2>3. Stuck(p)' <= 1
    BY DEF Stuck
  <2>4. Stuck(p)' \in {0, 1}
    BY DEF Stuck
  <2> QED  BY <1>2, <1>3, <1>4, <1>5, <2>1, <2>2, <2>4 DEF Harm
<1>17. ASSUME NEW r \in runs, RunComplete(r) \/ RunReported(r) \/ RequeueFails(r) PROVE Goal
  <2>1. /\ UNCHANGED redisVars /\ UNCHANGED <<submitted, dpc, held, up, pushed>>
        /\ UNCHANGED <<crashes, outages, faults>>
    BY <1>17 DEF RunComplete, RunReported, RequeueFails, startVars, dispatchVars, counters
  <2>2. \A q \in runs' : q \in runs \/ q.pc = "reporting"
    BY <1>2, <1>17 DEF RunComplete, RunReported, RequeueFails, MoveRun, Task
  <2>3. Failing' \subseteq Failing /\ Stuck(p)' = Stuck(p) /\ Harm' = Harm
    BY <2>1, <2>2 DEF Failing, Stuck, Harm
  <2> QED  BY <1>2, <1>3, <1>4, <1>5, <2>1, <2>3 DEF Harm
<1>18. ASSUME NEW r \in runs, RunRaises(r) PROVE Goal
  <2> DEFINE new == [r EXCEPT !.pc = "failing"]
  <2>1. /\ UNCHANGED redisVars /\ UNCHANGED <<submitted, dpc, held, up, pushed>>
        /\ UNCHANGED <<crashes, outages>> /\ faults' = faults + 1
        /\ runs' = (runs \ {r}) \cup {new}
    BY <1>18 DEF RunRaises, MoveRun, startVars, dispatchVars
  <2> HIDE DEF new
  <2>2. Exposed(p)' = Exposed(p) /\ Failing' \subseteq Failing \cup {new}
    BY <1>5, <2>1 DEF Failing
  <2>3. Stuck(p)' = Stuck(p) /\ Harm' = Harm + 1
    BY <1>3, <2>1 DEF Stuck, Harm
  <2>4. EE <= E + 0 /\ FF <= F + 1 /\ Stuck(p)' + 0 + 1 + Harm <= Stuck(p) + Harm'
    BY <1>b, <1>a, <1>3, <2>2, <2>3
  <2>5. EE + FF + Stuck(p)' <= Harm'
    BY <1>a, <2>4
  <2> QED  BY <1>2, <1>5, <2>1, <2>5
\* requeue() takes the job out of the hash: the report that raised has paid for it.
<1>19. ASSUME NEW r \in runs, RequeueDelete(r) PROVE Goal
  <2> DEFINE new == [r EXCEPT !.pc = "repushing"]
  <2>1. /\ UNCHANGED <<pending, completed, submitted, dpc, held, up, pushed>>
        /\ UNCHANGED <<crashes, outages, faults>> /\ inflight' = inflight \ {r.job}
        /\ runs' = (runs \ {r}) \cup {new} /\ r \in Failing
    BY <1>19 DEF RequeueDelete, MoveRun, startVars, dispatchVars, counters, Failing
  <2>2. new.pc = "repushing"
    BY <1>2 DEF Task
  <2> HIDE DEF new
  <2>3. Failing' \subseteq Failing \ {r}
    BY <2>1, <2>2 DEF Failing
  <2>4. Exposed(p)' \subseteq Exposed(p) \cup {r.job}
    BY <2>1 DEF Exposed, Popped, Submitted
  <2>5. Stuck(p)' = Stuck(p) /\ Harm' = Harm
    BY <2>1 DEF Stuck, Harm
  <2>6. EE <= E + 1 /\ FF <= F + -1 /\ Stuck(p)' + 1 + -1 + Harm <= Stuck(p) + Harm'
    BY <1>b, <1>a, <1>3, <2>1, <2>3, <2>4, <2>5
  <2>7. EE + FF + Stuck(p)' <= Harm'
    BY <1>a, <2>6
  <2> QED  BY <1>2, <2>1, <2>7
<1>20. ASSUME NEW r \in runs, RequeuePush(r) PROVE Goal
  <2>1. /\ UNCHANGED <<inflight, completed, submitted, dpc, held, up, pushed>>
        /\ UNCHANGED <<crashes, outages, faults>> /\ pending' = Append(pending, r.job)
        /\ runs' \subseteq runs
    BY <1>20 DEF RequeuePush, startVars, dispatchVars, counters
  <2>2. Elements(pending') = Elements(pending) \cup {r.job}
    BY <1>2, <2>1, AppendElements
  <2>3. Exposed(p)' \subseteq Exposed(p)
    BY <2>1, <2>2 DEF Exposed, Popped, Submitted
  <2>4. Failing' \subseteq Failing /\ Stuck(p)' = Stuck(p) /\ Harm' = Harm
    BY <2>1 DEF Failing, Stuck, Harm
  <2> QED  BY <1>2, <1>3, <1>4, <2>1, <2>2, <2>3, <2>4 DEF Harm
<1>21. ASSUME NEW j \in Jobs, CompleteAsync(p, j) PROVE Goal
  <2>1. /\ UNCHANGED <<pending, submitted, dpc, held, up, pushed, runs>>
        /\ UNCHANGED <<crashes, outages, faults>>
        /\ inflight \cup completed \subseteq inflight' \cup completed'
    BY <1>21 DEF CompleteAsync, startVars, dispatchVars, counters
  <2>2. Exposed(p)' \subseteq Exposed(p)
    BY <2>1 DEF Exposed, Popped, Submitted
  <2>3. Failing' = Failing /\ Stuck(p)' = Stuck(p) /\ Harm' = Harm
    BY <2>1 DEF Failing, Stuck, Harm
  <2> QED  BY <1>2, <1>3, <1>4, <2>1, <2>2, <2>3 DEF Harm
<1>22. CASE WorkerDies(p)
  <2> DEFINE mine == {j \in inflight : StoredWorker(j) = worker[p]}
  <2>1. /\ UNCHANGED <<completed, submitted, dpc, held, up, pushed, runs>>
        /\ UNCHANGED <<crashes, outages, faults>>
    BY <1>22 DEF WorkerDies, startVars, dispatchVars
  <2>2. /\ Elements(pending) \subseteq Elements(pending')
        /\ Elements(pending) \cup inflight \subseteq Elements(pending') \cup inflight'
    <3>1. CASE up
      <4>1. PICK s \in Orderings(mine) : pending' = pending \o s /\ inflight' = inflight \ mine
        BY <1>22, <3>1 DEF WorkerDies
      <4>2. s \in Seq(Jobs) /\ Elements(s) = mine
        BY <1>2, OrderingsType
      <4>3. Elements(pending') = Elements(pending) \cup mine
        BY <1>2, <4>1, <4>2, ConcatElements
      <4> HIDE DEF mine
      <4> QED  BY <4>1, <4>3
    <3>2. CASE ~up
      BY <1>22, <3>2 DEF WorkerDies
    <3> QED  BY <3>1, <3>2
  <2>3. Exposed(p)' \subseteq Exposed(p)
    BY <2>1, <2>2 DEF Exposed, Popped, Submitted
  <2>4. Failing' = Failing /\ Stuck(p)' = Stuck(p) /\ Harm' = Harm
    BY <2>1 DEF Failing, Stuck, Harm
  <2> QED  BY <1>2, <1>3, <1>4, <2>1, <2>2, <2>3, <2>4 DEF Harm
<1> HIDE DEF Goal
<1> QED
  BY <1>7, <1>8, <1>9, <1>10, <1>11, <1>12, <1>13, <1>14, <1>15, <1>16, <1>17, <1>18, <1>19,
     <1>20, <1>21, <1>22 DEF Next, RunStep

(***************************************************************************)
(* However often a single scheduler crashes, Redis goes away or a report   *)
(* raises, each of these loses at most one job: what was popped and not    *)
(* yet in the hash, or was out of the hash and not yet on the list again   *)
(* (dequeue and requeue of job_queue.py).                                  *)
(***************************************************************************)
THEOREM LossesAreBounded ==
    ASSUME NEW p, Procs = {p}
    PROVE  Spec => []LossBounded
<1>1. Init => LossInv(p)
  <2> SUFFICES ASSUME Init PROVE LossInv(p)
    OBVIOUS
  <2>1. Exposed(p) = {} /\ Failing = {} /\ Stuck(p) = 0 /\ Harm = 0 /\ pushed[p] = None
    BY DEF Init, Exposed, Failing, Stuck, Harm, Submitted, Popped
  <2> QED  BY <2>1, FS_EmptySet DEF LossInv
<1>2. TypeInv /\ LossInv(p) /\ [Next]_vars => LossInv(p)'
  BY LossStep
<1>3. ASSUME TypeInv, LossInv(p) PROVE LossBounded
  <2>1. dpc[p] = "tracking" => held[p] # None
    BY <1>3 DEF TypeInv, Types, ProcTypes
  <2>2. Lost \in SUBSET Exposed(p)
    BY <2>1 DEF Lost, Exposed, Popped, InHand, Submitted
  <2>3. Cardinality(Lost) <= Cardinality(Exposed(p)) /\ IsFiniteSet(Lost)
    BY <1>3, <2>2, LossTypes, FS_Subset
  <2>4. Cardinality(Lost) \in Nat
    BY <2>3, FS_CardinalityType
  <2>5. /\ Cardinality(Exposed(p)) \in Nat /\ Cardinality(Failing) \in Nat
        /\ Stuck(p) \in {0, 1} /\ Harm \in Nat
    BY <1>3, LossTypes DEF Harm
  <2> QED  BY <1>3, <2>3, <2>4, <2>5 DEF LossInv, LossBounded, Harm
<1> QED
  BY <1>1, <1>2, <1>3, TypeInvHolds, PTL DEF Spec

-----------------------------------------------------------------------------
(* A single scheduler: how many copies of a job the list may hold.         *)

Occurrences(s, j) == {i \in 1..Len(s) : s[i] = j}

LEMMA OccurrencesType ==
    ASSUME NEW s \in Seq(Jobs), NEW j
    PROVE  /\ IsFiniteSet(Occurrences(s, j)) /\ Cardinality(Occurrences(s, j)) \in Nat
           /\ (j \in Elements(s)) <=> (Cardinality(Occurrences(s, j)) >= 1)
<1>1. Len(s) \in Nat
  BY LenProperties
<1>2. IsFiniteSet(1..Len(s)) /\ Occurrences(s, j) \in SUBSET (1..Len(s))
  BY <1>1, FS_Interval DEF Occurrences
<1>3. IsFiniteSet(Occurrences(s, j)) /\ Cardinality(Occurrences(s, j)) \in Nat
  BY <1>2, FS_Subset, FS_CardinalityType
<1>4. Cardinality(Occurrences(s, j)) = 0 <=> Occurrences(s, j) = {}
  BY <1>3, FS_EmptySet
<1>5. j \in Elements(s) <=> Occurrences(s, j) # {}
  BY DEF Elements, Occurrences
<1> QED
  BY <1>3, <1>4, <1>5

LEMMA OccurrencesAppend ==
    ASSUME NEW s \in Seq(Jobs), NEW x \in Jobs, NEW j
    PROVE  Cardinality(Occurrences(Append(s, x), j))
              = Cardinality(Occurrences(s, j)) + (IF x = j THEN 1 ELSE 0)
<1>1. /\ Len(Append(s, x)) = Len(s) + 1 /\ Len(s) \in Nat
      /\ \A i \in 1..Len(s) : Append(s, x)[i] = s[i]
      /\ Append(s, x)[Len(s) + 1] = x
  BY AppendProperties, LenProperties
<1>2. 1..(Len(s) + 1) = (1..Len(s)) \cup {Len(s) + 1} /\ Len(s) + 1 \notin 1..Len(s)
  BY <1>1
<1>3. IsFiniteSet(Occurrences(s, j)) /\ Cardinality(Occurrences(s, j)) \in Nat
  BY OccurrencesType
<1>4. CASE x = j
  <2>1. Occurrences(Append(s, x), j) = Occurrences(s, j) \cup {Len(s) + 1}
    BY <1>1, <1>2, <1>4 DEF Occurrences
  <2>2. Len(s) + 1 \notin Occurrences(s, j)
    BY <1>2 DEF Occurrences
  <2> QED  BY <1>3, <1>4, <2>1, <2>2, FS_AddElement
<1>5. CASE x # j
  <2>1. Occurrences(Append(s, x), j) = Occurrences(s, j)
    BY <1>1, <1>2, <1>5 DEF Occurrences
  <2> QED  BY <1>3, <1>5, <2>1
<1> QED
  BY <1>4, <1>5

LEMMA OccurrencesTail ==
    ASSUME NEW s \in Seq(Jobs), s # << >>, NEW j
    PROVE  Cardinality(Occurrences(Tail(s), j)) + (IF Head(s) = j THEN 1 ELSE 0)
              <= Cardinality(Occurrences(s, j))
<1> DEFINE A == Occurrences(Tail(s), j)
           B == Occurrences(s, j)
           f == [i \in A |-> i + 1]
<1>1. /\ Tail(s) \in Seq(Jobs) /\ Head(s) = s[1]
      /\ Len(Tail(s)) = Len(s) - 1 /\ Len(s) \in Nat /\ Len(s) >= 1
      /\ \A i \in 1..Len(Tail(s)) : Tail(s)[i] = s[i + 1]
  BY HeadTailProperties, EmptySeq, LenProperties
<1>2. \A i \in A : i \in Nat /\ i >= 1 /\ i + 1 \in B \ {1}
  BY <1>1 DEF Occurrences
<1>3. /\ IsFiniteSet(A) /\ Cardinality(A) \in Nat
      /\ IsFiniteSet(B) /\ Cardinality(B) \in Nat
  BY <1>1, OccurrencesType
<1>4. f \in Injection(A, B \ {1})
  <2>1. f \in [A -> B \ {1}]
    BY <1>2
  <2>2. \A a, b \in A : f[a] = f[b] => a = b
    BY <1>2
  <2> QED  BY <2>1, <2>2 DEF Injection, IsInjective
<1>5. /\ IsFiniteSet(B \ {1})
      /\ Cardinality(B \ {1}) = IF 1 \in B THEN Cardinality(B) - 1 ELSE Cardinality(B)
  BY <1>3, FS_RemoveElement
<1>6. Cardinality(A) <= Cardinality(B \ {1})
  BY <1>4, <1>5, FS_Injection
<1>7. Head(s) = j <=> 1 \in B
  BY <1>1 DEF Occurrences
<1> QED
  BY <1>3, <1>5, <1>6, <1>7

RunsOf(j) == {r \in runs : r.job = j}

HasInHand(p, j) == IF held[p] = j THEN 1 ELSE 0

\* Who will put j through, or may put it on the list again: its copies on the list,
\* the dispatcher, and its tasks.
Takers(p, j) == Copies(j) + HasInHand(p, j) + Cardinality(RunsOf(j))

\* 1 if reclaim_inflight has still to push j.
ToReclaim(p, j) ==
    IF \/ mode[p] = "down" /\ j \in inflight
       \/ mode[p] = "reclaiming" /\ j \in snap[p] /\ pushed[p] # j
    THEN 1 ELSE 0

\* Before the first crash a job has one taker, and is in the hash only while that is a
\* task, so the reclaim after the crash finds no copy of it on the list.
Once(p, j) ==
    j \in inflight => /\ j \notin Elements(pending)
                      /\ held[p] = j => dpc[p] = "reporting"
                      /\ \A r \in runs : r.job = j => r.pc # "repushing"

(***************************************************************************)
(* Each later crash adds at most one taker: a job that the crash left in   *)
(* the hash although a reclaim had pushed it already.                      *)
(***************************************************************************)
CopiesInv(p) ==
    /\ \A j \in Jobs : Takers(p, j) + ToReclaim(p, j) <= IF crashes = 0 THEN 1 ELSE crashes
    /\ crashes = 0 => /\ \A j \in Jobs : Once(p, j)
                      /\ mode[p] # "reclaiming"
                      /\ mode[p] = "down" => inflight = {}

TakersTyped(p) ==
    \A j \in Jobs :
        /\ Copies(j) \in Nat /\ HasInHand(p, j) \in {0, 1} /\ ToReclaim(p, j) \in {0, 1}
        /\ IsFiniteSet(RunsOf(j)) /\ Cardinality(RunsOf(j)) \in Nat
        /\ j \in Elements(pending) <=> Copies(j) >= 1

LEMMA TakersTypes == ASSUME NEW p, TypeInv PROVE TakersTyped(p)
<1> SUFFICES ASSUME NEW j \in Jobs
             PROVE  /\ Copies(j) \in Nat
                    /\ HasInHand(p, j) \in {0, 1} /\ ToReclaim(p, j) \in {0, 1}
                    /\ IsFiniteSet(RunsOf(j)) /\ Cardinality(RunsOf(j)) \in Nat
                    /\ j \in Elements(pending) <=> Copies(j) >= 1
  BY DEF TakersTyped
<1>1. Copies(j) \in Nat /\ (j \in Elements(pending) <=> Copies(j) >= 1)
  <2>1. pending \in Seq(Jobs)
    BY DEF TypeInv, Types, JobTypes
  <2>2. Copies(j) = Cardinality(Occurrences(pending, j))
    BY DEF Copies, Occurrences
  <2> QED  BY <2>1, <2>2, OccurrencesType
<1>2. RunsOf(j) \in SUBSET runs /\ IsFiniteSet(runs)
  BY DEF RunsOf, TypeInv, Tasks
<1>3. IsFiniteSet(RunsOf(j)) /\ Cardinality(RunsOf(j)) \in Nat
  BY <1>2, FS_Subset, FS_CardinalityType
<1> QED
  BY <1>1, <1>3 DEF HasInHand, ToReclaim

LEMMA TakersTypesNext == ASSUME NEW p PROVE TypeInv' => TakersTyped(p)'
<1>1. TypeInv => TakersTyped(p)
  BY TakersTypes
<1> QED
  BY <1>1, PTL

\* A task that moves on does not become two.
LEMMA MovedRuns ==
    ASSUME TypeInv, NEW r \in runs, NEW pc, MoveRun(r, pc), NEW j \in Jobs
    PROVE  Cardinality(RunsOf(j)') <= Cardinality(RunsOf(j))
<1> DEFINE new == [r EXCEPT !.pc = pc]
<1>1. runs' = (runs \ {r}) \cup {new} /\ new.job = r.job
  BY DEF MoveRun, TypeInv, Types, JobTypes, Task
<1> HIDE DEF new
<1>2. IsFiniteSet(RunsOf(j)) /\ Cardinality(RunsOf(j)) \in Nat
  BY TakersTypes DEF TakersTyped
<1>3. CASE r.job = j
  <2>1. r \in RunsOf(j) /\ RunsOf(j)' \subseteq (RunsOf(j) \ {r}) \cup {new}
    BY <1>1, <1>3 DEF RunsOf
  <2>2. IsFiniteSet(RunsOf(j) \ {r}) /\ Cardinality(RunsOf(j) \ {r}) = Cardinality(RunsOf(j)) - 1
    BY <1>2, <2>1, FS_RemoveElement
  <2> QED  BY <1>2, <2>1, <2>2, AddAtMostOne
<1>4. CASE r.job # j
  <2>1. RunsOf(j)' \in SUBSET RunsOf(j)
    BY <1>1, <1>4 DEF RunsOf
  <2> QED  BY <1>2, <2>1, FS_Subset
<1> QED
  BY <1>3, <1>4

\* Only a crash and a submission make more takers.
LEMMA TakersStep ==
    ASSUME NEW p, Procs = {p}, TypeInv, [Next]_vars, ~Crash(p), ~EnqueueJob, NEW j \in Jobs
    PROVE  Takers(p, j)' + ToReclaim(p, j)' <= Takers(p, j) + ToReclaim(p, j)
<1> DEFINE C == Copies(j)                     CC == Copies(j)'
           H == HasInHand(p, j)               HH == HasInHand(p, j)'
           R == Cardinality(RunsOf(j))        RR == Cardinality(RunsOf(j)')
           T == ToReclaim(p, j)               TT == ToReclaim(p, j)'
<1> SUFFICES CC + HH + RR + TT <= C + H + R + T
  BY DEF Takers
<1>1. TypeInv'
  BY TypeInvStep
<1>2. /\ C \in Nat /\ H \in {0, 1} /\ R \in Nat /\ T \in {0, 1}
      /\ CC \in Nat /\ HH \in {0, 1} /\ RR \in Nat /\ TT \in {0, 1}
      /\ IsFiniteSet(RunsOf(j))
  BY <1>1, TakersTypes, TakersTypesNext DEF TakersTyped
<1>3. /\ \A r \in runs : Task(r) /\ r.proc = p /\ mode[p] = "running"
      /\ inflight \subseteq Jobs /\ None \notin Jobs /\ pending \in Seq(Jobs) /\ p \in Procs
      /\ dpc \in [Procs -> DispatchPc] /\ completing \in [Procs -> SUBSET Jobs]
      /\ held \in [Procs -> Jobs \cup {None}] /\ pushed \in [Procs -> Jobs \cup {None}]
      /\ snap \in [Procs -> SUBSET Jobs] /\ mode \in [Procs -> Mode]
      /\ mode[p] # "running" => dpc[p] = "idle" /\ completing[p] = {}
      /\ mode[p] # "reclaiming" => pushed[p] = None
      /\ held[p] # None <=> dpc[p] \in {"tracking", "reporting"}
      /\ worker[p] >= 1
  BY RedisAssumption DEF TypeInv, Types, JobTypes, ProcTypes, Phases, Counted, Task
<1>4. pending' = pending => CC = C
  BY DEF Copies
<1>5. held'[p] = held[p] => HH = H
  BY DEF HasInHand
<1>6. RunsOf(j)' \subseteq RunsOf(j) => RR <= R
  BY <1>2, FS_Subset
<1>7. mode'[p] \in {"running", "memory"} => TT = 0
  BY DEF ToReclaim
<1>8. UNCHANGED <<inflight, mode, snap, pushed>> => TT = T
  BY DEF ToReclaim
<1>a. C = Cardinality(Occurrences(pending, j)) /\ CC = Cardinality(Occurrences(pending', j))
  BY DEF Copies, Occurrences
<1> HIDE DEF C, CC, H, HH, R, RR, T, TT
<1>9. CASE Start(p)
  <2>1. /\ UNCHANGED <<pending, held, runs, inflight, pushed>> /\ mode[p] = "down"
        /\ mode'[p] \in {"running", "memory"}
              \/ (mode'[p] = "reclaiming" /\ snap'[p] = inflight)
    BY <1>3, <1>9 DEF Start, redisVars, dispatchVars
  <2>2. TT <= T
    BY <1>2, <1>3, <1>7, <2>1 DEF ToReclaim, TT, T
  <2> QED  BY <1>2, <1>4, <1>5, <1>6, <2>1, <2>2 DEF RunsOf
<1>10. CASE ReclaimPush(p)
  <2>1. PICK x \in snap[p] : /\ pending' = Append(pending, x)
                             /\ pushed' = [pushed EXCEPT ![p] = x]
    BY <1>10 DEF ReclaimPush
  <2>2. /\ UNCHANGED <<held, runs, mode, snap>> /\ mode[p] = "reclaiming" /\ pushed[p] = None
    BY <1>10 DEF ReclaimPush, dispatchVars
  <2>3. x \in Jobs /\ pushed'[p] = x
    BY <1>3, <2>1
  <2>4. CC = C + (IF x = j THEN 1 ELSE 0)
    BY <1>3, <2>1, <2>3, <1>a, OccurrencesAppend
  <2>5. x = j => TT = 0 /\ T = 1
    BY <1>3, <2>2, <2>3 DEF ToReclaim, TT, T
  <2>6. x # j => TT = T
    BY <1>3, <2>2, <2>3 DEF ToReclaim, TT, T
  <2>7. HH = H /\ RR <= R
    BY <1>5, <1>6, <2>2 DEF RunsOf
  <2> QED  BY <1>2, <2>4, <2>5, <2>6, <2>7
<1>11. CASE ReclaimDelete(p)
  <2>1. /\ UNCHANGED <<pending, held, runs>> /\ mode[p] = "reclaiming" /\ pushed[p] # None
        /\ pushed'[p] = None /\ snap'[p] = snap[p] \ {pushed[p]}
        /\ mode'[p] \in {"running", "reclaiming"}
    BY <1>3, <1>11 DEF ReclaimDelete, dispatchVars
  <2>2. TT <= T
    BY <1>2, <1>3, <2>1 DEF ToReclaim, TT, T
  <2> QED  BY <1>2, <1>4, <1>5, <1>6, <2>1, <2>2 DEF RunsOf
<1>12. CASE ReclaimFails(p)
  <2>1. UNCHANGED <<pending, held, runs>> /\ mode'[p] = "memory"
    BY <1>3, <1>12 DEF ReclaimFails, redisVars, dispatchVars
  <2> QED  BY <1>2, <1>4, <1>5, <1>6, <1>7, <2>1 DEF RunsOf
<1>13. CASE Select(p) \/ Outage \/ Recovery \/ UNCHANGED vars
  <2>1. UNCHANGED <<pending, held, runs, inflight, mode, snap, pushed>>
    BY <1>13 DEF Select, Outage, Recovery, vars, redisVars, dispatchVars, startVars
  <2> QED  BY <1>2, <1>4, <1>5, <1>6, <1>8, <2>1 DEF RunsOf
<1>14. CASE Pop(p)
  <2>1. /\ held' = [held EXCEPT ![p] = Head(pending)] /\ pending' = Tail(pending)
        /\ pending # << >> /\ dpc[p] = "popping"
        /\ UNCHANGED <<runs, inflight, mode, snap, pushed>>
    BY <1>14 DEF Pop, startVars
  <2>2. CC + (IF Head(pending) = j THEN 1 ELSE 0) <= C
    BY <1>3, <2>1, <1>a, OccurrencesTail
  <2>3. HH = IF Head(pending) = j THEN 1 ELSE 0
    BY <1>3, <2>1 DEF HH, HasInHand
  <2> QED  BY <1>2, <1>6, <1>8, <2>1, <2>2, <2>3 DEF RunsOf
<1>15. CASE Track(p)
  <2>1. UNCHANGED <<pending, held, runs, mode>> /\ mode[p] = "running"
    BY <1>3, <1>15 DEF Track, startVars
  <2> QED  BY <1>2, <1>4, <1>5, <1>6, <1>7, <2>1 DEF RunsOf
<1>16. CASE CreateRun(p)
  <2> DEFINE new == [proc |-> p, job |-> held[p], try |-> tries[held[p]],
                     worker |-> candidate[p], pc |-> "scanning"]
  <2>1. /\ UNCHANGED <<pending, inflight, mode, snap, pushed>> /\ held'[p] = None
        /\ runs' = runs \cup {new}
    BY <1>3, <1>16 DEF CreateRun, redisVars, startVars
  <2>2. new.job = held[p]
    OBVIOUS
  <2> HIDE DEF new
  <2>3. HH = 0
    BY <1>3, <2>1 DEF HH, HasInHand
  <2>4. CASE held[p] = j
    <3>1. RunsOf(j)' \subseteq RunsOf(j) \cup {new}
      BY <2>1 DEF RunsOf
    <3>2. RR <= R + 1
      BY <1>2, <3>1, AddAtMostOne DEF RR, R
    <3>3. H = 1
      BY <2>4 DEF H, HasInHand
    <3> QED  BY <1>2, <1>4, <1>8, <2>1, <2>3, <3>2, <3>3
  <2>5. CASE held[p] # j
    <3>1. RunsOf(j)' \subseteq RunsOf(j)
      BY <2>1, <2>2, <2>5 DEF RunsOf
    <3> QED  BY <1>2, <1>4, <1>6, <1>8, <2>1, <2>3, <3>1
  <2> QED  BY <2>4, <2>5
<1>17. CASE DispatcherEnds(p)
  <2>1. UNCHANGED <<pending, runs, inflight, mode, snap, pushed>> /\ held'[p] = None
    BY <1>3, <1>17 DEF DispatcherEnds, redisVars, startVars
  <2>2. HH = 0
    BY <1>3, <2>1 DEF HH, HasInHand
  <2> QED  BY <1>2, <1>4, <1>6, <1>8, <2>1, <2>2 DEF RunsOf
<1>18. ASSUME NEW r \in runs, RunComplete(r) \/ RunRaises(r) \/ RequeueDelete(r)
       PROVE  CC + HH + RR + TT <= C + H + R + T
  <2>1. UNCHANGED <<pending, held, mode>> /\ \E pc : MoveRun(r, pc)
    BY <1>18 DEF RunComplete, RunRaises, RequeueDelete, redisVars, dispatchVars, startVars
  <2>2. RR <= R
    BY <2>1, MovedRuns DEF RR, R
  <2> QED  BY <1>2, <1>3, <1>4, <1>5, <1>7, <2>1, <2>2
<1>19. ASSUME NEW r \in runs, RunReported(r) \/ RequeueFails(r)
       PROVE  CC + HH + RR + TT <= C + H + R + T
  <2>1. UNCHANGED <<pending, held, mode>> /\ runs' \subseteq runs
    BY <1>19 DEF RunReported, RequeueFails, redisVars, dispatchVars, startVars
  <2> QED  BY <1>2, <1>3, <1>4, <1>5, <1>6, <1>7, <2>1 DEF RunsOf
<1>20. ASSUME NEW r \in runs, RequeuePush(r)
       PROVE  CC + HH + RR + TT <= C + H + R + T
  <2>1. /\ UNCHANGED <<held, mode>> /\ runs' = runs \ {r}
        /\ pending' = Append(pending, r.job) /\ r.job \in Jobs
    BY <1>3, <1>20 DEF RequeuePush, dispatchVars, startVars, Task
  <2>2. CC = C + (IF r.job = j THEN 1 ELSE 0)
    BY <1>3, <2>1, <1>a, OccurrencesAppend
  <2>3. CASE r.job = j
    <3>1. RunsOf(j)' = RunsOf(j) \ {r} /\ r \in RunsOf(j)
      BY <2>1, <2>3 DEF RunsOf
    <3>2. RR = R - 1
      BY <1>2, <3>1, FS_RemoveElement DEF RR, R
    <3> QED  BY <1>2, <1>3, <1>5, <1>7, <2>1, <2>2, <2>3, <3>2
  <2>4. CASE r.job # j
    BY <1>2, <1>3, <1>5, <1>6, <1>7, <2>1, <2>2, <2>4 DEF RunsOf
  <2> QED  BY <2>3, <2>4
<1>21. ASSUME NEW x \in Jobs, CompleteAsync(p, x)
       PROVE  CC + HH + RR + TT <= C + H + R + T
  <2>1. UNCHANGED <<pending, held, mode, runs>> /\ mode[p] = "running"
    BY <1>3, <1>21 DEF CompleteAsync, startVars, dispatchVars
  <2> QED  BY <1>2, <1>4, <1>5, <1>6, <1>7, <2>1 DEF RunsOf
<1>22. CASE WorkerDies(p)
  <2>1. UNCHANGED <<held, mode, runs, pending>> /\ mode[p] = "running"
    BY <1>3, <1>22, DeathsPushNothing DEF WorkerDies, startVars, dispatchVars
  <2> QED  BY <1>2, <1>4, <1>5, <1>6, <1>7, <2>1 DEF RunsOf
<1> QED
  BY <1>9, <1>10, <1>11, <1>12, <1>13, <1>14, <1>15, <1>16, <1>17, <1>18, <1>19, <1>20, <1>21,
     <1>22 DEF Next, RunStep

LEMMA OnceStep ==
    ASSUME NEW p, Procs = {p}, TypeInv, CopiesInv(p), crashes = 0, [Next]_vars, ~Crash(p)
    PROVE  /\ \A j \in Jobs : Once(p, j)'
           /\ mode'[p] # "reclaiming"
           /\ mode'[p] = "down" => inflight' = {}
<1> DEFINE Goal == /\ \A j \in Jobs : Once(p, j)'
                   /\ mode'[p] # "reclaiming"
                   /\ mode'[p] = "down" => inflight' = {}
<1> SUFFICES Goal
  OBVIOUS
<1>1. /\ \A r \in runs : Task(r) /\ r.proc = p /\ mode[p] = "running"
      /\ inflight \subseteq Jobs /\ None \notin Jobs /\ pending \in Seq(Jobs) /\ p \in Procs
      /\ dpc \in [Procs -> DispatchPc] /\ completing \in [Procs -> SUBSET Jobs]
      /\ held \in [Procs -> Jobs \cup {None}] /\ mode \in [Procs -> Mode]
      /\ mode[p] # "running" => dpc[p] = "idle" /\ completing[p] = {}
      /\ held[p] # None <=> dpc[p] \in {"tracking", "reporting"}
      /\ Elements(pending) \cup inflight \subseteq Submitted
  BY RedisAssumption DEF TypeInv, Types, JobTypes, ProcTypes, Phases, Traces, Task
<1>2. /\ \A j \in Jobs : Once(p, j) /\ Takers(p, j) + ToReclaim(p, j) <= 1
      /\ mode[p] # "reclaiming" /\ (mode[p] = "down" => inflight = {})
  BY DEF CopiesInv
<1>3. ASSUME NEW j \in Jobs, held[p] = j
      PROVE  j \notin Elements(pending) /\ \A r \in runs : r.job # j
  <2>1. /\ Copies(j) \in Nat /\ HasInHand(p, j) = 1 /\ ToReclaim(p, j) \in {0, 1}
        /\ IsFiniteSet(RunsOf(j)) /\ Cardinality(RunsOf(j)) \in Nat
        /\ j \in Elements(pending) <=> Copies(j) >= 1
    BY <1>3, TakersTypes DEF TakersTyped, HasInHand
  <2>2. Copies(j) = 0 /\ Cardinality(RunsOf(j)) = 0
    BY <1>2, <2>1 DEF Takers
  <2>3. j \notin Elements(pending)
    BY <2>1, <2>2
  <2>4. RunsOf(j) = {}
    BY <2>1, <2>2, FS_EmptySet
  <2> QED  BY <2>3, <2>4 DEF RunsOf
\* A step of the running process that puts nothing into the hash.
<1>4. ASSUME mode' = mode, mode[p] = "running", inflight' \subseteq inflight,
             \A j \in inflight' : Once(p, j) => Once(p, j)'
      PROVE  Goal
  BY <1>1, <1>2, <1>4 DEF Once
<1>5. CASE Start(p)
  <2>1. inflight' = {} /\ mode'[p] \in {"running", "memory"}
    BY <1>1, <1>2, <1>5 DEF Start, redisVars
  <2> QED  BY <2>1 DEF Once
<1>6. CASE ReclaimPush(p) \/ ReclaimDelete(p) \/ ReclaimFails(p)
  BY <1>2, <1>6 DEF ReclaimPush, ReclaimDelete, ReclaimFails
<1>7. CASE EnqueueJob
  <2>1. /\ UNCHANGED <<mode, inflight, held, dpc, runs>> /\ mode[p] = "running"
        /\ pending' = Append(pending, submitted + 1) /\ submitted + 1 \in Jobs
        /\ submitted + 1 \notin Submitted
    BY <1>1, <1>7, MaxJobsAssumption
    DEF EnqueueJob, startVars, dispatchVars, TypeInv, Types, JobTypes, Jobs, Submitted
  <2>2. Elements(pending') = Elements(pending) \cup {submitted + 1}
    BY <1>1, <2>1, AppendElements
  <2>3. \A j \in inflight' : Once(p, j) => Once(p, j)'
    BY <1>1, <2>1, <2>2 DEF Once
  <2> QED  BY <1>4, <2>1, <2>3
<1>8. CASE Select(p) \/ DispatcherEnds(p)
  <2>1. /\ UNCHANGED <<mode, inflight, pending, runs>> /\ mode[p] = "running"
        /\ held'[p] = None
    BY <1>1, <1>8 DEF Select, DispatcherEnds, startVars, redisVars
  <2>2. \A j \in inflight' : Once(p, j) => Once(p, j)'
    BY <1>1, <2>1 DEF Once
  <2> QED  BY <1>4, <2>1, <2>2
<1>9. CASE Pop(p)
  <2>1. /\ UNCHANGED <<mode, inflight, runs>> /\ mode[p] = "running"
        /\ held'[p] = Head(pending) /\ pending' = Tail(pending) /\ pending # << >>
    BY <1>1, <1>9 DEF Pop, startVars
  <2>2. Elements(pending) = Elements(pending') \cup {Head(pending)}
    BY <1>1, <2>1, TailElements
  <2>3. \A j \in inflight' : Once(p, j) => Once(p, j)'
    BY <2>1, <2>2 DEF Once
  <2> QED  BY <1>4, <2>1, <2>3
<1>10. CASE Track(p)
  <2>1. /\ UNCHANGED <<mode, pending, runs, held>> /\ mode[p] = "running"
        /\ inflight' = inflight \cup {held[p]} /\ dpc'[p] = "reporting" /\ held[p] \in Jobs
    BY <1>1, <1>10 DEF Track, startVars
  <2>2. ASSUME NEW j \in Jobs, j \in inflight'
        PROVE  j \notin Elements(pending) /\ \A r \in runs : r.job = j => r.pc # "repushing"
    BY <1>2, <1>3, <2>1, <2>2 DEF Once
  <2> QED  BY <2>1, <2>2 DEF Once
<1>11. CASE CreateRun(p)
  <2> DEFINE new == [proc |-> p, job |-> held[p], try |-> tries[held[p]],
                     worker |-> candidate[p], pc |-> "scanning"]
  <2>1. /\ UNCHANGED <<mode, inflight, pending>> /\ mode[p] = "running"
        /\ held'[p] = None /\ runs' = runs \cup {new}
    BY <1>1, <1>11 DEF CreateRun, startVars, redisVars
  <2>2. new.pc = "scanning"
    OBVIOUS
  <2> HIDE DEF new
  <2>3. \A j \in inflight' : Once(p, j) => Once(p, j)'
    BY <1>1, <2>1, <2>2 DEF Once
  <2> QED  BY <1>4, <2>1, <2>3
<1>12. ASSUME NEW r \in runs, RunComplete(r) \/ RunReported(r) \/ RunRaises(r)
                              \/ RequeueFails(r)
       PROVE  Goal
  <2>1. UNCHANGED <<mode, inflight, pending, held, dpc>>
    BY <1>12 DEF RunComplete, RunReported, RunRaises, RequeueFails, redisVars, startVars,
       dispatchVars
  <2>2. \A q \in runs' : q \in runs \/ q.pc # "repushing"
    BY <1>1, <1>12 DEF RunComplete, RunReported, RunRaises, RequeueFails, MoveRun, Task
  <2>3. \A j \in inflight' : Once(p, j) => Once(p, j)'
    BY <2>1, <2>2 DEF Once
  <2> QED  BY <1>1, <1>4, <2>1, <2>3
<1>13. ASSUME NEW r \in runs, RequeueDelete(r) PROVE Goal
  <2>1. UNCHANGED <<mode, pending, held, dpc>> /\ inflight' = inflight \ {r.job}
    BY <1>13 DEF RequeueDelete, startVars, dispatchVars
  <2>2. \A q \in runs' : q \in runs \/ q.job = r.job
    BY <1>1, <1>13 DEF RequeueDelete, MoveRun, Task
  <2>3. \A j \in inflight' : Once(p, j) => Once(p, j)'
    BY <2>1, <2>2 DEF Once
  <2> QED  BY <1>1, <1>4, <2>1, <2>3
<1>14. ASSUME NEW r \in runs, RequeuePush(r) PROVE Goal
  <2>1. /\ UNCHANGED <<mode, inflight, held, dpc>> /\ runs' \subseteq runs
        /\ pending' = Append(pending, r.job) /\ r.job \in Jobs /\ r.pc = "repushing"
    BY <1>1, <1>14 DEF RequeuePush, startVars, dispatchVars, Task
  <2>2. Elements(pending') = Elements(pending) \cup {r.job}
    BY <1>1, <2>1, AppendElements
  <2>3. \A j \in inflight' : Once(p, j) => Once(p, j)'
    BY <2>1, <2>2 DEF Once
  <2> QED  BY <1>1, <1>4, <2>1, <2>3
<1>15. ASSUME NEW x \in Jobs, CompleteAsync(p, x) PROVE Goal
  <2>1. /\ UNCHANGED <<mode, pending, held, dpc, runs>> /\ inflight' \subseteq inflight
        /\ mode[p] = "running"
    BY <1>1, <1>15 DEF CompleteAsync, startVars, dispatchVars
  <2> QED  BY <1>4, <2>1 DEF Once
<1>16. CASE WorkerDies(p)
  <2>1. /\ UNCHANGED <<mode, pending, held, dpc, runs, inflight>> /\ mode[p] = "running"
    BY <1>1, <1>16, DeathsPushNothing DEF WorkerDies, startVars, dispatchVars
  <2> QED  BY <1>4, <2>1 DEF Once
<1>17. CASE Outage \/ Recovery \/ UNCHANGED vars
  <2>1. UNCHANGED <<mode, pending, held, dpc, runs, inflight>>
    BY <1>17 DEF Outage, Recovery, vars, redisVars, startVars, dispatchVars
  <2> QED  BY <1>2, <2>1 DEF Once
<1> HIDE DEF Goal
<1> QED
  BY <1>5, <1>6, <1>7, <1>8, <1>9, <1>10, <1>11, <1>12, <1>13, <1>14, <1>15, <1>16, <1>17
  DEF Next, RunStep

LEMMA CopiesStep ==
    ASSUME NEW p, Procs = {p}, TypeInv, CopiesInv(p), [Next]_vars
    PROVE  CopiesInv(p)'
<1>1. /\ \A j \in Jobs : Takers(p, j) + ToReclaim(p, j) <= IF crashes = 0 THEN 1 ELSE crashes
      /\ crashes \in Nat /\ p \in Procs /\ mode \in [Procs -> Mode]
      /\ held \in [Procs -> Jobs \cup {None}] /\ snap \in [Procs -> SUBSET Jobs]
      /\ \A r \in runs : r.proc = p /\ r.job \in Jobs
      /\ None \notin Jobs /\ pending \in Seq(Jobs) /\ submitted \in 0..MaxJobs
  BY RedisAssumption
  DEF TypeInv, Types, JobTypes, ProcTypes, Phases, Counted, Task, CopiesInv
<1>2. TypeInv'
  BY TypeInvStep
<1>3. \A j \in Jobs :
        /\ Copies(j) \in Nat /\ HasInHand(p, j) \in {0, 1} /\ ToReclaim(p, j) \in {0, 1}
        /\ IsFiniteSet(RunsOf(j)) /\ Cardinality(RunsOf(j)) \in Nat
        /\ Copies(j)' \in Nat /\ HasInHand(p, j)' \in {0, 1} /\ ToReclaim(p, j)' \in {0, 1}
        /\ Cardinality(RunsOf(j)') \in Nat
        /\ j \in Elements(pending) <=> Copies(j) >= 1
  BY <1>2, TakersTypes, TakersTypesNext DEF TakersTyped
\* A crash clears what the process had in hand; the hash is all it can reclaim.
<1>4. CASE Crash(p)
  <2>1. /\ UNCHANGED <<pending, inflight>> /\ crashes' = crashes + 1 /\ runs' = {}
        /\ held'[p] = None /\ mode'[p] = "down"
    BY <1>1, <1>4 DEF Crash, redisVars
  <2>2. crashes' # 0
    BY <1>1, <2>1
  <2>3. ASSUME NEW j \in Jobs PROVE Takers(p, j)' + ToReclaim(p, j)' <= crashes'
    <3>1. Copies(j)' = Copies(j) /\ HasInHand(p, j)' = 0 /\ Cardinality(RunsOf(j)') = 0
      BY <1>1, <2>1, FS_EmptySet DEF Copies, HasInHand, RunsOf
    <3>2. ToReclaim(p, j)' = IF j \in inflight THEN 1 ELSE 0
      BY <2>1 DEF ToReclaim
    <3>3. Copies(j) <= Takers(p, j) + ToReclaim(p, j) /\ Takers(p, j) \in Nat
      BY <1>3 DEF Takers
    <3>4. crashes = 0 /\ j \in inflight => Copies(j) = 0
      <4>1. crashes = 0 /\ j \in inflight => j \notin Elements(pending)
        BY DEF CopiesInv, Once
      <4>2. j \notin Elements(pending) => Copies(j) = 0
        BY <1>3
      <4> QED  BY <4>1, <4>2
    <3>5. Copies(j) <= IF crashes = 0 THEN 1 ELSE crashes
      <4>1. Takers(p, j) + ToReclaim(p, j) <= IF crashes = 0 THEN 1 ELSE crashes
        BY <1>1
      <4>2. ToReclaim(p, j) \in {0, 1} /\ Copies(j) \in Nat
        BY <1>3
      <4> QED  BY <1>1, <3>3, <4>1, <4>2
    <3>6. Takers(p, j)' = Copies(j)
      BY <1>3, <3>1 DEF Takers
    <3> QED  BY <1>1, <1>3, <2>1, <3>2, <3>4, <3>5, <3>6
  <2> QED  BY <2>2, <2>3 DEF CopiesInv
\* A new job is nowhere else.
<1>5. CASE EnqueueJob
  <2> DEFINE n == submitted + 1
  <2>1. /\ UNCHANGED <<held, runs, mode, crashes>> /\ pending' = Append(pending, n)
        /\ mode[p] = "running" /\ n \in Jobs /\ n \notin Submitted
    BY <1>1, <1>5, MaxJobsAssumption
    DEF EnqueueJob, startVars, dispatchVars, counters, Jobs, Submitted
  <2> HIDE DEF n
  <2>2. ASSUME NEW j \in Jobs
        PROVE  Takers(p, j)' + ToReclaim(p, j)' <= IF crashes' = 0 THEN 1 ELSE crashes'
    <3>1. /\ Cardinality(Occurrences(pending', j))
                = Cardinality(Occurrences(pending, j)) + (IF n = j THEN 1 ELSE 0)
      BY <1>1, <2>1, OccurrencesAppend
    <3>2. Copies(j)' = Copies(j) + (IF n = j THEN 1 ELSE 0)
      BY <3>1 DEF Copies, Occurrences
    <3>3. /\ HasInHand(p, j)' = HasInHand(p, j) /\ RunsOf(j)' = RunsOf(j)
          /\ ToReclaim(p, j)' = 0
      BY <2>1 DEF HasInHand, RunsOf, ToReclaim
    <3>4. CASE j # n
      <4>1. Takers(p, j)' = Takers(p, j) /\ Takers(p, j) \in Nat
        BY <1>3, <3>2, <3>3, <3>4 DEF Takers
      <4>2. Takers(p, j) <= IF crashes = 0 THEN 1 ELSE crashes
        <5>1. ToReclaim(p, j) = 0   BY <2>1 DEF ToReclaim
        <5>2. Takers(p, j) + ToReclaim(p, j) <= IF crashes = 0 THEN 1 ELSE crashes   BY <1>1
        <5> QED  BY <4>1, <5>1, <5>2
      <4> QED  BY <2>1, <3>3, <4>1, <4>2
    <3>5. CASE j = n
      <4>1. n \notin Elements(pending) /\ held[p] # n /\ \A r \in runs : r.job # n
        BY <1>1, <2>1 DEF TypeInv, Traces
      <4>2. Copies(j) = 0 /\ HasInHand(p, j) = 0 /\ RunsOf(j) = {}
        <5>1. Copies(n) \in Nat /\ ~(Copies(n) >= 1)
          BY <1>3, <2>1, <4>1
        <5>2. HasInHand(p, n) = 0 /\ RunsOf(n) = {}
          BY <4>1 DEF HasInHand, RunsOf
        <5> QED  BY <3>5, <5>1, <5>2
      <4>3. Cardinality(RunsOf(j)) = 0
        BY <4>2, FS_EmptySet
      <4>4. Takers(p, j)' = 1
        BY <3>2, <3>3, <3>5, <4>2, <4>3 DEF Takers
      <4> QED  BY <1>1, <2>1, <3>3, <4>4
    <3> QED  BY <3>4, <3>5
  <2>3. ~Crash(p)
    BY <1>1, <2>1 DEF Crash
  <2>4. crashes = 0 => /\ \A j \in Jobs : Once(p, j)'
                       /\ mode'[p] # "reclaiming" /\ (mode'[p] = "down" => inflight' = {})
    BY <2>3, OnceStep
  <2> QED  BY <2>1, <2>2, <2>4 DEF CopiesInv
<1>6. CASE ~Crash(p) /\ ~EnqueueJob
  <2>1. crashes' = crashes
    BY <1>6 DEF Next, vars, counters, Start, ReclaimPush, ReclaimDelete, ReclaimFails, Select,
       Pop, Track, CreateRun, DispatcherEnds, WorkerDies, CompleteAsync, RunStep, RunComplete,
       RunReported, RunRaises, RequeueDelete, RequeuePush, RequeueFails, Outage, Recovery
  <2>2. ASSUME NEW j \in Jobs
        PROVE  Takers(p, j)' + ToReclaim(p, j)' <= IF crashes' = 0 THEN 1 ELSE crashes'
    <3>1. Takers(p, j)' + ToReclaim(p, j)' <= Takers(p, j) + ToReclaim(p, j)
      BY <1>6, TakersStep
    <3>2. Takers(p, j) \in Nat /\ Takers(p, j)' \in Nat
      BY <1>3 DEF Takers
    <3>3. /\ ToReclaim(p, j) \in {0, 1} /\ ToReclaim(p, j)' \in {0, 1}
          /\ Takers(p, j) + ToReclaim(p, j) <= IF crashes = 0 THEN 1 ELSE crashes
          /\ crashes \in Nat
      BY <1>1, <1>3
    <3>4. /\ Takers(p, j) + ToReclaim(p, j) \in Nat
          /\ Takers(p, j)' + ToReclaim(p, j)' \in Nat
      BY <3>2, <3>3
    <3> QED  BY <2>1, <3>1, <3>3, <3>4
  <2>3. crashes = 0 => /\ \A j \in Jobs : Once(p, j)'
                       /\ mode'[p] # "reclaiming" /\ (mode'[p] = "down" => inflight' = {})
    BY <1>6, OnceStep
  <2> QED  BY <2>1, <2>2, <2>3 DEF CopiesInv
<1> QED
  BY <1>4, <1>5, <1>6

(***************************************************************************)
(* However often reports raise and jobs are requeued, a single scheduler   *)
(* has a job on the list once; only a reclaim that a crash interrupts      *)
(* between RPUSH and HDEL (reclaim_inflight of job_queue.py) adds a copy.  *)
(***************************************************************************)
THEOREM CopiesAreCounted ==
    ASSUME NEW p, Procs = {p}
    PROVE  Spec => []CopiesBounded
<1>1. Init => CopiesInv(p)
  <2> SUFFICES ASSUME Init PROVE CopiesInv(p)
    OBVIOUS
  <2>1. /\ pending = << >> /\ inflight = {} /\ runs = {} /\ held[p] = None /\ crashes = 0
        /\ mode[p] = "down" /\ None \notin Jobs
    BY RedisAssumption DEF Init
  <2>2. ASSUME NEW j \in Jobs PROVE Takers(p, j) + ToReclaim(p, j) <= 1
    <3>1. {i \in 1..Len(pending) : pending[i] = j} = {} /\ RunsOf(j) = {}
      BY <2>1 DEF RunsOf
    <3>2. Copies(j) = 0 /\ Cardinality(RunsOf(j)) = 0
      BY <3>1, FS_EmptySet DEF Copies
    <3> QED  BY <2>1, <3>2 DEF Takers, HasInHand, ToReclaim
  <2> QED  BY <2>1, <2>2 DEF CopiesInv, Once
<1>2. TypeInv /\ CopiesInv(p) /\ [Next]_vars => CopiesInv(p)'
  BY CopiesStep
<1>3. ASSUME TypeInv, CopiesInv(p) PROVE CopiesBounded
  <2>1. ASSUME NEW j \in Jobs PROVE Copies(j) <= IF crashes = 0 THEN 1 ELSE crashes
    <3>1. /\ Copies(j) \in Nat /\ HasInHand(p, j) \in {0, 1} /\ ToReclaim(p, j) \in {0, 1}
          /\ Cardinality(RunsOf(j)) \in Nat
      BY <1>3, TakersTypes DEF TakersTyped
    <3>2. crashes \in Nat
      BY <1>3 DEF TypeInv, Counted
    <3> QED  BY <1>3, <3>1, <3>2 DEF CopiesInv, Takers
  <2> QED  BY <2>1 DEF CopiesBounded
<1> QED
  BY <1>1, <1>2, <1>3, TypeInvHolds, PTL DEF Spec
=============================================================================
