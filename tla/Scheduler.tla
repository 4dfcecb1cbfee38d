----------------------------- MODULE Scheduler ------------------------------
(***************************************************************************)
(* One scheduler process on the in-memory queue: the REST handlers and     *)
(* replacement logic of scheduler_service.py, the dispatch loop and the    *)
(* job tasks of dispatcher.py, and the heartbeat monitor of monitor.py.    *)
(*                                                                         *)
(* The process is one asyncio loop, so what runs between two awaits that   *)
(* really suspend is atomic and is one action here.  An await on the       *)
(* in-memory queue suspends only in dequeue() on an empty queue; an await  *)
(* on the network always suspends.                                         *)
(***************************************************************************)
EXTENDS WorkerRegistry, InMemoryQueue

CONSTANTS
    InitialWorkers,  \* start(initial_workers); also desired_workers
    MaxWorkers,      \* MAX_WORKERS (20 in the code)
    MaxScaled,       \* bound: workers added by POST /workers/scale
    MaxDeaths,       \* bound: workers killed or timed out
    MaxFaults        \* bound: status reports that raise out of a job task

ASSUME SchedulerAssumption ==
    /\ {InitialWorkers, MaxWorkers, MaxScaled, MaxDeaths, MaxFaults} \subseteq Nat
    /\ InitialWorkers >= 1
    /\ MaxWorkers >= 1
    /\ InitialWorkers + MaxScaled + MaxDeaths <= MaxSpawns

None == 0     \* no worker

VARIABLES
    reg,        \* self.registry
    queue,      \* self.queue
    submitted,  \* jobs 1..submitted were accepted by POST /jobs/enqueue
    finished,   \* jobs whose result was handed to queue.complete()
    tries,      \* how often each job was dispatched; names its tasks
    runs,       \* the live _run_job tasks (and the one about to be created)
    dpc,        \* where dispatch_loop is suspended
    candidate,  \* workers[0] of the loop iteration blocked in dequeue()
    dying,      \* workers whose DELETE handler awaits the dashboard
    replaced,   \* self.replaced_dead_workers
    monCur,     \* the worker monitor() has just marked dead, or None
    suspects,   \* silent workers the running monitor pass has yet to visit
    late,       \* alive workers whose last heartbeat is older than timeout
    scaled,     \* how many workers scale_workers has added
    faults      \* how many reports have raised

vars == <<reg, queue, submitted, finished, tries, runs, dpc, candidate, dying,
          replaced, monCur, suspects, late, scaled, faults>>

\* What only the dispatcher, the run tasks and the death handling touch.
dispatchVars == <<dpc, candidate>>
poolVars == <<dying, replaced, monCur, suspects, late, scaled>>

RunPc == {"assigned", "scanning", "reporting", "failing"}
Run == [job: Jobs, try: Nat \ {0}, worker: WorkerIds, pc: RunPc]

Alive == AliveIn(reg)
Dead == DeadIn(reg)
AliveCount == Cardinality(Alive)

Lesser(a, b) == IF a < b THEN a ELSE b

(***************************************************************************)
(* n calls of _spawn_one_worker in a row: each refuses when MAX_WORKERS    *)
(* are alive.                                                              *)
(***************************************************************************)
SpawnUpTo(R, n) ==
    LET slots == MaxWorkers - Cardinality(AliveIn(R))
    IN  IF slots > 0 THEN Register(R, Lesser(n, slots)) ELSE R

(***************************************************************************)
(* The state once start() has spawned the initial workers: the tasks it    *)
(* creates first cannot run before, as spawning never suspends.            *)
(***************************************************************************)
Init ==
    /\ reg = SpawnUpTo(EmptyRegistry, InitialWorkers)
    /\ queue = EmptyQueue
    /\ submitted = 0 /\ finished = {}
    /\ tries = [j \in Jobs |-> 0] /\ runs = {}
    /\ dpc = "idle" /\ candidate = None
    /\ dying = {} /\ replaced = {}
    /\ monCur = None /\ suspects = {} /\ late = {}
    /\ scaled = 0 /\ faults = 0

\* POST /jobs/enqueue
EnqueueJob ==
    /\ submitted < MaxJobs
    /\ submitted' = submitted + 1
    /\ queue' = Enqueue(queue, submitted + 1)
    /\ UNCHANGED <<reg, finished, tries, runs, dispatchVars, poolVars, faults>>

-----------------------------------------------------------------------------
(* dispatch_loop.  An iteration that finds no worker only sleeps.          *)

\* The iteration from dequeue() on, for worker w; it then awaits the report.
Dispatch(w) ==
    LET j == Head(queue.pending)
    IN  /\ queue.pending # << >>
        /\ queue' = Dequeue(queue, w)
        /\ reg' = MarkAssigned(reg, w)
        /\ tries' = [tries EXCEPT ![j] = @ + 1]
        /\ runs' = runs \cup {[job |-> j, try |-> tries[j] + 1, worker |-> w,
                               pc |-> "assigned"]}
        /\ dpc' = "reporting"
        /\ candidate' = None
        /\ UNCHANGED <<submitted, finished, poolVars, faults>>

\* The queue holds a job: dequeue() returns at once.
SelectAndDispatch ==
    /\ dpc = "idle"
    /\ \E w \in WorkerIds : IsLeastLoaded(reg, w) /\ Dispatch(w)

\* The queue is empty: the worker list is taken, then the loop suspends.
SelectAndBlock ==
    /\ dpc = "idle"
    /\ queue.pending = << >>
    /\ \E w \in WorkerIds : IsLeastLoaded(reg, w) /\ candidate' = w
    /\ dpc' = "blocked"
    /\ UNCHANGED <<reg, queue, submitted, finished, tries, runs, poolVars, faults>>

\* Mutant: the loop skips a stale candidate and goes on waiting with it.
WakeIfAlive ==
    /\ dpc = "blocked"
    /\ candidate \in Alive
    /\ Dispatch(candidate)

\* dequeue() returns in the iteration that computed its list earlier.
WakeAndDispatch ==
    /\ dpc = "blocked"
    /\ Dispatch(candidate)

\* Mutant: no task is created for a worker that has died meanwhile.
CreateRunIfAlive ==
    /\ dpc = "reporting"
    /\ runs' = {[r EXCEPT !.pc = IF @ = "assigned" THEN "scanning" ELSE @] :
                   r \in {q \in runs : q.pc = "assigned" => q.worker \in Alive}}
    /\ dpc' = "idle"
    /\ UNCHANGED <<reg, queue, submitted, finished, tries, candidate, poolVars, faults>>

\* The report is over (its errors are swallowed): the task is created.
CreateRun ==
    /\ dpc = "reporting"
    /\ runs' = {[r EXCEPT !.pc = IF @ = "assigned" THEN "scanning" ELSE @] : r \in runs}
    /\ dpc' = "idle"
    /\ UNCHANGED <<reg, queue, submitted, finished, tries, candidate, poolVars, faults>>

-----------------------------------------------------------------------------
(* _run_job.  A death never cancels it: only the registry flag changes.    *)

MoveRun(r, pc) == runs' = (runs \ {r}) \cup {[r EXCEPT !.pc = pc]}

\* process_job and the cache write are over; process_job never raises.
RunComplete(r) ==
    /\ r.pc = "scanning"
    /\ queue' = Complete(queue, r.job)
    /\ reg' = MarkCompleted(reg, r.worker)
    /\ finished' = finished \cup {r.job}
    /\ MoveRun(r, "reporting")
    /\ UNCHANGED <<submitted, tries, dispatchVars, poolVars, faults>>

\* The report returns, and the notifications after it swallow their errors.
RunReported(r) ==
    /\ r.pc = "reporting"
    /\ runs' = runs \ {r}
    /\ UNCHANGED <<reg, queue, submitted, finished, tries, dispatchVars, poolVars, faults>>

\* The report raises: the client is made, and closed, outside its try block.
RunRaises(r) ==
    /\ r.pc = "reporting"
    /\ faults < MaxFaults
    /\ faults' = faults + 1
    /\ reg' = MarkFailed(reg, r.worker)
    /\ MoveRun(r, "failing")
    /\ UNCHANGED <<queue, submitted, finished, tries, dispatchVars, poolVars>>

\* The except branch after its own (guarded) report.
RunRequeue(r) ==
    /\ r.pc = "failing"
    /\ queue' = RequeueAll(queue, <<r.job>>)
    /\ runs' = runs \ {r}
    /\ UNCHANGED <<reg, submitted, finished, tries, dispatchVars, poolVars, faults>>

RunStep(r) == RunComplete(r) \/ RunReported(r) \/ RunRaises(r) \/ RunRequeue(r)

-----------------------------------------------------------------------------
(* The worker pool: replacement, manual kill, scaling, heartbeat monitor.  *)

\* Mutant: a whole new pool is spawned instead of the missing workers.
ReplacedRegFullPool(R, w) ==
    IF w \in replaced \/ Cardinality(AliveIn(R)) >= InitialWorkers THEN R
    ELSE SpawnUpTo(R, InitialWorkers)

\* _replace_worker_if_needed(w): the registry it leaves, the set it leaves.
ReplacedReg(R, w) ==
    IF w \in replaced \/ Cardinality(AliveIn(R)) >= InitialWorkers THEN R
    ELSE SpawnUpTo(R, InitialWorkers - Cardinality(AliveIn(R)))

Replace(w) == replaced' = replaced \cup {w}

\* _reclaim_jobs(w), in-memory branch
Reclaim(w) == \E s \in Orderings(OwnedBy(queue, w)) : queue' = RequeueAll(queue, s)

\* DELETE /workers/{w} on an alive worker, up to its first suspension
Kill(w) ==
    /\ w \in Alive
    /\ Cardinality(Dead) + Cardinality(suspects \ {w}) < MaxDeaths
    /\ reg' = MarkDead(reg, w)
    /\ dying' = dying \cup {w}
    /\ late' = late \ {w}
    /\ suspects' = suspects \ {w}     \* the monitor skips a dead worker
    /\ UNCHANGED <<queue, submitted, finished, tries, runs, dispatchVars, replaced,
                   monCur, scaled, faults>>

\* Mutant: the handler ends after reclaiming the jobs.
FinishKillWithoutReplacing(w) ==
    /\ w \in dying
    /\ dying' = dying \ {w}
    /\ Reclaim(w)
    /\ UNCHANGED <<reg, submitted, finished, tries, runs, dispatchVars, replaced,
                   monCur, suspects, late, scaled, faults>>

\* The rest of that handler, once the dashboard has been told.
FinishKill(w) ==
    /\ w \in dying
    /\ dying' = dying \ {w}
    /\ Reclaim(w)
    /\ reg' = ReplacedReg(reg, w)
    /\ Replace(w)
    /\ UNCHANGED <<submitted, finished, tries, runs, dispatchVars, monCur, suspects,
                   late, scaled, faults>>

\* Mutant: the duplicate request is only noted as handled.
DuplicateKillNotes(w) ==
    /\ w \in Dead
    /\ w \notin replaced
    /\ Replace(w)
    /\ UNCHANGED <<reg, queue, submitted, finished, tries, runs, dispatchVars, dying,
                   monCur, suspects, late, scaled, faults>>

\* DELETE /workers/{w} on a worker that is dead already
DuplicateKill(w) ==
    /\ w \in Dead
    /\ w \notin replaced
    /\ reg' = ReplacedReg(reg, w)
    /\ Replace(w)
    /\ UNCHANGED <<queue, submitted, finished, tries, runs, dispatchVars, dying, monCur,
                   suspects, late, scaled, faults>>

\* POST /workers/scale?count=n
Scale(n) ==
    LET slots == MaxWorkers - AliveCount
    IN  /\ slots > 0
        /\ scaled + Lesser(n, slots) <= MaxScaled
        /\ scaled' = scaled + Lesser(n, slots)
        /\ reg' = SpawnUpTo(reg, Lesser(n, slots))
        /\ UNCHANGED <<queue, submitted, finished, tries, runs, dispatchVars, dying,
                       replaced, monCur, suspects, late, faults>>

(***************************************************************************)
(* Heartbeats carry a wall-clock time; a worker is late once its last one  *)
(* is older than the timeout.  The loop of a dead worker keeps going, but  *)
(* nothing reads the time of a dead worker.                                *)
(***************************************************************************)
GoLate(w) ==
    /\ w \in Alive \ late
    /\ late' = late \cup {w}
    /\ UNCHANGED <<reg, queue, submitted, finished, tries, runs, dispatchVars, dying,
                   replaced, monCur, suspects, scaled, faults>>

Heartbeat(w) ==
    /\ w \in late
    /\ late' = late \ {w}
    /\ suspects' = suspects \ {w}
    /\ UNCHANGED <<reg, queue, submitted, finished, tries, runs, dispatchVars, dying,
                   replaced, monCur, scaled, faults>>

(***************************************************************************)
(* The monitor visits the workers in registration order and re-reads each  *)
(* entry when it gets there, but "now" is the start of the pass: S are     *)
(* those it has still to visit and that were late at that time and since.  *)
(* It marks the first dead and awaits the notification, or ends the pass.  *)
(***************************************************************************)
MonitorVisit(R, S) ==
    IF S = {}
    THEN /\ reg' = R
         /\ monCur' = None /\ suspects' = {} /\ late' = late
    ELSE \E w \in S :
         /\ \A v \in S : w <= v
         /\ reg' = MarkDead(R, w)
         /\ monCur' = w /\ suspects' = S \ {w} /\ late' = late \ {w}

MonitorPass ==
    /\ monCur = None
    /\ late # {}
    /\ Cardinality(Dead) + Cardinality(late) <= MaxDeaths
    /\ MonitorVisit(reg, late)
    /\ UNCHANGED <<queue, submitted, finished, tries, runs, dispatchVars, dying,
                   replaced, scaled, faults>>

\* The notification is over: reclaim, replace, and on to the next worker.
MonitorResume ==
    /\ monCur # None
    /\ Reclaim(monCur)
    /\ Replace(monCur)
    /\ MonitorVisit(ReplacedReg(reg, monCur), suspects)
    /\ UNCHANGED <<submitted, finished, tries, runs, dispatchVars, dying, scaled, faults>>

-----------------------------------------------------------------------------
Dispatcher == SelectAndDispatch \/ SelectAndBlock \/ WakeAndDispatch \/ CreateRun

Next ==
    \/ EnqueueJob
    \/ SelectAndDispatch \/ SelectAndBlock \/ WakeAndDispatch \/ CreateRun
    \/ \E r \in runs : RunStep(r)
    \/ \E w \in WorkerIds : \/ Kill(w) \/ FinishKill(w) \/ DuplicateKill(w)
                            \/ GoLate(w) \/ Heartbeat(w)
    \/ \E n \in 1..MaxWorkers : Scale(n)
    \/ MonitorPass \/ MonitorResume

Spec == Init /\ [][Next]_vars

(***************************************************************************)
(* Every await ends: the network calls have a timeout, Trivy is limited to *)
(* 90 s, and asyncio runs its ready tasks in turn.  Requests, silences and *)
(* faults are the environment's and owe nothing.                           *)
(***************************************************************************)
Fairness ==
    /\ WF_vars(Dispatcher)
    /\ \A j \in Jobs : WF_vars(\E r \in runs : r.job = j /\ RunStep(r))
    /\ \A w \in WorkerIds : WF_vars(FinishKill(w))
    /\ WF_vars(MonitorResume)

FairSpec == Spec /\ Fairness

-----------------------------------------------------------------------------
(* Properties.                                                             *)

ActiveRun(r) == r.pc \in {"assigned", "scanning"}
RunningJobs == {r.job : r \in {q \in runs : ActiveRun(q)}}
RunsOn(w) == {r \in runs : r.worker = w /\ ActiveRun(r)}

\* Every variable has its type, and the monitor only suspects late, alive workers.
JobTypeOK ==
    /\ queue \in Queue
    /\ submitted \in 0..MaxJobs
    /\ finished \subseteq Jobs
    /\ tries \in [Jobs -> Nat]
    /\ runs \subseteq Run
    /\ dpc \in {"idle", "blocked", "reporting"}
    /\ candidate \in WorkerIds \cup {None}
    /\ dpc = "blocked" => candidate \in WorkerIds
    /\ faults \in 0..MaxFaults

PoolTypeOK ==
    /\ WellFormed(reg)
    /\ dying \subseteq Dead /\ replaced \subseteq Dead
    /\ monCur \in Dead \cup {None}
    /\ suspects \subseteq late /\ late \subseteq Alive
    /\ Cardinality(Dead) + Cardinality(suspects) <= MaxDeaths
    /\ scaled \in 0..MaxScaled

TypeOK == JobTypeOK /\ PoolTypeOK

(***************************************************************************)
(* At every moment an accepted job waits in the queue, is being processed  *)
(* by a task, or has a result: no death, stale dispatch or failed report   *)
(* drops it between those places.                                          *)
(***************************************************************************)
NoJobLost ==
    1..submitted \subseteq Elements(queue.pending) \cup RunningJobs \cup finished

(***************************************************************************)
(* A job in the in-flight table is being processed, by a task of the very  *)
(* worker the job names: reclaiming never resurrects a job that is done.   *)
(***************************************************************************)
InflightHasRun ==
    \A j \in queue.inflight :
        \E r \in runs : r.job = j /\ r.worker = queue.owner[j] /\ ActiveRun(r)

\* A task past queue.complete() has left a result, whatever follows.
LateRunsFinished ==
    \A r \in runs : r.pc \in {"reporting", "failing"} => r.job \in finished

(***************************************************************************)
(* If no report raises, a task whose job has no result yet, on a worker    *)
(* that is alive or whose death is still being handled, is found by        *)
(* _reclaim_jobs: the job is in flight under the id of that worker.        *)
(***************************************************************************)
UnfinishedRunIsReclaimable ==
    faults = 0 =>
        \A r \in runs :
            ActiveRun(r) /\ r.job \notin finished
                /\ (r.worker \in Alive \/ r.worker \in dying \cup {monCur})
            => r.job \in queue.inflight /\ queue.owner[r.job] = r.worker

(***************************************************************************)
(* The counters the dashboard shows.  Assigned jobs are those completed    *)
(* plus those under way; the load never exceeds the latter, and equals it  *)
(* on an alive worker as long as no report has raised.                     *)
(***************************************************************************)
LoadMatchesRuns ==
    \A w \in WorkerIds :
        LET active == Cardinality(RunsOn(w))
        IN  /\ reg.assigned[w] = reg.completed[w] + active
            /\ reg.load[w] <= active
            /\ faults = 0 /\ w \in Alive => reg.load[w] = active

(***************************************************************************)
(* "All jobs processed in order" (README): a job is not dispatched for the *)
(* first time before every job submitted earlier was, retries included.    *)
(***************************************************************************)
NoOvertaking ==
    \A j \in 1..submitted : tries[j] > 0 => \A i \in 1..j : tries[i] > 0

(***************************************************************************)
(* MAX_WORKERS holds, and "only ONE replacement for each dead worker" does *)
(* too, whatever mix of kills, duplicate kills, timeouts and scaling.      *)
(***************************************************************************)
PoolBounded ==
    /\ AliveCount <= MaxWorkers
    /\ reg.size <= InitialWorkers + scaled + Cardinality(Dead)

(***************************************************************************)
(* Whenever fewer workers are alive than desired, a failure handler is     *)
(* under way for a dead worker that was not replaced: replaced_dead_workers*)
(* never makes the last handler skip a replacement that is still missing.  *)
(***************************************************************************)
Handled == dying \cup ({monCur} \ {None})
DeficitCovered ==
    AliveCount < Lesser(InitialWorkers, MaxWorkers) => Handled \ replaced # {}

\* The inductive invariant: what the theorems of SchedulerProofs rest on.
IInv ==
    /\ TypeOK /\ PoolBounded /\ DeficitCovered
    /\ NoJobLost /\ InflightHasRun /\ LateRunsFinished

(***************************************************************************)
(* Under fair scheduling the pool comes back to its desired size.          *)
(***************************************************************************)
PoolRepaired ==
    AliveCount < Lesser(InitialWorkers, MaxWorkers)
        ~> AliveCount >= Lesser(InitialWorkers, MaxWorkers)

(***************************************************************************)
(* The scheduler implements the job service: accepted jobs are those       *)
(* submitted, waiting those in the queue, running those a task processes.  *)
(***************************************************************************)
Service == INSTANCE JobService WITH
    accepted <- 1..submitted,
    waiting  <- Elements(queue.pending),
    running  <- RunningJobs,
    finished <- finished

\* The same without fairness: every step is one of the service, or no step of it.
ServiceSpec == Service!Spec

\* The service's liveness, under FairSpec.
EveryJobFinishes == Service!EveryJobFinishes

=============================================================================
