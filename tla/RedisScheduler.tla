--------------------------- MODULE RedisScheduler ---------------------------
(***************************************************************************)
(* Scheduler processes on the Redis backend (RedisJobQueue and             *)
(* create_queue of scheduler/queue/job_queue.py, with the dispatcher and   *)
(* the monitor as they use it).  What the processes keep in memory is lost *)
(* when one crashes; the Redis lists and hashes are not.  Every Redis call *)
(* is an await of its own: a crash or an outage can fall between any two.  *)
(*                                                                         *)
(* The worker pool is reduced to what matters to a job here: each process  *)
(* has one alive worker at a time, and a death replaces it by a new one    *)
(* (module Scheduler has the pool in full).                                *)
(***************************************************************************)
EXTENDS JobSequences, FiniteSets

CONSTANTS
    Procs,       \* scheduler processes sharing one Redis
    None,        \* no job
    MaxCrashes,  \* bound: crashes of scheduler processes
    MaxOutages,  \* bound: times Redis becomes unreachable
    MaxDeaths,   \* bound: worker deaths
    MaxFaults    \* bound: status reports that raise out of a job task

ASSUME RedisAssumption ==
    /\ {MaxCrashes, MaxOutages, MaxDeaths, MaxFaults} \subseteq Nat
    /\ None \notin Jobs

VARIABLES
    pending,    \* LIST rcsce:queue:pending
    inflight,   \* keys of HASH rcsce:queue:inflight
    completed,  \* keys of HASH rcsce:queue:completed
    up,         \* Redis is reachable
    submitted,  \* jobs 1..submitted were pushed by enqueue()
    finished,   \* jobs whose result was handed to queue.complete()
    tries,      \* how often each job was dispatched; names its tasks
    mode,       \* what each process is doing: see Mode
    snap,       \* reclaim_inflight: jobs of its HGETALL still to handle
    pushed,     \* reclaim_inflight: the job between its RPUSH and its HDEL
    dpc,        \* where dispatch_loop of a process is suspended
    held,       \* the job dispatch_loop has in hand
    candidate,  \* workers[0] of its current iteration
    worker,     \* the alive worker of each process, numbered by generation
    runs,       \* the live _run_job tasks
    completing, \* per process, jobs whose _complete_async task is pending
    crashes, outages, deaths, faults

redisVars == <<pending, inflight, completed>>
startVars == <<mode, snap, pushed>>
dispatchVars == <<dpc, held, candidate, tries>>
counters == <<crashes, outages, deaths, faults>>
vars == <<redisVars, up, submitted, finished, startVars, dispatchVars, worker, runs,
          completing, counters>>

\* A process on the memory fallback no longer touches Redis (see Scheduler).
Mode == {"down", "reclaiming", "running", "memory"}
DispatchPc == {"idle", "popping", "tracking", "reporting", "ended"}
RunPc == {"scanning", "reporting", "failing", "repushing"}
Workers == 0..(MaxDeaths + MaxCrashes + 1)
Run == [proc: Procs, job: Jobs, try: Nat \ {0}, worker: Workers, pc: RunPc]

Init ==
    /\ pending = << >> /\ inflight = {} /\ completed = {} /\ up = TRUE
    /\ submitted = 0 /\ finished = {} /\ tries = [j \in Jobs |-> 0]
    /\ mode = [p \in Procs |-> "down"]
    /\ snap = [p \in Procs |-> {}] /\ pushed = [p \in Procs |-> None]
    /\ dpc = [p \in Procs |-> "idle"] /\ held = [p \in Procs |-> None]
    /\ candidate = [p \in Procs |-> NoWorker] /\ worker = [p \in Procs |-> 1]
    /\ runs = {} /\ completing = [p \in Procs |-> {}]
    /\ crashes = 0 /\ outages = 0 /\ deaths = 0 /\ faults = 0

-----------------------------------------------------------------------------
(* Start-up: create_queue() and reclaim_inflight().                        *)

\* Mutant of Start: reclaim_inflight is not called.
StartWithoutReclaim(p) ==
    /\ mode[p] = "down"
    /\ mode' = [mode EXCEPT ![p] = IF up THEN "running" ELSE "memory"]
    /\ UNCHANGED <<redisVars, up, submitted, finished, snap, pushed, dispatchVars, worker,
                   runs, completing, counters>>

\* Mutant of Start: the hash of the previous run is cleared, not reclaimed.
StartClearsInflight(p) ==
    /\ mode[p] = "down"
    /\ mode' = [mode EXCEPT ![p] = IF up THEN "running" ELSE "memory"]
    /\ inflight' = IF up THEN {} ELSE inflight
    /\ UNCHANGED <<pending, completed, up, submitted, finished, snap, pushed, dispatchVars,
                   worker, runs, completing, counters>>

\* ping succeeds and HGETALL returns, or either raises: memory fallback.
Start(p) ==
    /\ mode[p] = "down"
    /\ mode' = [mode EXCEPT ![p] = IF ~up THEN "memory"
                                   ELSE IF inflight = {} THEN "running" ELSE "reclaiming"]
    /\ snap' = [snap EXCEPT ![p] = IF up THEN inflight ELSE {}]
    /\ UNCHANGED <<redisVars, up, submitted, finished, pushed, dispatchVars, worker, runs,
                   completing, counters>>

\* RPUSH of some job of the snapshot
ReclaimPush(p) ==
    /\ mode[p] = "reclaiming" /\ pushed[p] = None /\ up
    /\ \E j \in snap[p] : /\ pending' = Append(pending, j)
                          /\ pushed' = [pushed EXCEPT ![p] = j]
    /\ UNCHANGED <<inflight, completed, up, submitted, finished, mode, snap, dispatchVars,
                   worker, runs, completing, counters>>

\* HDEL of that job; after the last one the scheduler is up
ReclaimDelete(p) ==
    /\ mode[p] = "reclaiming" /\ pushed[p] # None /\ up
    /\ inflight' = inflight \ {pushed[p]}
    /\ snap' = [snap EXCEPT ![p] = @ \ {pushed[p]}]
    /\ pushed' = [pushed EXCEPT ![p] = None]
    /\ mode' = [mode EXCEPT ![p] = IF snap'[p] = {} THEN "running" ELSE @]
    /\ UNCHANGED <<pending, completed, up, submitted, finished, dispatchVars, worker, runs,
                   completing, counters>>

\* Redis goes away during the reclaim: the exception leads to the fallback.
ReclaimFails(p) ==
    /\ mode[p] = "reclaiming" /\ ~up
    /\ mode' = [mode EXCEPT ![p] = "memory"]
    /\ snap' = [snap EXCEPT ![p] = {}] /\ pushed' = [pushed EXCEPT ![p] = None]
    /\ UNCHANGED <<redisVars, up, submitted, finished, dispatchVars, worker, runs,
                   completing, counters>>

-----------------------------------------------------------------------------
(* enqueue() and dispatch_loop.                                            *)

\* POST /jobs/enqueue: RPUSH; with Redis away the request fails.
EnqueueJob ==
    /\ up /\ submitted < MaxJobs
    /\ \E p \in Procs : mode[p] = "running"
    /\ submitted' = submitted + 1
    /\ pending' = Append(pending, submitted + 1)
    /\ UNCHANGED <<inflight, completed, up, finished, startVars, dispatchVars, worker, runs,
                   completing, counters>>

\* The iteration takes its worker list and calls dequeue().
Select(p) ==
    /\ mode[p] = "running" /\ dpc[p] = "idle"
    /\ dpc' = [dpc EXCEPT ![p] = "popping"]
    /\ candidate' = [candidate EXCEPT ![p] = worker[p]]
    /\ UNCHANGED <<redisVars, up, submitted, finished, startVars, held, tries, worker, runs,
                   completing, counters>>

\* Mutant of Pop: a BLPOP that timed out is not retried.
PopWithoutRetry(p) ==
    /\ dpc[p] = "popping" /\ up
    /\ held' = [held EXCEPT ![p] = IF pending = << >> THEN None ELSE Head(pending)]
    /\ pending' = IF pending = << >> THEN pending ELSE Tail(pending)
    /\ dpc' = [dpc EXCEPT ![p] = "tracking"]
    /\ UNCHANGED <<inflight, completed, up, submitted, finished, startVars, candidate, tries,
                   worker, runs, completing, counters>>

\* BLPOP returns a job: from here to the HSET only this process knows it.
Pop(p) ==
    /\ dpc[p] = "popping" /\ up /\ pending # << >>
    /\ held' = [held EXCEPT ![p] = Head(pending)]
    /\ pending' = Tail(pending)
    /\ dpc' = [dpc EXCEPT ![p] = "tracking"]
    /\ UNCHANGED <<inflight, completed, up, submitted, finished, startVars, candidate, tries,
                   worker, runs, completing, counters>>

\* HSET into the in-flight hash; the job is assigned, and the report awaited.
Track(p) ==
    /\ dpc[p] = "tracking" /\ up
    /\ inflight' = inflight \cup {held[p]}
    /\ tries' = [tries EXCEPT ![held[p]] = @ + 1]
    /\ dpc' = [dpc EXCEPT ![p] = "reporting"]
    /\ UNCHANGED <<pending, completed, up, submitted, finished, startVars, held, candidate,
                   worker, runs, completing, counters>>

\* The report is over: the job task is created.
CreateRun(p) ==
    /\ dpc[p] = "reporting"
    /\ runs' = runs \cup {[proc |-> p, job |-> held[p], try |-> tries[held[p]],
                           worker |-> candidate[p], pc |-> "scanning"]}
    /\ dpc' = [dpc EXCEPT ![p] = "idle"]
    /\ held' = [held EXCEPT ![p] = None]
    /\ candidate' = [candidate EXCEPT ![p] = NoWorker]
    /\ UNCHANGED <<redisVars, up, submitted, finished, startVars, tries, worker,
                   completing, counters>>

\* A Redis call of dequeue() raises: nothing catches it, the loop is over.
DispatcherEnds(p) ==
    /\ dpc[p] \in {"popping", "tracking"} /\ ~up
    /\ dpc' = [dpc EXCEPT ![p] = "ended"]
    /\ held' = [held EXCEPT ![p] = None]
    /\ candidate' = [candidate EXCEPT ![p] = NoWorker]
    /\ UNCHANGED <<redisVars, up, submitted, finished, startVars, tries, worker, runs,
                   completing, counters>>

-----------------------------------------------------------------------------
(* _run_job, and the _complete_async task it leaves behind.                *)

MoveRun(r, pc) == runs' = (runs \ {r}) \cup {[r EXCEPT !.pc = pc]}

\* The scan is over: complete() only schedules the Redis update.
RunComplete(r) ==
    /\ r.pc = "scanning"
    /\ finished' = finished \cup {r.job}
    /\ completing' = [completing EXCEPT ![r.proc] = @ \cup {r.job}]
    /\ MoveRun(r, "reporting")
    /\ UNCHANGED <<redisVars, up, submitted, startVars, dispatchVars, worker, counters>>

RunReported(r) ==
    /\ r.pc = "reporting"
    /\ runs' = runs \ {r}
    /\ UNCHANGED <<redisVars, up, submitted, finished, startVars, dispatchVars, worker,
                   completing, counters>>

\* The report raises, as in Scheduler; the except branch awaits its own.
RunRaises(r) ==
    /\ r.pc = "reporting" /\ faults < MaxFaults
    /\ faults' = faults + 1
    /\ MoveRun(r, "failing")
    /\ UNCHANGED <<redisVars, up, submitted, finished, startVars, dispatchVars, worker,
                   completing, crashes, outages, deaths>>

\* Mutant of RequeueDelete: the in-flight entry stays.
RequeueKeepsEntry(r) ==
    /\ r.pc = "failing" /\ up
    /\ MoveRun(r, "repushing")
    /\ UNCHANGED <<redisVars, up, submitted, finished, startVars, dispatchVars, worker,
                   completing, counters>>

\* requeue: HDEL ...
RequeueDelete(r) ==
    /\ r.pc = "failing" /\ up
    /\ inflight' = inflight \ {r.job}
    /\ MoveRun(r, "repushing")
    /\ UNCHANGED <<pending, completed, up, submitted, finished, startVars, dispatchVars,
                   worker, completing, counters>>

\* ... then RPUSH
RequeuePush(r) ==
    /\ r.pc = "repushing" /\ up
    /\ pending' = Append(pending, r.job)
    /\ runs' = runs \ {r}
    /\ UNCHANGED <<inflight, completed, up, submitted, finished, startVars, dispatchVars,
                   worker, completing, counters>>

\* either of them raises: the task dies
RequeueFails(r) ==
    /\ r.pc \in {"failing", "repushing"} /\ ~up
    /\ runs' = runs \ {r}
    /\ UNCHANGED <<redisVars, up, submitted, finished, startVars, dispatchVars, worker,
                   completing, counters>>

RunStep(r) == \/ RunComplete(r) \/ RunReported(r) \/ RunRaises(r)
              \/ RequeueDelete(r) \/ RequeuePush(r) \/ RequeueFails(r)

\* Mutant of CompleteAsync: only a job that HDEL removed is recorded, and the
\* other one of a pair of copies is taken off the list with it.
CompleteRemovesCopies(p, j) ==
    /\ j \in completing[p]
    /\ completing' = [completing EXCEPT ![p] = @ \ {j}]
    /\ pending' = SelectSeq(pending, LAMBDA k : k # j)
    /\ IF up /\ j \in inflight
       THEN inflight' = inflight \ {j} /\ completed' = completed \cup {j}
       ELSE UNCHANGED <<inflight, completed>>
    /\ UNCHANGED <<up, submitted, finished, startVars, dispatchVars, worker, runs, counters>>

\* The transaction HDEL, HSET; if Redis is away the task dies unnoticed.
CompleteAsync(p, j) ==
    /\ j \in completing[p]
    /\ completing' = [completing EXCEPT ![p] = @ \ {j}]
    /\ IF up THEN inflight' = inflight \ {j} /\ completed' = completed \cup {j}
             ELSE UNCHANGED <<inflight, completed>>
    /\ UNCHANGED <<pending, up, submitted, finished, startVars, dispatchVars, worker, runs,
                   counters>>

-----------------------------------------------------------------------------
(* Worker deaths.                                                          *)

\* The "worker_id" of the JSON that dequeue() stores: the dispatcher sets the
\* key later, and requeue() and reclaim_inflight() store it without the key.
StoredWorker(j) == NoWorker

(***************************************************************************)
(* The alive worker of p is marked dead, _reclaim_jobs scans the in-flight *)
(* hash (an error is logged), and a replacement is created.                *)
(***************************************************************************)
WorkerDies(p) ==
    LET mine == {j \in inflight : StoredWorker(j) = worker[p]}
    IN  /\ mode[p] = "running" /\ deaths < MaxDeaths
        /\ deaths' = deaths + 1
        /\ worker' = [worker EXCEPT ![p] = @ + 1]
        /\ IF up THEN /\ \E s \in Orderings(mine) : pending' = pending \o s
                      /\ inflight' = inflight \ mine
                 ELSE UNCHANGED <<pending, inflight>>
        /\ UNCHANGED <<completed, up, submitted, finished, startVars, dispatchVars, runs,
                       completing, crashes, outages, faults>>

-----------------------------------------------------------------------------
(* The environment: crashes of processes, outages of Redis.                *)

Crash(p) ==
    /\ mode[p] # "down" /\ crashes < MaxCrashes
    /\ crashes' = crashes + 1
    /\ mode' = [mode EXCEPT ![p] = "down"]
    /\ snap' = [snap EXCEPT ![p] = {}] /\ pushed' = [pushed EXCEPT ![p] = None]
    /\ dpc' = [dpc EXCEPT ![p] = "idle"] /\ held' = [held EXCEPT ![p] = None]
    /\ candidate' = [candidate EXCEPT ![p] = NoWorker]
    /\ worker' = [worker EXCEPT ![p] = @ + 1]
    /\ runs' = {r \in runs : r.proc # p}
    /\ completing' = [completing EXCEPT ![p] = {}]
    /\ UNCHANGED <<redisVars, up, submitted, finished, tries, outages, deaths, faults>>

Outage ==
    /\ up /\ outages < MaxOutages
    /\ up' = FALSE /\ outages' = outages + 1
    /\ UNCHANGED <<redisVars, submitted, finished, startVars, dispatchVars, worker, runs,
                   completing, crashes, deaths, faults>>

Recovery ==
    /\ ~up /\ up' = TRUE
    /\ UNCHANGED <<redisVars, submitted, finished, startVars, dispatchVars, worker, runs,
                   completing, counters>>

-----------------------------------------------------------------------------
StartStep(p) == Start(p) \/ ReclaimPush(p) \/ ReclaimDelete(p) \/ ReclaimFails(p)
DispatchStep(p) == Select(p) \/ Pop(p) \/ Track(p) \/ CreateRun(p) \/ DispatcherEnds(p)

Next ==
    \/ \E p \in Procs :
        \/ Start(p) \/ ReclaimPush(p) \/ ReclaimDelete(p) \/ ReclaimFails(p)
        \/ Select(p) \/ Pop(p) \/ Track(p) \/ CreateRun(p) \/ DispatcherEnds(p)
        \/ WorkerDies(p) \/ Crash(p)
        \/ \E j \in Jobs : CompleteAsync(p, j)
    \/ \E r \in runs : RunStep(r)
    \/ EnqueueJob \/ Outage \/ Recovery

Spec == Init /\ [][Next]_vars

(***************************************************************************)
(* asyncio runs every ready task, Trivy and the network calls time out,    *)
(* and the operator restarts a scheduler that is down.                     *)
(***************************************************************************)
Fairness ==
    /\ \A p \in Procs : WF_vars(StartStep(p)) /\ WF_vars(DispatchStep(p))
    /\ \A j \in Jobs : /\ WF_vars(\E r \in runs : r.job = j /\ RunStep(r))
                       /\ WF_vars(\E p \in Procs : CompleteAsync(p, j))

FairSpec == Spec /\ Fairness

-----------------------------------------------------------------------------
(* Properties.                                                             *)

\* Every variable has its type; a process holds a job only while it moves it.
TypeOK ==
    /\ pending \in Seq(Jobs)
    /\ inflight \subseteq Jobs /\ completed \subseteq finished
    /\ up \in BOOLEAN
    /\ submitted \in 0..MaxJobs /\ finished \subseteq 1..submitted
    /\ tries \in [Jobs -> Nat]
    /\ mode \in [Procs -> Mode]
    /\ snap \in [Procs -> SUBSET Jobs] /\ pushed \in [Procs -> Jobs \cup {None}]
    /\ dpc \in [Procs -> DispatchPc] /\ held \in [Procs -> Jobs \cup {None}]
    /\ candidate \in [Procs -> Workers] /\ worker \in [Procs -> Workers]
    /\ runs \subseteq Run
    /\ completing \in [Procs -> SUBSET Jobs]
    /\ \A p \in Procs :
         /\ (held[p] # None) <=> (dpc[p] \in {"tracking", "reporting"})
         /\ mode[p] # "running" => dpc[p] = "idle" /\ completing[p] = {}
         /\ pushed[p] # None => pushed[p] \in snap[p]
    /\ crashes \in 0..MaxCrashes /\ outages \in 0..MaxOutages
    /\ deaths \in 0..MaxDeaths /\ faults \in 0..MaxFaults

\* Jobs some process has in hand, in a task or in the dispatcher.
InHand(p) == {r.job : r \in {q \in runs : q.proc = p}} \cup completing[p]
                 \cup ({held[p]} \ {None})

\* Accepted jobs that are nowhere any more, and have no recorded result.
Lost == {j \in 1..submitted :
            /\ j \notin Elements(pending) \cup inflight \cup completed
            /\ \A p \in Procs : j \notin InHand(p)}

(***************************************************************************)
(* For a single scheduler each crash, each outage and each requeue cut in  *)
(* two loses at most one job.                                              *)
(***************************************************************************)
LossBounded == Cardinality(Lost) <= crashes + outages + faults

(***************************************************************************)
(* For a single scheduler, only a reclaim interrupted between its RPUSH    *)
(* and its HDEL, and repeated after the restart, leaves a second copy of a *)
(* job on the list: one per crash, the first crash excepted.               *)
(***************************************************************************)
Copies(j) == Cardinality({i \in 1..Len(pending) : pending[i] = j})
CopiesBounded == \A j \in Jobs : Copies(j) <= IF crashes = 0 THEN 1 ELSE crashes

(***************************************************************************)
(* Once a single scheduler runs, and as long as Redis stays up, the        *)
(* in-flight hash holds no orphan: each of its jobs is in hand, or will be *)
(* taken out by a pending completion.                                      *)
(***************************************************************************)
InflightIsLive ==
    outages = 0 => \A p \in Procs : mode[p] = "running" => inflight \subseteq InHand(p)

(***************************************************************************)
(* Whatever crashes, restarts and failed reports do, every accepted job    *)
(* gets a recorded result, or is lost in one of the gaps that LossBounded  *)
(* counts.  After an outage nothing is promised: the dispatcher has ended. *)
(***************************************************************************)
EveryJobRecordedOrLost ==
    \A j \in Jobs : (j <= submitted) ~> (j \in completed \/ j \in Lost \/ outages > 0)

(***************************************************************************)
(* Without a crash or an outage no job is lost, not even between the two   *)
(* Redis calls of a requeue, and not even when a second scheduler starts   *)
(* on the same Redis and its reclaim_inflight takes the live jobs of the   *)
(* first for orphans: they run twice then.                                 *)
(***************************************************************************)
NoSilentLoss == crashes = 0 /\ outages = 0 => Lost = {}

\* Jobs that a dispatcher holds, a task processes, or a completion is about to record.
RunningJobs == {j \in Jobs : \/ \E r \in runs : r.job = j /\ r.pc \in {"scanning", "reporting"}
                             \/ \E p \in Procs : j \in completing[p] \/ held[p] = j}

(***************************************************************************)
(* Without a crash or an outage schedulers on one Redis are the job        *)
(* service that the in-memory scheduler is, and a job is finished when its *)
(* result is recorded.  The in-flight hash plays no part in it.            *)
(***************************************************************************)
Service == INSTANCE JobService WITH
    accepted <- 1..submitted,
    waiting  <- Elements(pending),
    running  <- RunningJobs,
    finished <- completed

ServiceSpec == Service!Spec
=============================================================================
