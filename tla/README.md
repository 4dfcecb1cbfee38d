# A TLA+ model of the container security and compliance engine

This directory holds TLA+ modules that model the engine in `src/`, the TLC
configurations that check them on small instances, and proofs, checked by TLAPS,
of the safety properties of the scheduler with either queue, the scan pipeline, the
cache, its client and hash ring, the containers, the broadcasts and the two masters, for
instances of any size. `PROJECT.json` lists every
component, run, mutant, finding, hazard and theorem, and maps every definition to the
lines it models.

## 1. Inventory

The engine is a set of Python processes that talk HTTP. Each is one asyncio loop,
except for the cache node, whose handlers are plain functions that FastAPI runs in
threads.

| Part | State it keeps | Operations | Hard behaviour | What makes it correct |
|---|---|---|---|---|
| Scheduler service (`scheduler_service.py`) | worker tasks, `replaced_dead_workers`, desired size | enqueue, scale, deregister, replace | handlers suspend between `mark_dead` and the reclaim; the same death is reported twice | one replacement per death, none forgotten |
| Worker registry (`worker_registry.py`) | status, load and counters per worker | register, heartbeat, mark_* | counters changed by tasks of dead workers | counters match the tasks |
| Job queue (`job_queue.py`), in memory or on Redis | pending list, in-flight table, results | enqueue, dequeue, requeue, complete, reclaim_inflight | several Redis calls per operation, crashes and outages in between, two schedulers on one Redis | no accepted job disappears |
| Dispatcher (`dispatcher.py`) | one suspended loop, one task per job | dispatch_loop, _run_job | the worker is chosen before a blocking dequeue | every job is dispatched, finished, counted once |
| Heartbeat monitor (`monitor.py`) | one pass over the workers | monitor, _reclaim_jobs | a pass suspends at every dead worker | the dead worker's jobs are retried |
| Worker node (`worker_node.py`) | none of its own | heartbeat_loop, process_job | Trivy fails, hangs or is missing | a result in every case |
| Cache node (`cache_common.py`, `cache_node.py`) | LRU in memory, entries in Redis | GET, PUT, DELETE, warm-up | two levels without a common lock, several nodes, expiry, restarts | levels agree, nothing is served past its TTL |
| Cache client and ring (`worker_cache_client.py`) | hash ring, known nodes | get, put to all, re-add | threads change the ring without a lock | a key has one owner, nodes come back |
| Docker listener (`docker_listener.py`) | event stream, handler tasks | start, die, stop, kill handlers | events in quick succession, lost streams | records follow Docker |
| Log monitor (`log_monitor.py`) | one task per container | start, stop, stream | cancelled tasks clean up late; a thread per silent container | the log of a running container is watched |
| Resilience engine (`resilience.py`) | failovers under way | create, start, poll, mark | replicas that die during their own failover | critical containers and replicas are replaced |
| State store (`state_store.py`) | records, critical set, audit log, snapshot file | upserts, save, load | two processes write one file; torn writes | what is known survives a restart |
| Control plane (`main.py`) and standby (`standby.py`) | role, failure count, mirrored state | health check, promotion, mirror | slow primary, answers under way at the promotion | one master, nothing forgotten |
| WebSocket manager (`ws_manager.py`) | list of connections | connect, disconnect, broadcast | the list changes during a broadcast | every live client gets each message |
| Dashboard page (`ui.py`) | rows of containers and workers, one chain of polls per connection | connect, handleEvent, pollStatus | messages and answers of `/status` overtake each other; sockets close | it shows the store in the end |
| Launcher, benchmark, demo, helpers | none | scripts | none | not modelled |

How they interact: a container start reaches the listener, which asks the cache
node and, on a miss, posts a job to the scheduler. The dispatcher hands the job to
a worker, stores the result in the cache, and posts it back to the control plane.
Workers send heartbeats to the registry (a call) and to the control plane (HTTP).
The standby polls the primary's `/health` and `/status`. All masters share Docker
and, when started from one directory, the snapshot file. The control plane broadcasts
what happens to every connected page, and each page asks for `/status` every 5 s.

## 2. Modules

| Module | Models | State and actions |
|---|---|---|
| `WorkerRegistry` | the registry | operators on a record of functions: `Register`, `MarkAssigned`, `MarkCompleted`, `MarkFailed`, `MarkDead`, one per method |
| `JobSequences`, `InMemoryQueue` | the in-memory queue | `Enqueue`, `Dequeue`, `Complete`, `RequeueAll` on a record of the pending sequence, the in-flight set and its owners |
| `JobService` | the abstract specification: at-least-once execution of accepted jobs | `Accept`, `Start`, `Finish`, `Retry` |
| `Scheduler` | one scheduler process on the in-memory queue: dispatcher, tasks, monitor, pool | one action per stretch of code between two awaits that really suspend; it refines `JobService` |
| `SchedulerProofs` | lemmas and theorems about the scheduler | section 5 |
| `RedisScheduler`, `MCRedisScheduler` | one or more scheduler processes on Redis | one action per Redis command, crashes, outages, restarts; without crashes and outages it refines `JobService` too |
| `RedisSchedulerProofs` | lemmas and theorems about the Redis queue | section 5 |
| `LayerCache`, `MCLayerCache` | the two-level cache | one action per LRU method or Redis command of a request thread; boot and warm-up, clock, expiry |
| `LayerCacheProofs` | lemmas and theorems about the two levels | section 5 |
| `HashRing` | the ring as data | `Owner`, the definition by distance; `BisectRight` and `Wrapped`, what `get_node` computes |
| `CacheClient`, `MCCacheClient` | one caller of the cache client and its background threads | one action per statement that reads or writes the shared ring (`Route` and `Pick`, `PopPoint` to `Assign`, `Wake`, `IsMember` and `Enter` to `SortKeys`); requests; nodes that go down and come back |
| `CacheClientProofs` | lemmas and theorems about the ring as data and about the client | section 5 |
| `ContainerEvents` | listener, log monitor, failover, and the thread pool they share | `Handle*` for the synchronous part of each event handler; `Attach`, `LogLine`, `StreamEnds`, `MonitorEnds` for a log task, and `AttachFails`, `StreamDrops` where an exception ends it; `Create` to `Recovered` for a failover, with `ReloadFails` and `ReloadBreaks`; Docker and its users are the environment |
| `ContainerEventsProofs` | lemmas and theorems about the thread pool, log tasks and failovers | section 5 |
| `MasterFailover` | the two masters, their stores, the shared file | Docker events, each handled late or missed; a save in two steps (`Write` empties the file, `SaveEnds` has written it), during which the other master may save or load; health checks, promotion, mirror, crash and start of each master |
| `MasterFailoverProofs` | lemmas and theorems about the masters and their file | section 5 |
| `WebSockets` | one broadcast over the list of connections | `Sent`, `Failed`, `Swept` on a record of the position in the list and what was sent; `Without`, what `remove` leaves |
| `Dashboard`, `MCDashboard` | a page, its control plane, and what feeds the store: a worker's heartbeats and death notice, a container's events | requests that arrive or get lost, concurrent broadcasts (`SendNext`, `SendFails`, `BroadcastEnds`), connections, polls, crash and restart |
| `DashboardProofs` | lemmas and a theorem about broadcasts over a changing list | section 5 |
| `ScanPipeline` | a scan from the start event to the record | handler, attempt and call steps; its scheduler is an `INSTANCE` of `JobService`, so it relies exactly on what `Scheduler` is shown to implement |
| `ScanPipelineProofs` | lemmas and theorems about the pipeline | section 5 |

Abstractions that hold everywhere: names, images and payloads are model values or
numbers; texts, logs and broadcasts are left out; an HTTP call is one step at the
callee, or two when what the caller learns matters. In `ScanPipeline` a job has at most
one queued copy and a container starts once. In `ContainerEvents` the scan part of a
start handler is left out (it is in `ScanPipeline`), and the events of one stream are
handled in their order, as `run_coroutine_threadsafe` does. In `MasterFailover` a record
is the last Docker event it knows of and whether it carries a `container_id`; the audit
log and records that only a `scan_complete` made (`main.py:255`) are left out, and so is
the `is_critical` flag inside a record, which only the page reads. Saves that follow one
another without an await are one save there, those of a mirror round included, and a
process does not crash between the change of its store and the moment its save empties
the file. In `LayerCache` the time to live runs from the second clock reading of a PUT
(`cache_common.py:199`), which `made` keeps; `created_at` is the first, and nobody reads
it. In `CacheClient` a request is one step; 2^256 hash values are `Size` of them. In
`Dashboard` a record is its status, and heartbeats that would say what the store says
already are left out.

The mutants (operators named in a comment as the mutant of the definition that
follows) are plausible bugs; nothing in the specifications uses them.

## 3. Runs

Runs that pass:

| Run | Shows | Instance |
|---|---|---|
| `Scheduler` | no job is dropped or resurrected; a task of a dying worker can be reclaimed; first dispatches are in order; one replacement per death, none forgotten; counters match the tasks; every job finishes, the pool is repaired, `JobService` is implemented | 2 jobs, 2 workers scaled to 3, 1 death, 1 raising report |
| `RedisRestarts` | how many jobs can be lost or duplicated at most; after a restart the in-flight hash has no orphan; all other jobs get a recorded result | 2 jobs, 2 crashes, 1 outage, 1 worker death, 1 raising report |
| `RedisShared` | a second scheduler that takes the live jobs of the first for orphans makes copies, but the two are still one `JobService`, so no job is lost | 2 processes, 2 jobs, 1 raising report, no crash |
| `CacheSequential` | LRU and Redis agree between requests | 1 node, 2 keys, capacity 1, expiry, delete, restart, outage |
| `CacheShared` | a result that was written through without a rival stays on Redis until its TTL passes or a PUT evicts it, and nothing older is left (`SafeResultStays`); no GET answers with a result whose TTL had passed when it came (`AnswersAreCurrent`) | 2 nodes, 2 threads, 2 keys, capacity 1, 2 puts, 2 ticks, 1 restart |
| `CacheClient` | the bisection finds the owner when no thread is changing the ring; a lookup that no change of the ring disturbs fails only with no node left; an absent node has a cause; what was stored everywhere is a hit | 2 nodes with 2 points each, 2 layers on 8 hashes, 3 calls, 2 failures, 2 re-add threads |
| `ContainersSafe` | every replica that ran is, or will be, marked critical, unless an exception ended its failover; a running container is monitored unless the log task of that run failed, however late older tasks end or fail | 3 starts, a death, a stop, a refused call, a broken stream, 3 threads |
| `ContainersLive` | failovers end | 2 deaths, a signal, a refused call, an unbroken stream, 5 threads |
| `Masters` | a second active master has a cause; a dead primary is replaced; what a live one knows of a container whose start it heard of is mirrored; a restarted one knows what it had saved, if that save was whole, undisturbed and the last | 1 container, 1 worker, 2 events, 1 crash, overlapping saves, 2 slow answers, threshold 2, 1 check per mirror request |
| `Pipeline` | a handled start has a result or a job on its way, and gets the result in the end; results belong to the image | 2 containers on 1 or 2 images, a retry, a failing cache call and a failing report |
| `Dashboard` | a broadcast passes over a listed client only when the list shrinks under it; store and page settle on the truth, and closed connections are forgotten | 1 worker, 1 container, 2 connections of the page, a second page, 1 closed socket or crash, 1 lost request, buffer of 1, 2 broadcasts at a time |

The run that ends in a violation, of a documented claim that the code does not keep
(the quote is in `PROJECT.json`):

| Run | Claim refuted | Cause |
|---|---|---|
| `ContainersCascade` | a replica is replaced when it dies | it is marked critical only after its health check |

**Bounds.** Every bound is a CONSTANT whose comment says so (`MaxDeaths`, `MaxCrashes`,
...); it limits how often the environment interferes, never what the code does. Two jobs
and two workers are the least that let a stale candidate, a duplicate task and a reclaim
meet; one more worker by scaling makes the pool full when a replacement is due. One
death with its DELETE, its timeout and a dispatch to the dead worker shows all the races
of a death; for more deaths, jobs and workers the safety properties rest on the theorems
of section 5. Two keys with capacity one force an eviction at each second PUT, and let
what a GET reads back push out another entry; two threads are enough for every race
between two requests, and a restart lets a node warm up from what the other stored.
Deletes and outages are in `CacheSequential` only; the theorems on `CacheShared`'s
properties cover them. Two deaths let a replica die during its own failover; three
starts let two old log tasks of one container overlap; three threads are fewer than the
blocking calls that want one. One crash lets either master die and return while the
other is active, asks or mirrors; a second one would only end the run. Two Redis crashes
are needed to repeat an interrupted reclaim. Two cache nodes with two points each take
turns on the ring, so that removing one leaves gaps inside and at its end, and a lookup
can wrap; three calls allow a failing lookup, the change of the ring it causes, and a
lookup meanwhile. `Dashboard` is the union of five settings (`SmallSettings`), one of
which is chosen at the start: worker and container together without faults, worker and a
second page, each of the two alone with a crash or closed socket and a lost request, and
container and second page with a crash. A page that reconnects once has two chains of
polls; two broadcasts are the least that shift each other. `MaxPolls` is 1 or 2 instead
of 50 and `FailureThreshold` 2 instead of 3 in `Masters`: the loops count, and only
reaching the bound matters.

**Deadlock.** It is checked for the scheduler, the masters and the dashboard. The
other configurations switch it off because their systems really come to rest when the
bounds are used up: no more puts, containers or crashes.

**Fairness.** `Scheduler`: the dispatcher, tasks, DELETE handlers and monitor visits
that can go on do so, because the loop runs its ready tasks and every awaited call has a
timeout (Trivy has 90 s). Requests, silent workers and faults owe nothing.
`RedisScheduler`: the same, and a scheduler that is down is restarted by its operator.
`ContainerEvents`: handlers, sleeps, Docker calls that have a thread, and the end of the
log stream of a container that has ended; no line need ever be printed, which is what
starves the pool. `MasterFailover`: the two loops of the standby, and a save that has
begun comes to its end. `Dashboard`: the event loops of server and page run what is
ready, the timers of heartbeats, polls and reconnection fire, requests that are not lost
arrive, and the control plane is started again. A page that is suspended for ever with a
full buffer is excluded by the fairness of `Receive`: `send_text` has no timeout in this
code, so such a page would hold up every broadcast. `ScanPipeline`: calls end, scans
end, and waiting jobs are started, which the run `Scheduler` shows of the scheduler.
`RedisShared` and `CacheClient` are about safety only, and state no fairness.

## 4. Findings

`ContainersCascade`: the replica of a critical container runs for the whole health
check before it is critical itself; if it dies in that time, nothing replaces it.

Three statements of the documentation are too strong, and the models show it without a
run of their own:

- On Redis, `dequeue()` writes the job to the in-flight hash before the dispatcher
  sets `worker_id`, so `_reclaim_jobs` never finds a dead worker's job
  (`scheduler_service.py:12` says that it is requeued). The job is still finished by
  its task, or requeued when a scheduler starts: `EveryJobRecordedOrLost`.
- The standby saves its whole store at every mirror round, to the file the primary
  saves to and restores from, and its store has no critical containers
  (`README.md:423`, "state survives restarts"). Nothing keeps the two processes from
  saving or loading at the same time: `save_to_disk` empties the file before it writes
  (`state_store.py:189`), so a load may find half a file, and two saves that overlap leave
  an unreadable file or one made of both stores. `SurvivesRestart` holds when the last
  save was the primary's, complete, and no save of the standby was under way beside it
  or began after it.
- A page redirects to the standby only when it was loaded from port 8000
  (`ui.py:665`), while the documented port of the control plane is 9000
  (`README.md:188`); on 9000 it reconnects for ever, which is what `Dashboard` models.

What the models cover and the properties therefore do not promise (each is a hazard
in `PROJECT.json`, at its line):

- `dispatch_loop` uses a worker chosen before the blocking `dequeue()`: a job can be
  dispatched to a worker that has died or is no longer the least loaded. `NoJobLost`
  and `EveryJobFinishes` hold all the same, because the task runs to its end.
- A crash between BLPOP and HSET, or between HDEL and RPUSH, loses a job; an error in
  `dequeue()` ends the dispatcher. `LossBounded` counts exactly these gaps, and
  `EveryJobRecordedOrLost` promises nothing after an outage.
- Deletions from Redis go by key. With two request threads an eviction or a clean-up can
  delete what was just put back, and without any race a node whose LRU still holds an
  expired copy deletes the fresh entry that another node has stored since
  (`cache_common.py:163`). `SafeResultStays` is about a PUT that has no such rival when
  it writes through (`Unrivalled`), and `Coherent` about one thread. DELETE removes the
  LRU entry only.
- `docker stop` is failed over like a death, and a survivable signal detaches the log
  monitor; `RunningIsMonitored` excludes signals. `FailoverCompletes` needs a thread
  for everything that may block.
- An exception in a log task -- the container cannot be found, the stream breaks, a
  broadcast raises (`log_monitor.py:70, 77-82`) -- ends it while the container runs, and
  nothing attaches another one before the next start: `RunningIsMonitored` excepts the
  runs in `dropped`. Likewise `reload()` may raise something that is not Docker's, which
  ends the failover before the replica is marked (`resilience.py:111-116`): the
  exceptions of `ReplicaProtected` are in `abandoned`.
- A die, stop or kill of a container whose start a master has not heard of makes a record
  without `container_id` (`docker_listener.py:205`), and so does a `scan_complete`
  (`main.py:255`). The mirror passes over such records (`standby.py:139`);
  `MirrorCatchesUp` is about the others (`named`).
- A promoted standby and a restarted primary are both active (`RivalHasCause` says
  when), and the critical set is not mirrored.
- Two containers of one image that start together are both scanned; and a scan that
  failed leaves a result with zero vulnerabilities, which is cached
  (`dispatcher.py:93`).
- When a removal from the ring overlaps an addition, points stay in only one of `ring`
  and `sorted_keys`, and lookups that hit such a point raise. `RingMatches` and
  `NeverBlocked` exclude it with the history variable `overlapped`; additions that
  overlap each other, even of one node, are harmless. A lookup during which a node is
  being put back may meet the ring half changed and end without a node while there is
  one: `NeverBlocked` excludes it with `disturbed`. A node that is still down after 15 s
  never returns (`missed` in `AbsentHasCause`).
- A broadcast goes over a list that others shorten: `MissedBounded` counts whom it can
  pass over. The second of two broadcasts to find the same client dead gets a
  ValueError from `remove`, and its caller with it (`ws_manager.py:29`).
- Each reconnection starts one more chain of polls that never ends (`ui.py:659`).
  A page shows old rows after a new message, until the next poll. A worker that is dead
  goes on sending heartbeats, so its row comes back after a restart of the control
  plane -- as dead, which `Converges` relies on.

## 5. Proofs

What each module proves, for all values of the constants that satisfy the assumptions
of the module it is about (every run evaluates them):

| Module | Theorem | States |
|---|---|---|
| `SchedulerProofs` | `InductiveInvariant`, `TypeCorrect`, `JobsAreNeverLost`, `InflightIsBacked`, `PoolStaysBounded`, `DeficitIsCovered` | `IInv` and what is in it |
| | `FirstDispatchesInOrder`, `TasksAreReclaimable`, `LoadsAreCounted` | `NoOvertaking`, `UnfinishedRunIsReclaimable`, `LoadMatchesRuns` |
| | `ImplementsService` | the scheduler refines `JobService`: initial state and every step (liveness is not part of it) |
| `RedisSchedulerProofs` | `TypesHold`, `NothingIsLost` | `TypeOK` and `NoSilentLoss`, for any number of schedulers on one Redis |
| | `ImplementsService` | any number of schedulers on one Redis refine `JobService` while none crashes and Redis answers |
| | `HashHasNoOrphans`, `LossesAreBounded`, `CopiesAreCounted` | `InflightIsLive`, `LossBounded`, `CopiesBounded`, for one scheduler and any number of crashes, outages and faults |
| `LayerCacheProofs` | `TypesHold`, `AnswersKeepTheirTTL`, `SafeResultsStay` | `TypeOK`, `AnswersAreCurrent`, `SafeResultStays`, for any capacity and any number of requests, deletes, restarts and outages |
| | `LevelsAgree` | `Coherent`, for one node that takes one request at a time |
| `CacheClientProofs` | `RemovalMovesOnlyItsKeys`, `AdditionMovesKeysToItself`, `OtherNodesKeepTheirLayers`, `BisectionFindsOwner` | what the ring promises as data |
| | `TypesHold`, `RingIsConsistent`, `DeadNodesNeverBlock`, `AbsenceHasCause`, `StoredScansAreHits` | `TypeOK`, `RingMatches`, `NeverBlocked`, `AbsentHasCause`, `StoredIsHit` |
| `ScanPipelineProofs` | `TypesHold`, `NoScanForgotten` | `TypeOK`, `NothingForgotten` |
| | `PipelineUsesService` | every step of the pipeline is a step of `JobService` or leaves it alone |
| `ContainerEventsProofs` | `ReplicasAreProtected`, `TypesHold` | `ReplicaProtected`, `TypeOK` |
| | `FailoversAreNotRepeated` | no run of a container has two failovers under way, and none before it ended |
| | `RunningContainersAreWatched` | `RunningIsMonitored`, while the event stream holds and nobody sends a signal, for each run whose log task has not failed |
| `DashboardProofs` | `MissedClientsAreShifted` | `MissedBounded`, for any number of sockets and of broadcasts under way |
| `MasterFailoverProofs` | `TypeCorrect`, `RivalsHaveCause`, `RestartsKeepRecords` | `TypeOK`, `RivalHasCause`, `SurvivesRestart` |

**The scheduler.** `NoJobLost` is not inductive on its own. When a task completes
its job nothing is lost only if the task really has one in hand; when a reclaim moves
a job from the in-flight table to the queue, the job must not be finished and idle,
which is `InflightHasRun`: each in-flight job has an active task of the worker it
names. That in turn needs the types (owners are workers, the monitor only suspects
living ones). A report that raises requeues its job after `complete()`, so
`LateRunsFinished` records that such a job already has a result. `PoolBounded` needs
that a worker is replaced at most once, which is `replaced \subseteq Dead` in
`TypeOK`, and `DeficitCovered` that a dead worker leaves `Handled` only after a
replacement or when the pool is full. All theorems on the scheduler share `IInv`, and
three of them add to it:

- the order (`OrderInv`): a job that was never dispatched waits in the queue, and no
  later job is before it there; a requeue appends, and what it appends was dispatched;
- the tasks (`ReclaimInv`): as long as no report has raised, a job is at most once in
  the queue, and not there while it is in flight, so no dequeue replaces the owner of
  a running job; tasks run on registered workers, dead ones do not come back to life,
  and no two handlers tend the same death (`Tended`);
- the counters: a job and the number of its dispatch name one task (`RunsNamed`), so
  creating a task adds exactly one to what is counted, and finishing it takes one away,
  also when the worker is dead or the task is the second one of its job.

`SchedulerProofs` begins with lemmas on the registry operators (they keep it well
formed and say how they change the sets of living and dead workers) and on the queue,
then has one lemma per action that it preserves `IInv`, split by conjunct, and one step
per action that it is a step of `JobService`.

**The Redis queue.** While nobody has crashed and Redis answers, an accepted job is
kept: it is on the list, recorded, in a task, or in the hand of a dispatcher or of a
task between two commands. `KeptInv` says so without the in-flight hash, of which
another scheduler may delete any entry, and adds that a task past its scan has its job
recorded or about to be; that makes it inductive, since a task may then end or push.
So a second scheduler costs copies, never a job. `ImplementsService` uses the same
invariant: with a job waiting while it is on the list, running while a dispatcher, a
task or a completion has it, and finished once it is recorded, a push is a `Retry`
only if its job was running or finished before, which is what `KeptInv` says of it.
`ServiceSpec` implies `NoSilentLoss`, which `NothingIsLost` proves directly.

The other three are about one scheduler, because a second one breaks each of them
(`RedisShared` has the copies). `LiveInv` follows an entry of the in-flight hash from
the HSET of `dequeue` to its HDEL: at every moment a task, the suspended dispatcher, the
reclaim's snapshot or a completion under way answers for it. `LossInv` is a payment: a
job that has left the list and is not in the hash yet, or has left the hash and is not
on the list yet, is exposed, and the number of jobs that are exposed to a failure that
has happened, or whose report has failed and not been handled, never exceeds the number
of crashes, outages and faults. The bound alone is not inductive, since a fault is paid
for when it happens and the job is lost later. `CopiesInv` counts for each job who could
still push it: list entries, hands and the reclaim together are one until the first
crash, and a crash adds one at most.

**The cache node.** The types say what a request knows at each step (`Typed`): a key in
hand is the key asked for, an entry in hand was read or made for it, and a list of the
LRU has no key twice, so that finding, deleting and evicting by position mean what they
mean by key. Every entry in a level or in a hand was there before or is the one of a PUT
that has just come (`EntriesComeFromPuts`), so an entry expires one TTL after it was
made (`Dated`), and a later PUT has made a later one (`InOrder`).

`AnswersKeepTheirTTL` is about every way to an answer: a hit in the LRU is checked when it
is looked up, and what Redis gave had not expired when it was read, which was after the
request came (`Asked`); the clock may tick before it is handed out, not before it was
asked for. For `SafeResultsStay`, `Protected` says why nothing can delete a safe result by
its key: nobody has the key in a step that deletes, as long as it is live every carried
entry of the key is at least as new (`Guarded`) and so has not expired either, and so no
request and no warm-up will find an expired one to delete. A later PUT replaces it by
a newer one, and an eviction by a PUT ends the promise. `Sane` is what this needs of
evictions (never of the put's own key) and of warm-up, whose clock reading is old.
`LevelsAgree` (`Agree`) accounts for each entry
that one level has and the other has not by the step at which the one request is, and
is about any capacity; with a second thread the property is false (section 4).

**The client.** `ClientInv` lets ring and `sorted_keys` differ by what the threads that
are changing them have in hand: the points still to be popped, or those that a thread
has added and not sorted in (`RingInv`). Each thread answers for the points it has put
there itself, since several may be adding one node at a time. `ClientInv` also says that
a point a lookup has found stays on the ring until it is used (`LookupInv`). All of it
is under the condition that no removal has overlapped an addition, which is what
`overlapped` records; `DeadNodesNeverBlock` also needs that no node was being put back
during the lookup (`disturbed`); the types, `AbsentHasCause` and what is stored
(`Stored`) hold regardless.

**The pipeline.** `PipelineInv` says where a handled start is: its handler has still to
ask the cache, an attempt is under way, or it is filed with the job service (`Filed`,
`OnTheWay`). The refinement of `JobService` is then a step for each action.

**Containers.** Nothing that `TypeOK` says of the thread pool holds on its own. That a
busy set grows or shrinks by one needs that no job is in the pool twice (`Single`), and
that needs to know whose each job is (`Backed`): a `next()` belongs to a task that has
been attached, a Docker call to a failover that waits for just that call. Two failovers
of one container could still submit the same call, so `Deaths` says that one run of a
container has one die event and one failover. `Sound` adds that no thread is idle while
a job waits; with that, `Submit` and `Done` admit one job at most.

`RunningContainersAreWatched` has to exclude that a start finds the task of an earlier
run registered, and so attaches none, just before that task ends. `Alternating` does: of
the places in the queue of events at which a container starts, the one before the queue
if a task is registered for it, the one behind it if it does not run, no two are without
a stop, kill or die event between them, which drops the registration. `Watched` is then
inductive: a running container has all its events handled and a live task of its present
run or of a run not yet opened, or its task has failed in this run, or its last event in
the queue is its start. The tasks of earlier runs may fail at any time. A broken stream
loses events, and a signal queues a kill event for a container that goes on; each makes
the property false, as its hypotheses say.

**Failovers.** `ProtectionInv`: a failover past `create()` has a replica of its own that
Docker knows and that has not run before `start()`, and a replica that Docker does not
know has never run. Without the first part, two failovers could share a replica, and
the end of one would leave it unprotected. A failover that an exception ends is the one
exception, and `abandoned` names its replica.

**Masters.** As long as nobody has crashed, the primary is up, and so each failure that
the standby has counted is a slow answer (`FailuresAreSlow`). A file that the primary
was the last to save, whole and undisturbed, is the primary's store, or what that was when
it ended (`FileIsCurrent`): every change begins a save, which takes the file from its last
writer, and a save that ends alone (`scraps` holds nothing else) is of the store as it is.

**Broadcasts.** `MissedBounded` speaks of the end of a broadcast; on the way, `Counts`
bounds the positions before that of the loop that hold no client it has dealt with
(`Skipped`). A position behind the end of a list that has become shorter counts as well:
without it the bound is not inductive, because a client that is listed next would take
that position and be passed over although nothing is removed any more. A removal moves a
client by no more than was removed (`WithoutProperties`, by the rank of what stays), so
the new skipped positions go one to one into the old ones and as many behind the loop
(`CountsShift`).

**The ring.** The first four theorems of `CacheClientProofs` are about the ring as data,
for every number of nodes, points and layers, assuming `RingAssumption` (SHA-256 gives
different strings different hashes):

- `RemovalMovesOnlyItsKeys`, `AdditionMovesKeysToItself`: taking points off the ring
  changes no owner but of their own hashes, putting points on moves hashes to them
  only; `OtherNodesKeepTheirLayers` says it of nodes, since no two nodes share a point;
- `BisectionFindsOwner`: on a sorted list, `bisect_right` with the wrap of `get_node`
  leads to the nearest point clockwise.

The argument is that distances from a hash tell points apart
(`DistanceIsInjective`), so an owner is unique and the minimum over a smaller set is
the same while it is in it. The bisection is `BisectRight`, whose interval halves until
it is empty; that it ends where it should is an induction on the length of the interval.
The induction theorems of the library cannot be used here, so it is made with sets
instead: `EveryNumber` (a set that has 0 and the successor of each member has every
number) and `LeastNumber` (a set of numbers has a least member). That the list is
sorted at all is proved of `Sorted` in the same way.

Only model-checked:

- all liveness, which is outside the prover;
- `CascadingProtection`, which the code does not keep (section 4).

## 6. Not modelled

- Launcher, benchmark, demo app, shared helpers and the unused
  `cache/storage/lru_cache.py`: no state the system depends on.
- The audit log of the store and its mirror: nothing reads it but the page. Entries
  without an `event_id` are appended again at every mirror round (`standby.py:163`).
- Cache statistics, queue depth and worker counters of the store.
- Of the page: health score, graphs, counters, banner, redirect and all markup.
- The critical set's way to the standby: there is none (`standby.py:138`), so a
  promoted standby fails over only what it has marked itself.

## 7. Plan

Done: all the modules of section 2, with proofs of the safety properties of
every component: scheduler, Redis queue, cache, its client and ring, pipeline, containers,
masters and broadcasts.

What is left, in order of importance:

1. The composition of two masters with `ContainerEvents`, to see what a split does to
   failovers; an abstract specification of a supervised container.
2. The audit log and its duplicates in `MasterFailover`.
