--------------------------- MODULE ContainerEvents --------------------------
(***************************************************************************)
(* One acting master: the Docker event listener and its handlers           *)
(* (core/docker_listener.py), the log monitors (core/log_monitor.py) and   *)
(* the failover of critical containers (core/resilience.py), with what     *)
(* they keep in core/state_store.py.                                       *)
(*                                                                         *)
(* All of it is one asyncio loop, but the blocking Docker calls run in the *)
(* loop's default thread pool: the event stream holds a thread for good,   *)
(* each log monitor one while it waits for a line, and the failover needs  *)
(* one for every step.  The scan a start asks for, the audit log and the   *)
(* broadcasts leave the state below alone and are not here.                *)
(***************************************************************************)
EXTENDS Naturals, SequencesExt, FiniteSets

CONSTANTS
    Originals,      \* containers 1..Originals are the user's
    MaxContainers,  \* bound: containers with the replicas
    PoolSize,       \* threads of the default executor
    MaxPolls,       \* HEALTH_POLL_TIMEOUT / HEALTH_POLL_INTERVAL (50 in the code)
    MaxRuns,        \* bound: how often a container is started
    MaxCrashes,     \* bound: containers that end on their own
    MaxStops,       \* bound: docker stop
    MaxSignals,     \* bound: docker kill with a signal the container survives
    MaxDisconnects, \* bound: times the event stream breaks
    MaxFaults       \* bound: failover calls that Docker refuses

ASSUME ContainersAssumption ==
    /\ {Originals, MaxContainers, PoolSize, MaxPolls, MaxRuns, MaxCrashes, MaxStops,
        MaxSignals, MaxDisconnects, MaxFaults} \subseteq Nat
    /\ 0 < Originals /\ Originals <= MaxContainers
    /\ PoolSize > 0 /\ MaxPolls > 0
    /\ MaxContainers >= Originals + MaxCrashes + MaxStops   \* a replica for every death

Containers == 1..MaxContainers
None == 0

VARIABLES
    docker,      \* what Docker says of each container
    run,         \* how often each container was started
    parent,      \* the container a replica replaces; its name is made of it
    events,      \* Docker events whose handler has not begun
    pool,        \* the thread pool: jobs that hold a thread, jobs that wait
    listening,   \* the event stream: "on", "retry" (asleep), "queued" (for a thread)
    status,      \* StateStore: "status" of the container records
    critical,    \* StateStore: _critical_containers
    streams,     \* LogMonitor.active_streams: the number of the task
    monitors,    \* _stream_logs tasks that are not over
    attached,    \* how many tasks each container has had; names them
    dropped,     \* history: the runs of containers whose log task ended by an exception
    failovers,   \* _failover coroutines that are not over
    abandoned,   \* history: replicas whose failover ended by an exception it does not catch
    crashes, stops, signals, disconnects, faults

dockerVars == <<docker, run, parent>>
storeVars == <<status, critical, abandoned>>
monitorVars == <<streams, monitors, attached, dropped>>
counters == <<crashes, stops, signals, disconnects, faults>>
vars == <<dockerVars, events, pool, listening, storeVars, monitorVars, failovers, counters>>

-----------------------------------------------------------------------------
(* The thread pool: jobs are taken in the order they were submitted.       *)

\* next() of the no-th task of a container, or a Docker call of a failover
Job(kind, c, no, r) == [kind |-> kind, of |-> c, no |-> no, run |-> r]
Listen == Job("listen", None, 0, 0)

Admit(P) ==
    IF P.backlog # << >> /\ Cardinality(P.busy) < PoolSize
    THEN [busy |-> P.busy \cup {Head(P.backlog)}, backlog |-> Tail(P.backlog)]
    ELSE P

Submit(P, j) == Admit([P EXCEPT !.backlog = Append(@, j)])
Done(P, j) == Admit([P EXCEPT !.busy = @ \ {j}])


\* The event stream is back as soon as its job has a thread.
SetPool(P) ==
    /\ pool' = P
    /\ listening' = IF Listen \in P.busy THEN "on" ELSE listening

-----------------------------------------------------------------------------
(* Docker and its users.                                                   *)

Event(kind, c) == [kind |-> kind, of |-> c, run |-> run'[c]]
Emit(s) == events' = IF listening = "on" THEN events \o s ELSE events

\* docker run, docker start
UserStarts(c) ==
    /\ c <= Originals /\ docker[c] \in {"none", "exited"} /\ run[c] < MaxRuns
    /\ docker' = [docker EXCEPT ![c] = "running"]
    /\ run' = [run EXCEPT ![c] = @ + 1]
    /\ Emit(<<Event("start", c)>>)
    /\ UNCHANGED <<parent, pool, listening, storeVars, monitorVars, failovers, counters>>

ContainerDies(c) ==
    /\ docker[c] = "running" /\ crashes < MaxCrashes
    /\ crashes' = crashes + 1
    /\ docker' = [docker EXCEPT ![c] = "exited"] /\ UNCHANGED <<run, parent>>
    /\ Emit(<<Event("die", c)>>)
    /\ UNCHANGED <<pool, listening, storeVars, monitorVars, failovers, stops, signals,
                   disconnects, faults>>

\* docker stop
UserStops(c) ==
    /\ docker[c] = "running" /\ stops < MaxStops
    /\ stops' = stops + 1
    /\ docker' = [docker EXCEPT ![c] = "exited"] /\ UNCHANGED <<run, parent>>
    /\ Emit(<<Event("kill", c), Event("die", c), Event("stop", c)>>)
    /\ UNCHANGED <<pool, listening, storeVars, monitorVars, failovers, crashes, signals,
                   disconnects, faults>>

\* docker kill --signal=HUP
UserSignals(c) ==
    /\ docker[c] = "running" /\ signals < MaxSignals
    /\ signals' = signals + 1
    /\ UNCHANGED dockerVars
    /\ Emit(<<Event("kill", c)>>)
    /\ UNCHANGED <<pool, listening, storeVars, monitorVars, failovers, crashes, stops,
                   disconnects, faults>>

\* Mutant of Disconnect: the exception is not caught, and ends the listener.
DisconnectUncaught ==
    /\ listening = "on" /\ disconnects < MaxDisconnects
    /\ disconnects' = disconnects + 1
    /\ pool' = Done(pool, Listen) /\ listening' = "over"
    /\ UNCHANGED <<dockerVars, events, storeVars, monitorVars, failovers, crashes, stops,
                   signals, faults>>

\* The stream breaks: the thread is free, and what happens now is not seen.
Disconnect ==
    /\ listening = "on" /\ disconnects < MaxDisconnects
    /\ disconnects' = disconnects + 1
    /\ pool' = Done(pool, Listen) /\ listening' = "retry"
    /\ UNCHANGED <<dockerVars, events, storeVars, monitorVars, failovers, crashes, stops,
                   signals, faults>>

\* After five seconds the listener asks for a thread again.
Relisten ==
    /\ listening = "retry"
    /\ pool' = Submit(pool, Listen)
    /\ listening' = IF Listen \in pool'.busy THEN "on" ELSE "queued"
    /\ UNCHANGED <<dockerVars, events, storeVars, monitorVars, failovers, counters>>

-----------------------------------------------------------------------------
(* _handle_event: its first segment, which runs in the order of the events.*)

\* POST /containers/{c}/critical
MarkCritical(c) ==
    /\ docker[c] # "none" /\ c \notin critical
    /\ critical' = critical \cup {c}
    /\ UNCHANGED <<dockerVars, events, pool, listening, status, abandoned, monitorVars, failovers,
                   counters>>

Take(kind) == events # << >> /\ Head(events).kind = kind /\ events' = Tail(events)

\* upsert, start_monitoring; the scan request that follows is not modelled here
HandleStart ==
    LET c == Head(events).of
    IN  /\ Take("start")
        /\ status' = [status EXCEPT ![c] = "running"]
        /\ IF streams[c] # None THEN UNCHANGED monitorVars
           ELSE /\ attached' = [attached EXCEPT ![c] = @ + 1]
                /\ streams' = [streams EXCEPT ![c] = attached[c] + 1]
                /\ monitors' = monitors \cup {[of |-> c, no |-> attached[c] + 1, run |-> 0,
                                               pc |-> "new", cancelled |-> FALSE]}
                /\ UNCHANGED dropped
        /\ UNCHANGED <<dockerVars, pool, listening, critical, abandoned, failovers, counters>>

\* Mutant of StopMonitoring: the entry is left for the task's finally block.
StopKeepsEntry(c) ==
    /\ monitors' = {IF m.of = c /\ m.no = streams[c] THEN [m EXCEPT !.cancelled = TRUE] ELSE m :
                       m \in monitors}
    /\ UNCHANGED <<streams, attached, dropped>>

\* stop_monitoring: task.cancel() of the task registered for c
StopMonitoring(c) ==
    /\ streams' = [streams EXCEPT ![c] = None]
    /\ monitors' = {IF m.of = c /\ m.no = streams[c] THEN [m EXCEPT !.cancelled = TRUE] ELSE m :
                       m \in monitors}
    /\ UNCHANGED <<attached, dropped>>

\* Its next(), if it still waits for a thread, is cancelled with it; one that has
\* a thread keeps it.
Waiting(c) ==
    {i \in DOMAIN pool.backlog : /\ pool.backlog[i].kind = "next" /\ pool.backlog[i].of = c
                                 /\ pool.backlog[i].no = streams[c]}
Unqueued(c) ==
    IF Waiting(c) = {} THEN pool
    ELSE [pool EXCEPT !.backlog = RemoveAt(@, CHOOSE i \in Waiting(c) : TRUE)]

HandleStop ==
    LET c == Head(events).of
    IN  /\ \/ Take("stop")
           \/ Take("kill")
        /\ status' = [status EXCEPT ![c] = "stopped"]
        /\ StopMonitoring(c) /\ SetPool(Unqueued(c))
        /\ UNCHANGED <<dockerVars, critical, abandoned, failovers, counters>>

\* A critical container: _failover runs up to its first Docker call.
HandleDie ==
    LET c == Head(events).of  n == Head(events).run
    IN  /\ Take("die")
        /\ status' = [status EXCEPT ![c] = "dead"]
        /\ StopMonitoring(c)
        /\ IF c \in critical
           THEN /\ failovers' = failovers \cup {[of |-> c, run |-> n, replica |-> None,
                                                 pc |-> "create", polls |-> 0]}
                /\ SetPool(Submit(Unqueued(c), Job("create", c, 0, n)))
           ELSE UNCHANGED failovers /\ SetPool(Unqueued(c))
        /\ UNCHANGED <<dockerVars, critical, abandoned, counters>>

-----------------------------------------------------------------------------
(* _stream_logs.  An exception ends a task as the end of the log does: that  *)
(* of get(), logs(), next() or of a broadcast, whatever becomes of the      *)
(* container, and nothing starts another task before its next start.       *)

Replaced(S, old, new) == (S \ {old}) \cup {new}
NextJob(m) == Job("next", m.of, m.no, m.run)

\* The stream is opened, and the first next() submitted.
Attach(m) ==
    LET reading == [m EXCEPT !.pc = "reading", !.run = run[m.of]]
    IN  /\ m.pc = "new" /\ ~m.cancelled
        /\ monitors' = Replaced(monitors, m, reading)
        /\ SetPool(Submit(pool, NextJob(reading)))
        /\ UNCHANGED <<dockerVars, events, storeVars, streams, attached, dropped, failovers,
                       counters>>

\* get() or logs() raises: the task goes straight to its finally block.
AttachFails(m) ==
    /\ m.pc = "new" /\ ~m.cancelled
    /\ dropped' = dropped \cup {<<m.of, run[m.of]>>}
    /\ monitors' = monitors \ {m}
    /\ streams' = [streams EXCEPT ![m.of] = None]
    /\ UNCHANGED <<dockerVars, events, pool, listening, storeVars, attached, failovers, counters>>

\* Cancelled before its first step: neither the body nor its finally runs.
NeverAttached(m) ==
    /\ m.pc = "new" /\ m.cancelled
    /\ monitors' = monitors \ {m}
    /\ UNCHANGED <<dockerVars, events, pool, listening, storeVars, streams, attached, dropped,
                   failovers, counters>>

\* A line of a container that runs: a live task looks at it and waits for the
\* next; if the task is gone, the thread is free again.
LogLine(j) ==
    /\ j \in pool.busy /\ j.kind = "next"
    /\ docker[j.of] = "running" /\ run[j.of] = j.run
    /\ SetPool(IF \E m \in monitors : NextJob(m) = j /\ ~m.cancelled
               THEN Submit(Done(pool, j), j) ELSE Done(pool, j))
    /\ UNCHANGED <<dockerVars, events, storeVars, monitorVars, failovers, counters>>

\* next() raises, or the broadcast of the anomaly that the line is.
StreamDrops(j) ==
    /\ j \in pool.busy /\ j.kind = "next"
    /\ \E m \in monitors :
          /\ m.pc = "reading" /\ ~m.cancelled /\ NextJob(m) = j
          /\ monitors' = Replaced(monitors, m, [m EXCEPT !.pc = "ended"])
    /\ dropped' = dropped \cup {<<j.of, j.run>>}
    /\ SetPool(Done(pool, j))
    /\ UNCHANGED <<dockerVars, events, storeVars, streams, attached, failovers, counters>>

\* The container ended: next() returns None, to a task that may be gone by now.
StreamEnds(j) ==
    LET mine == {m \in monitors : m.pc = "reading" /\ NextJob(m) = j}
    IN  /\ j \in pool.busy /\ j.kind = "next"
        /\ \/ docker[j.of] # "running"
           \/ run[j.of] > j.run
        /\ SetPool(Done(pool, j))
        /\ monitors' = (monitors \ mine) \cup {[m EXCEPT !.pc = "ended"] : m \in mine}
        /\ UNCHANGED <<dockerVars, events, storeVars, streams, attached, dropped, failovers,
                       counters>>

\* The finally block: it drops whatever is registered for the container.
MonitorEnds(m) ==
    /\ m.pc # "new"
    /\ m.pc = "ended" \/ m.cancelled
    /\ monitors' = monitors \ {m}
    /\ streams' = [streams EXCEPT ![m.of] = None]
    /\ UNCHANGED <<dockerVars, events, pool, listening, storeVars, attached, dropped, failovers,
                   counters>>

-----------------------------------------------------------------------------
(* _failover and _confirm_healthy.                                         *)

FailoverJob(f) == Job(f.pc, f.of, 0, f.run)
Replicas(c) == {r \in Containers : parent[r] = c}
Fresh == {r \in Containers : r > Originals /\ docker[r] = "none"}

\* create() is refused: the name is taken, or Docker says so.
CreateFails(f) ==
    /\ f.pc = "create" /\ FailoverJob(f) \in pool.busy
    /\ \/ Replicas(f.of) # {} /\ UNCHANGED faults
       \/ Replicas(f.of) = {} /\ faults < MaxFaults /\ faults' = faults + 1
    /\ failovers' = failovers \ {f}
    /\ SetPool(Done(pool, FailoverJob(f)))
    /\ UNCHANGED <<dockerVars, events, storeVars, monitorVars, crashes, stops, signals, disconnects>>

Create(f) ==
    /\ f.pc = "create" /\ FailoverJob(f) \in pool.busy
    /\ Replicas(f.of) = {}
    /\ \E r \in Fresh :
          /\ \A q \in Fresh : r <= q
          /\ docker' = [docker EXCEPT ![r] = "created"]
          /\ parent' = [parent EXCEPT ![r] = f.of]
          /\ failovers' = Replaced(failovers, f, [f EXCEPT !.pc = "start", !.replica = r])
    /\ SetPool(Submit(Done(pool, FailoverJob(f)), Job("start", f.of, 0, f.run)))
    /\ UNCHANGED <<run, events, storeVars, monitorVars, counters>>

StartFails(f) ==
    /\ f.pc = "start" /\ FailoverJob(f) \in pool.busy
    /\ faults < MaxFaults /\ faults' = faults + 1
    /\ failovers' = failovers \ {f}
    /\ SetPool(Done(pool, FailoverJob(f)))
    /\ UNCHANGED <<dockerVars, events, storeVars, monitorVars, crashes, stops, signals, disconnects>>

StartReplica(f) ==
    /\ f.pc = "start" /\ FailoverJob(f) \in pool.busy
    /\ docker' = [docker EXCEPT ![f.replica] = "running"]
    /\ run' = [run EXCEPT ![f.replica] = @ + 1]
    /\ UNCHANGED parent
    /\ Emit(<<Event("start", f.replica)>>)
    /\ failovers' = Replaced(failovers, f, [f EXCEPT !.pc = "sleep"])
    /\ SetPool(Done(pool, FailoverJob(f)))
    /\ UNCHANGED <<storeVars, monitorVars, counters>>

\* Mutant of Poll: the time that has passed is not added up.
PollUncounted(f) ==
    /\ f.pc = "sleep"
    /\ failovers' = Replaced(failovers, f, [f EXCEPT !.pc = "reload"])
    /\ SetPool(Submit(pool, Job("reload", f.of, 0, f.run)))
    /\ UNCHANGED <<dockerVars, events, storeVars, monitorVars, counters>>

\* The 0.2 s are over: reload() is submitted.
Poll(f) ==
    /\ f.pc = "sleep"
    /\ failovers' = Replaced(failovers, f, [f EXCEPT !.pc = "reload", !.polls = @ + 1])
    /\ SetPool(Submit(pool, Job("reload", f.of, 0, f.run)))
    /\ UNCHANGED <<dockerVars, events, storeVars, monitorVars, counters>>

\* The replica does not run, as far as is known: until the time is up, it is asked again.
Unconfirmed(f) == IF f.polls < MaxPolls THEN "sleep" ELSE "timeout"

\* reload() reads the state of the replica; the coroutine sees it later.
Reloaded(f) ==
    /\ f.pc = "reload" /\ FailoverJob(f) \in pool.busy
    /\ failovers' = Replaced(failovers, f,
          [f EXCEPT !.pc = IF docker[f.replica] = "running" THEN "healthy" ELSE Unconfirmed(f)])
    /\ SetPool(Done(pool, FailoverJob(f)))
    /\ UNCHANGED <<dockerVars, events, storeVars, monitorVars, counters>>

\* reload() raises a DockerException, which _confirm_healthy passes over.
ReloadFails(f) ==
    /\ f.pc = "reload" /\ FailoverJob(f) \in pool.busy
    /\ faults < MaxFaults /\ faults' = faults + 1
    /\ failovers' = Replaced(failovers, f, [f EXCEPT !.pc = Unconfirmed(f)])
    /\ SetPool(Done(pool, FailoverJob(f)))
    /\ UNCHANGED <<dockerVars, events, storeVars, monitorVars, crashes, stops, signals, disconnects>>

\* It raises another exception, say that the connection is lost: nobody catches it, and
\* the failover ends where it is.  The replica of a start() that fails after it took
\* effect ends up the same.
ReloadBreaks(f) ==
    /\ f.pc = "reload" /\ FailoverJob(f) \in pool.busy
    /\ faults < MaxFaults /\ faults' = faults + 1
    /\ failovers' = failovers \ {f}
    /\ abandoned' = abandoned \cup {f.replica}
    /\ SetPool(Done(pool, FailoverJob(f)))
    /\ UNCHANGED <<dockerVars, events, status, critical, monitorVars, crashes, stops, signals,
                   disconnects>>

\* Mutant of Recovered: a replica whose health check timed out is not marked.
RecoveredIfHealthy(f) ==
    /\ f.pc \in {"healthy", "timeout"}
    /\ failovers' = failovers \ {f}
    /\ status' = [status EXCEPT ![f.replica] = IF f.pc = "healthy" THEN "running" ELSE "unknown"]
    /\ critical' = IF f.pc = "healthy" THEN critical \cup {f.replica} ELSE critical
    /\ UNCHANGED <<dockerVars, events, pool, listening, abandoned, monitorVars, counters>>

Recovered(f) ==
    /\ f.pc \in {"healthy", "timeout"}
    /\ failovers' = failovers \ {f}
    /\ status' = [status EXCEPT ![f.replica] = IF f.pc = "healthy" THEN "running" ELSE "unknown"]
    /\ critical' = critical \cup {f.replica}
    /\ UNCHANGED <<dockerVars, events, pool, listening, abandoned, monitorVars, counters>>

-----------------------------------------------------------------------------
Init ==
    /\ docker = [c \in Containers |-> "none"] /\ run = [c \in Containers |-> 0]
    /\ parent = [c \in Containers |-> None] /\ events = << >>
    /\ pool = [busy |-> {Listen}, backlog |-> << >>] /\ listening = "on"
    /\ status = [c \in Containers |-> "none"] /\ critical = {}
    /\ streams = [c \in Containers |-> None] /\ monitors = {}
    /\ attached = [c \in Containers |-> 0] /\ dropped = {}
    /\ failovers = {} /\ abandoned = {}
    /\ crashes = 0 /\ stops = 0 /\ signals = 0 /\ disconnects = 0 /\ faults = 0

HandleEvent == HandleStart \/ HandleStop \/ HandleDie
MonitorStep(m) == Attach(m) \/ AttachFails(m) \/ NeverAttached(m) \/ MonitorEnds(m)
FailoverStep(f) ==
    \/ CreateFails(f) \/ Create(f) \/ StartFails(f) \/ StartReplica(f)
    \/ Poll(f) \/ Reloaded(f) \/ ReloadFails(f) \/ ReloadBreaks(f) \/ Recovered(f)

Next ==
    \/ \E c \in Containers : \/ UserStarts(c) \/ ContainerDies(c) \/ UserStops(c)
                              \/ UserSignals(c) \/ MarkCritical(c)
    \/ Disconnect \/ Relisten \/ HandleEvent
    \/ \E m \in monitors : MonitorStep(m)
    \/ \E j \in pool.busy : LogLine(j) \/ StreamDrops(j) \/ StreamEnds(j)
    \/ \E f \in failovers : FailoverStep(f)

Spec == Init /\ [][Next]_vars

\* The loop runs what is ready, sleeps end, Docker answers the calls that have a
\* thread, and ends the log stream of a container that has ended.  Nothing else
\* is fair: no line has to be printed, nothing has to be started or to die.
FairSpec ==
    /\ Spec
    /\ WF_vars(Relisten) /\ WF_vars(HandleEvent)
    /\ WF_vars(\E m \in monitors : MonitorStep(m))
    /\ WF_vars(\E j \in pool.busy : StreamEnds(j))
    /\ \A c \in Containers : WF_vars(\E f \in failovers : f.of = c /\ FailoverStep(f))

-----------------------------------------------------------------------------
Monitored(c) == \E m \in monitors : m.of = c /\ m.pc # "ended" /\ ~m.cancelled
Settled == events = << >> /\ failovers = {}

\* The stores have their shapes, no more threads are busy than there are, and
\* none is idle while jobs wait.
TypeOK ==
    /\ docker \in [Containers -> {"none", "created", "running", "exited"}]
    /\ run \in [Containers -> 0..MaxRuns] /\ parent \in [Containers -> 0..MaxContainers]
    /\ listening \in {"on", "retry", "queued"}
    /\ status \in [Containers -> {"none", "running", "stopped", "dead", "unknown"}]
    /\ critical \subseteq Containers /\ abandoned \subseteq Containers
    /\ dropped \subseteq Containers \X Nat
    /\ \A c \in Containers : streams[c] \in 0..attached[c]
    /\ Cardinality(pool.busy) <= PoolSize
    /\ pool.backlog # << >> => Cardinality(pool.busy) = PoolSize
    /\ listening = "on" <=> Listen \in pool.busy

\* README.md:527: the log of a running container is watched, in whatever order
\* the cancelled task of its last run and the handlers of its events take their
\* turns (docker_listener.py:101, 212; log_monitor.py:82) -- unless the task of this
\* very run ended by an exception, as long as the events arrive and nobody sends a
\* signal to a container.
RunningIsMonitored ==
    events = << >> /\ disconnects = 0 /\ signals = 0
        => \A c \in Containers :
              docker[c] = "running" => Monitored(c) \/ <<c, run[c]>> \in dropped

\* resilience.py:91: a replica that was started has a failover that still has to
\* mark it, or is critical -- also if its health check timed out, could not be made or
\* it died.  Only an exception that is not Docker's ends the failover before.
ReplicaProtected ==
    \A r \in Containers : r > Originals /\ run[r] > 0
        => \/ r \in critical \cup abandoned
           \/ \E f \in failovers : f.replica = r

\* With a thread for everything that may block, a failover comes to its end,
\* whatever becomes of the replica meanwhile (resilience.py:46-117).
FailoverCompletes ==
    \A c \in Containers : (\E f \in failovers : f.of = c) ~> (\A f \in failovers : f.of # c)

\* README.md:524, "also marked critical for cascading protection": once all is
\* settled, a replica that has ended has a replica itself.
CascadingProtection ==
    Settled /\ disconnects = 0 /\ faults = 0
        => \A r \in Containers : r > Originals /\ docker[r] = "exited" => Replicas(r) # {}
=============================================================================
