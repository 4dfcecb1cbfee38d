----------------------------- MODULE Dashboard -----------------------------
(***************************************************************************)
(* What a user sees: the page of control_plane/dashboard/ui.py, fed by the *)
(* broadcasts of the control plane (control_plane/api/main.py) over its    *)
(* WebSocket and by its own polls of /status, while the state store it     *)
(* shows is itself fed by the heartbeats and death notices of one worker   *)
(* and by the Docker events of one container.  A second dashboard, which   *)
(* may be closed, shares the list of connections.  Of a record only the    *)
(* status is kept.                                                         *)
(***************************************************************************)
EXTENDS WebSockets

CONSTANTS
    Settings,   \* what there is, and bounds on what happens: one of them holds throughout
    MaxPages,   \* bound: times the page opens its socket
    MaxBuffer,  \* bound: messages on their way to the page
    MaxSending  \* bound: broadcasts under way at a time

\* Whether there are the worker, the container and the second dashboard; how often the
\* control plane crashes or the page's socket closes; how many requests get lost while
\* the control plane runs.
ASSUME DashboardAssumption ==
    /\ {MaxPages, MaxBuffer, MaxSending} \subseteq Nat \ {0}
    /\ \A s \in Settings : /\ {s.worker, s.container, s.peer} \subseteq BOOLEAN
                           /\ s.disruptions \in 0..(MaxPages - 1) /\ s.faults \in Nat

VARIABLES
    setting,     \* the member of Settings
    registry,    \* status of the worker in the scheduler's registry
    docker,      \* status of the container
    beat,        \* the status in the heartbeat request on its way
    notice,      \* the DELETE of the dead worker is on its way
    up,          \* the control plane runs
    store,       \* the records of the state store
    due,         \* events of the container that are handled but not broadcast yet
    sending,     \* the broadcasts under way, by message
    connections, \* active_connections
    handler,     \* the dashboard_ws task of each connection
    open,        \* the connections that both sides hold
    socket,      \* the page's connection
    channel,     \* messages on their way to the page
    shown,       \* the rows of the page
    poll,        \* the pollStatus chains, one for each time the socket opened
    disruptions, faults

truth == <<setting, registry, docker>>
requests == <<beat, notice>>
server == <<up, store, due>>
sockets == <<connections, handler, open>>
page == <<socket, channel, shown, poll>>
counters == <<disruptions, faults>>
vars == <<truth, requests, server, sending, sockets, page, counters>>

Peer == 0
Pages == 1..MaxPages
Sockets == {Peer} \cup Pages
NoSocket == MaxPages + 1
Rows == [worker: {"none", "alive", "dead"}, container: {"none", "running", "dead"}]
NoRows == [worker |-> "none", container |-> "none"]
Messages == {"update_alive", "update_dead", "worker_dead", "container_start", "container_die"}

\* The sockets that the page has opened so far.
Opened == {s \in Pages : poll[s].pc # "none"}

-----------------------------------------------------------------------------
(* Broadcasts.                                                             *)

CanBegin(message) ==
    /\ message \notin DOMAIN sending
    /\ Cardinality(DOMAIN sending) < MaxSending

\* Broadcast(message) is called; nothing suspends before its first send.
Begin(message) ==
    /\ CanBegin(message)
    /\ sending' = [m \in DOMAIN sending \cup {message} |->
                      IF m = message THEN Started ELSE sending[m]]

Advance(m, b) == sending' = [sending EXCEPT ![m] = b]

\* A send is suspended while the buffer of the client is full.
SendNext(m) ==
    /\ ~AtEnd(sending[m], connections)
    /\ LET s == connections[sending[m].at]
       IN /\ s \in open
          /\ s = socket => Len(channel) < MaxBuffer
          /\ channel' = IF s = socket THEN Append(channel, m) ELSE channel
    /\ Advance(m, Sent(sending[m], connections))
    /\ UNCHANGED <<truth, requests, server, sockets, socket, shown, poll, counters>>

\* Mutant of SendFails: a dead client is removed inside the loop.
SendFailsAndRemoves(m) ==
    /\ ~AtEnd(sending[m], connections)
    /\ connections[sending[m].at] \notin open
    /\ connections' = Without(connections, {connections[sending[m].at]})
    /\ Advance(m, Failed(sending[m], connections))
    /\ UNCHANGED <<truth, requests, server, handler, open, page, counters>>

SendFails(m) ==
    /\ ~AtEnd(sending[m], connections)
    /\ connections[sending[m].at] \notin open
    /\ Advance(m, Failed(sending[m], connections))
    /\ UNCHANGED <<truth, requests, server, sockets, page, counters>>

\* The removals of connections' shift the loops of the broadcasts bs.
Shifted(bs) ==
    [m \in DOMAIN bs |-> [bs[m] EXCEPT !.shifts = @ + Len(connections) - Len(connections')]]

\* The dead are removed; the caller goes on, or gets the ValueError.
BroadcastEnds(m) ==
    /\ AtEnd(sending[m], connections)
    /\ connections' = Swept(connections, sending[m].dead)
    /\ sending' = Shifted([k \in DOMAIN sending \ {m} |-> sending[k]])
    /\ UNCHANGED <<truth, requests, server, handler, open, page, counters>>

-----------------------------------------------------------------------------
(* What the state store is told.                                           *)

\* The scheduler marks the worker dead and sends a notice, once.
WorkerDies ==
    /\ registry = "alive"
    /\ registry' = "dead" /\ notice' = TRUE
    /\ UNCHANGED <<setting, docker, beat, server, sending, sockets, page, counters>>

\* The loop of a worker never ends, not even when it is dead.  A heartbeat that says
\* what the store says already is left out.
Heartbeat ==
    /\ beat = "none" /\ registry # store.worker
    /\ beat' = registry
    /\ UNCHANGED <<truth, notice, server, sending, sockets, page, counters>>

\* Mutant of HeartbeatArrives: the status is not looked at.
HeartbeatMeansAlive ==
    /\ up /\ beat # "none"
    /\ store' = [store EXCEPT !.worker = "alive"]
    /\ Begin("update_alive")
    /\ beat' = "none"
    /\ UNCHANGED <<truth, notice, up, due, sockets, page, counters>>

HeartbeatArrives ==
    /\ up /\ beat # "none"
    /\ store' = [store EXCEPT !.worker = beat]
    /\ Begin(IF beat = "alive" THEN "update_alive" ELSE "update_dead")
    /\ beat' = "none"
    /\ UNCHANGED <<truth, notice, up, due, sockets, page, counters>>

NoticeArrives ==
    /\ up /\ notice
    /\ store' = [store EXCEPT !.worker = "dead"]
    /\ Begin("worker_dead")
    /\ notice' = FALSE
    /\ UNCHANGED <<truth, beat, up, due, sockets, page, counters>>

\* A request fails, whatever the reason is.
Fails == \/ ~up /\ UNCHANGED faults
         \/ up /\ faults < setting.faults /\ faults' = faults + 1

\* Nobody sends either of them again.
RequestLost ==
    /\ \/ beat # "none" /\ beat' = "none" /\ UNCHANGED notice
       \/ notice /\ notice' = FALSE /\ UNCHANGED beat
    /\ Fails
    /\ UNCHANGED <<truth, server, sending, sockets, page, disruptions>>

\* _handle_event, up to its first await: the event is broadcast at its very end.
ContainerEvent(from, to, event) ==
    /\ docker = from
    /\ docker' = to
    /\ IF up THEN store' = [store EXCEPT !.container = to] /\ due' = due \cup {event}
             ELSE UNCHANGED <<store, due>>
    /\ UNCHANGED <<setting, registry, requests, up, sending, sockets, page, counters>>

ContainerStarts == ContainerEvent("created", "running", "container_start")
ContainerDies == ContainerEvent("running", "dead", "container_die")

\* The handlers await different things in between, and end in any order.
HandlerEnds(event) ==
    /\ event \in due
    /\ Begin(event)
    /\ due' = due \ {event}
    /\ UNCHANGED <<truth, requests, up, store, sockets, page, counters>>

-----------------------------------------------------------------------------
(* Connections.                                                            *)

\* The page is loaded, or reconnects; onopen starts one more chain of polls.
Connect ==
    /\ up /\ socket = NoSocket
    /\ \E s \in Pages \ Opened :
         /\ \A t \in Pages \ Opened : s <= t
         /\ socket' = s /\ open' = open \cup {s}
         /\ handler' = [handler EXCEPT ![s] = "accepting"]
         /\ poll' = [poll EXCEPT ![s].pc = "waiting"]
    /\ UNCHANGED <<truth, requests, server, sending, connections, channel, shown, counters>>

\* accept() returns: the connection is listed.
Accepted(s) ==
    /\ handler[s] = "accepting"
    /\ handler' = [handler EXCEPT ![s] = "listening"]
    /\ connections' = Append(connections, s)
    /\ UNCHANGED <<truth, requests, server, sending, open, page, counters>>

\* receive_text raises: disconnect() takes the connection off the list, if it is there.
Disconnect(s) ==
    /\ handler[s] = "listening" /\ s \notin open
    /\ handler' = [handler EXCEPT ![s] = "ended"]
    /\ connections' = Without(connections, {s})
    /\ sending' = Shifted(sending)
    /\ UNCHANGED <<truth, requests, server, open, page, counters>>

PeerCloses ==
    /\ Peer \in open
    /\ open' = open \ {Peer}
    /\ UNCHANGED <<truth, requests, server, sending, connections, handler, page, counters>>

\* The page's socket is closed; what is on its way is lost.
SocketCloses ==
    /\ socket # NoSocket /\ disruptions < setting.disruptions
    /\ disruptions' = disruptions + 1
    /\ open' = open \ {socket}
    /\ socket' = NoSocket /\ channel' = << >>
    /\ UNCHANGED <<truth, requests, server, sending, connections, handler, shown, poll, faults>>

\* Only the snapshot file is left of the control plane.
Crash ==
    /\ up /\ disruptions < setting.disruptions
    /\ disruptions' = disruptions + 1
    /\ up' = FALSE /\ due' = {} /\ sending' = << >>
    /\ connections' = << >> /\ open' = {} /\ handler' = [s \in Sockets |-> "ended"]
    /\ socket' = NoSocket /\ channel' = << >>
    /\ UNCHANGED <<truth, requests, store, shown, poll, faults>>

\* It forgets the workers, and learns of them again from their heartbeats.
Restart ==
    /\ ~up
    /\ up' = TRUE
    /\ store' = [store EXCEPT !.worker = "none"]
    /\ UNCHANGED <<truth, requests, due, sending, sockets, page, counters>>

-----------------------------------------------------------------------------
(* The page.                                                               *)

\* handleEvent: a death is shown only of what is shown already.
Handled(rows, m) ==
    CASE m = "update_alive" -> [rows EXCEPT !.worker = "alive"]
      [] m = "update_dead" -> [rows EXCEPT !.worker = "dead"]
      [] m = "worker_dead" -> [rows EXCEPT !.worker = IF @ = "none" THEN @ ELSE "dead"]
      [] m = "container_start" -> [rows EXCEPT !.container = "running"]
      [] m = "container_die" -> [rows EXCEPT !.container = IF @ = "none" THEN @ ELSE "dead"]

Receive ==
    /\ channel # << >>
    /\ shown' = Handled(shown, Head(channel))
    /\ channel' = Tail(channel)
    /\ UNCHANGED <<truth, requests, server, sending, sockets, socket, poll, counters>>

\* A chain moves on, with the answer it has in hand.
SetPoll(i, pc, rows) == poll' = [poll EXCEPT ![i] = [pc |-> pc, rows |-> rows]]

\* status() reads the store in one go when it answers.
PollAnswered(i) ==
    /\ poll[i].pc = "waiting" /\ up
    /\ SetPoll(i, "answered", store)
    /\ UNCHANGED <<truth, requests, server, sending, sockets, socket, channel, shown, counters>>

\* The error is swallowed, and the timer set.
PollFails(i) ==
    /\ poll[i].pc = "waiting" /\ Fails
    /\ SetPoll(i, "waiting", NoRows)
    /\ UNCHANGED <<truth, requests, server, sending, sockets, socket, channel, shown, disruptions>>

\* All rows are replaced by those of the answer.
PollShown(i) ==
    /\ poll[i].pc = "answered"
    /\ shown' = poll[i].rows
    /\ SetPoll(i, "waiting", NoRows)
    /\ UNCHANGED <<truth, requests, server, sending, sockets, socket, channel, counters>>

-----------------------------------------------------------------------------
Init ==
    /\ setting \in Settings
    /\ registry = IF setting.worker THEN "alive" ELSE "none"
    /\ docker = IF setting.container THEN "created" ELSE "none"
    /\ beat = "none" /\ notice = FALSE
    /\ up = TRUE /\ store = NoRows /\ due = {} /\ sending = << >>
    /\ connections = IF setting.peer THEN <<Peer>> ELSE << >>
    /\ open = ToSet(connections)
    /\ handler = [s \in Sockets |-> IF s \in open THEN "listening" ELSE "ended"]
    /\ socket = NoSocket /\ channel = << >> /\ shown = NoRows
    /\ poll = [s \in Pages |-> [pc |-> "none", rows |-> NoRows]]
    /\ disruptions = 0 /\ faults = 0

Next ==
    \/ \E m \in DOMAIN sending : SendNext(m) \/ SendFails(m) \/ BroadcastEnds(m)
    \/ WorkerDies \/ ContainerStarts \/ ContainerDies
    \/ Heartbeat \/ HeartbeatArrives \/ NoticeArrives \/ RequestLost
    \/ \E e \in due : HandlerEnds(e)
    \/ Connect \/ PeerCloses \/ SocketCloses \/ Crash \/ Restart
    \/ \E s \in Sockets : Accepted(s) \/ Disconnect(s)
    \/ Receive
    \/ \E i \in Pages : PollAnswered(i) \/ PollFails(i) \/ PollShown(i)

Spec == Init /\ [][Next]_vars

(***************************************************************************)
(* The event loops of the server and of the page run what is ready, the    *)
(* timers of the page and of the worker fire, requests that are not lost   *)
(* arrive, and the control plane is started again.                         *)
(***************************************************************************)
Fairness ==
    /\ \A m \in Messages :
         WF_vars(m \in DOMAIN sending /\ (SendNext(m) \/ SendFails(m) \/ BroadcastEnds(m)))
    /\ WF_vars(Heartbeat) /\ WF_vars(HeartbeatArrives) /\ WF_vars(NoticeArrives)
    /\ WF_vars(\E e \in due : HandlerEnds(e))
    /\ WF_vars(Connect) /\ WF_vars(Restart) /\ WF_vars(Receive)
    /\ \A s \in Sockets : WF_vars(Accepted(s) \/ Disconnect(s))
    /\ \A i \in Pages : WF_vars(PollAnswered(i) \/ PollShown(i))

FairSpec == Spec /\ Fairness

-----------------------------------------------------------------------------
\* A broadcast passes a client over only if somebody else has shortened the list since
\* it began, one client for each removal (ws_manager.py:23-29).
MissedBounded ==
    \A m \in DOMAIN sending :
        AtEnd(sending[m], connections)
            => Cardinality(Missed(sending[m], connections)) <= sending[m].shifts

\* When nothing happens any more, the store has the worker's status right and the page
\* shows the store, whatever was lost, late or out of order; and closed connections are
\* forgotten (main.py:180-236, ui.py:682-712, ws_manager.py:15-17).
Converges ==
    <>[](/\ store.worker = registry /\ shown = store
         /\ ToSet(connections) = open)
=============================================================================
