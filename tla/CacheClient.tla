----------------------------- MODULE CacheClient -----------------------------
(***************************************************************************)
(* DistributedCacheClient of cache/worker_cache_client.py: one caller that *)
(* looks up and stores scan results on the cache nodes, and the background *)
(* threads that put removed nodes back on the ring.  The ring has no lock; *)
(* a thread can be switched between any two of its statements, and the     *)
(* steps here are the statements that read or write the shared ring.  A    *)
(* cache node is reachable or not, and holds layers; a request is a step.  *)
(***************************************************************************)
EXTENDS HashRing, SequencesExt, FiniteSets

CONSTANTS
    Checks,   \* bound: re-add threads alive at a time
    MaxCalls, \* bound: calls of get_layer_scan and put_layer_scan
    MaxDowns, \* bound: times a node becomes unreachable
    None      \* no layer, no node

ASSUME ClientAssumption ==
    {MaxCalls, MaxDowns} \subseteq Nat /\ None \notin Layers \cup CacheNodes

VARIABLES
    nodes,     \* ring.nodes
    ring,      \* the keys of ring.ring
    keys,      \* ring.sorted_keys
    caller,    \* the calling thread: its step and its local variables
    checks,    \* the re-add threads
    last,      \* how the last call ended, and for which layer
    reachable, \* the nodes that answer
    holds,     \* the layers in each node
    missed,    \* history: nodes whose check found them down
    disturbed, \* history: a node was being put back since the last lookup began
    overlapped,\* history: a node was removed while another was being put back
    promised,  \* history: layers of which no POST failed, and that no node has lost
    calls, downs

ringVars == <<nodes, ring, keys>>
world == <<reachable, holds, promised, downs>>
vars == <<ringVars, caller, checks, last, world, missed, disturbed, overlapped, calls>>

Removing == {"pop", "rebuild", "assign"}
Looking == {"asleep", "member", "enter"}
Adding == {"point", "append", "sort"}
CallerPc == {"idle", "route", "pick", "request", "schedule", "put"} \cup Removing
Thread == [pc: {"free"} \cup Looking \cup Adding, node: CacheNodes \cup {None}, at: Nat]
Free == [pc |-> "free", node |-> None, at |-> 0]

\* sorted(): what s lists, in ascending order and each as often as in s.
Sorted(s) == [k \in DOMAIN s |-> CHOOSE x \in Range(s) :
    /\ Cardinality({i \in DOMAIN s : s[i] < x}) < k
    /\ k <= Cardinality({i \in DOMAIN s : s[i] <= x})]

BeingAdded == \E t \in Checks : checks[t].pc \in Adding

Go(pc) == caller' = [caller EXCEPT !.pc = pc]
\* The call of the caller is over.
End(how) ==
    /\ Go("idle")
    /\ last' = [how |-> how, layer |-> caller.layer]
    /\ UNCHANGED <<ringVars, checks, missed, disturbed, overlapped, calls>>

Begin(l, pc) ==
    /\ caller.pc = "idle" /\ calls < MaxCalls
    /\ calls' = calls + 1
    /\ caller' = [pc |-> pc, layer |-> l, node |-> None, tried |-> {}, at |-> 0,
                  sorted |-> <<>>, left |-> CacheNodes, failed |-> {}]
    /\ last' = [how |-> "none", layer |-> l]
    /\ UNCHANGED <<ringVars, checks, world, missed, overlapped>>

-----------------------------------------------------------------------------
(* get_layer_scan                                                          *)

GetLayerScan(l) ==
    /\ Begin(l, "route")
    /\ disturbed' = BeingAdded

\* get_node, up to the bisection; with nothing on the ring there is no node.
Route ==
    /\ caller.pc = "route"
    /\ IF ring = {} THEN End("unreachable")
       ELSE /\ caller' = [caller EXCEPT !.pc = "pick",
                                        !.at = BisectRight(keys, HashOf[caller.layer])]
            /\ UNCHANGED <<ringVars, checks, last, missed, disturbed, overlapped, calls>>
    /\ UNCHANGED world

\* sorted_keys[idx] raises on an empty list, ring[...] if the point is not on the ring.
Raises(idx) == keys = <<>> \/ keys[Wrapped(keys, idx)] \notin ring

\* get_node, from the bisection on: a node that was tried before ends the lookup.
Pick ==
    /\ caller.pc = "pick"
    /\ IF Raises(caller.at) THEN End("raised")
       ELSE LET n == NodeAt(keys[Wrapped(keys, caller.at)])
            IN IF n \in caller.tried THEN End("unreachable")
               ELSE /\ caller' = [caller EXCEPT !.pc = "request", !.node = n,
                                                !.tried = @ \cup {n}]
                    /\ UNCHANGED <<ringVars, checks, last, missed, disturbed, overlapped, calls>>
    /\ UNCHANGED world

\* The node answers.  For a line of the log the owner is looked up once more.
Answered ==
    /\ caller.pc = "request" /\ caller.node \in reachable
    /\ End(IF ring # {} /\ Raises(BisectRight(keys, HashOf[caller.layer])) THEN "raised"
           ELSE IF caller.layer \in holds[caller.node] THEN "hit" ELSE "miss")
    /\ UNCHANGED world

\* It does not: remove_node begins, unless the node has been removed already.
RequestFails ==
    /\ caller.pc = "request" /\ caller.node \notin reachable
    /\ caller' = [caller EXCEPT !.pc = IF caller.node \in nodes THEN "pop" ELSE "schedule",
                                !.at = 0]
    /\ nodes' = nodes \ {caller.node}
    /\ overlapped' = (overlapped \/ (caller.node \in nodes /\ BeingAdded))
    /\ UNCHANGED <<ring, keys, checks, last, world, missed, disturbed, calls>>

PopPoint ==
    /\ caller.pc = "pop"
    /\ ring' = ring \ {PointOf[<<caller.node, caller.at>>]}
    /\ caller' = IF caller.at = Replicas - 1 THEN [caller EXCEPT !.pc = "rebuild"]
                                             ELSE [caller EXCEPT !.at = @ + 1]
    /\ UNCHANGED <<nodes, keys, checks, last, world, missed, disturbed, overlapped, calls>>

\* sorted(self.ring.keys()), and then its assignment
Rebuild ==
    /\ caller.pc = "rebuild"
    /\ caller' = [caller EXCEPT !.pc = "assign", !.sorted = Sorted(SetToSeq(ring))]
    /\ UNCHANGED <<ringVars, checks, last, world, missed, disturbed, overlapped, calls>>

\* Mutant of Assign: the list of points is not made again.
KeepKeys ==
    /\ caller.pc = "assign"
    /\ keys' = keys
    /\ Go("schedule")
    /\ UNCHANGED <<nodes, ring, checks, last, world, missed, disturbed, overlapped, calls>>

Assign ==
    /\ caller.pc = "assign"
    /\ keys' = caller.sorted
    /\ Go("schedule")
    /\ UNCHANGED <<nodes, ring, checks, last, world, missed, disturbed, overlapped, calls>>

\* Mutant of NextRound: one round too few.
OneRoundLess == IF Cardinality(caller.tried) >= Cardinality(CacheNodes) - 1 THEN "idle" ELSE "route"

\* The loop ends after as many rounds as there are nodes; each round tries another one.
NextRound == IF caller.tried = CacheNodes THEN "idle" ELSE "route"

\* Mutant of Schedule: one thread is thought to be enough.
ScheduleIfNone ==
    /\ caller.pc = "schedule"
    /\ \E t \in Checks :
         /\ checks[t].pc = "free"
         /\ checks' = IF \E u \in Checks : checks[u].pc # "free" THEN checks
                      ELSE [checks EXCEPT ![t] = [pc |-> "asleep", node |-> caller.node, at |-> 0]]
    /\ missed' = missed \ {caller.node}
    /\ Go(NextRound)
    /\ last' = IF NextRound = "idle" THEN [last EXCEPT !.how = "unreachable"] ELSE last
    /\ UNCHANGED <<ringVars, world, disturbed, overlapped, calls>>

\* _schedule_readd starts a thread, and the next round begins.
Schedule ==
    /\ caller.pc = "schedule"
    /\ \E t \in Checks :
         /\ checks[t].pc = "free"
         /\ checks' = [checks EXCEPT ![t] = [pc |-> "asleep", node |-> caller.node, at |-> 0]]
    /\ missed' = missed \ {caller.node}
    /\ Go(NextRound)
    /\ last' = IF NextRound = "idle" THEN [last EXCEPT !.how = "unreachable"] ELSE last
    /\ UNCHANGED <<ringVars, world, disturbed, overlapped, calls>>

-----------------------------------------------------------------------------
(* put_layer_scan                                                          *)

PutLayerScan(l) ==
    /\ Begin(l, "put")
    /\ UNCHANGED disturbed

\* Mutant of PutTargets: only the nodes that are on the ring are written to.
RingTargets == caller.left \cap nodes

\* Every known node is written to, on the ring or not.
PutTargets == caller.left

\* One POST; the order of the nodes makes no difference.
PutToNode(n) ==
    /\ caller.pc = "put" /\ n \in PutTargets
    /\ caller' = [caller EXCEPT !.left = @ \ {n},
                                !.failed = IF n \in reachable THEN @ ELSE @ \cup {n}]
    /\ holds' = IF n \in reachable THEN [holds EXCEPT ![n] = @ \cup {caller.layer}] ELSE holds
    /\ UNCHANGED <<ringVars, checks, last, reachable, promised, downs, missed, disturbed,
                   overlapped, calls>>

PutEnds ==
    /\ caller.pc = "put" /\ PutTargets = {}
    /\ promised' = IF caller.failed = {} THEN promised \cup {caller.layer} ELSE promised
    /\ End(IF caller.failed = CacheNodes THEN "error" ELSE "stored")
    /\ UNCHANGED <<reachable, holds, downs>>

-----------------------------------------------------------------------------
(* _check_and_readd, in a thread of its own                                *)

\* After 15 seconds the node is asked for its health, once.
Wake(t) ==
    LET n == checks[t].node
        healthy == n \in reachable
    IN /\ checks[t].pc = "asleep"
       /\ checks' = [checks EXCEPT ![t] = IF healthy THEN [@ EXCEPT !.pc = "member"] ELSE Free]
       /\ missed' = IF healthy THEN missed ELSE missed \cup {n}
       /\ UNCHANGED <<ringVars, caller, last, world, disturbed, overlapped, calls>>

\* add_node of a node that is in returns ...
IsMember(t) ==
    /\ checks[t].pc = "member"
    /\ checks' = [checks EXCEPT ![t] = IF @.node \in nodes THEN Free ELSE [@ EXCEPT !.pc = "enter"]]
    /\ UNCHANGED <<ringVars, caller, last, world, missed, disturbed, overlapped, calls>>

\* ... and of one that was not, adds it; another thread may have done so meanwhile.
Enter(t) ==
    /\ checks[t].pc = "enter"
    /\ checks' = [checks EXCEPT ![t].pc = "point"]
    /\ nodes' = nodes \cup {checks[t].node}
    /\ disturbed' = TRUE
    /\ overlapped' = (overlapped \/ caller.pc \in Removing)
    /\ UNCHANGED <<ring, keys, caller, last, world, missed, calls>>

AddPoint(t) ==
    /\ checks[t].pc = "point"
    /\ ring' = ring \cup {PointOf[<<checks[t].node, checks[t].at>>]}
    /\ checks' = [checks EXCEPT ![t].pc = "append"]
    /\ UNCHANGED <<nodes, keys, caller, last, world, missed, disturbed, overlapped, calls>>

AppendKey(t) ==
    /\ checks[t].pc = "append"
    /\ keys' = Append(keys, PointOf[<<checks[t].node, checks[t].at>>])
    /\ checks' = [checks EXCEPT ![t].pc = IF checks[t].at = Replicas - 1 THEN "sort" ELSE "point",
                                ![t].at = @ + 1]
    /\ UNCHANGED <<nodes, ring, caller, last, world, missed, disturbed, overlapped, calls>>

\* Mutant of SortKeys: the thread does not forget its node.
SortKeysOnly(t) ==
    /\ checks[t].pc = "sort"
    /\ keys' = Sorted(keys)
    /\ checks' = [checks EXCEPT ![t].pc = "free"]
    /\ UNCHANGED <<nodes, ring, caller, last, world, missed, disturbed, overlapped, calls>>

SortKeys(t) ==
    /\ checks[t].pc = "sort"
    /\ keys' = Sorted(keys)
    /\ checks' = [checks EXCEPT ![t] = Free]
    /\ UNCHANGED <<nodes, ring, caller, last, world, missed, disturbed, overlapped, calls>>

-----------------------------------------------------------------------------
(* The cache nodes                                                         *)

\* A node cannot be reached any more; its process may have ended, with what it held.
GoesDown(n) ==
    /\ n \in reachable /\ downs < MaxDowns
    /\ downs' = downs + 1
    /\ reachable' = reachable \ {n}
    /\ \/ UNCHANGED <<holds, promised, caller>>
       \/ /\ holds' = [holds EXCEPT ![n] = {}]
          /\ promised' = {}
          /\ caller' = [caller EXCEPT !.failed = @ \cup {n}]
    /\ UNCHANGED <<ringVars, checks, last, missed, disturbed, overlapped, calls>>

ComesBack(n) ==
    /\ n \notin reachable
    /\ reachable' = reachable \cup {n}
    /\ UNCHANGED <<ringVars, caller, checks, last, holds, promised, downs, missed, disturbed,
                   overlapped, calls>>

-----------------------------------------------------------------------------
Init ==
    /\ nodes = CacheNodes /\ ring = PointsOf(CacheNodes) /\ keys = Sorted(SetToSeq(ring))
    /\ caller = [pc |-> "idle", layer |-> None, node |-> None, tried |-> {}, at |-> 0,
                 sorted |-> <<>>, left |-> {}, failed |-> {}]
    /\ checks = [t \in Checks |-> Free]
    /\ last = [how |-> "none", layer |-> None]
    /\ reachable = CacheNodes /\ holds = [n \in CacheNodes |-> {}]
    /\ missed = {} /\ disturbed = FALSE /\ overlapped = FALSE /\ promised = {}
    /\ calls = 0 /\ downs = 0

Next ==
    \/ \E l \in Layers : GetLayerScan(l) \/ PutLayerScan(l)
    \/ Route \/ Pick \/ Answered \/ RequestFails \/ PopPoint \/ Rebuild \/ Assign \/ Schedule
    \/ PutEnds
    \/ \E n \in CacheNodes : PutToNode(n) \/ GoesDown(n) \/ ComesBack(n)
    \/ \E t \in Checks :
        Wake(t) \/ IsMember(t) \/ Enter(t) \/ AddPoint(t) \/ AppendKey(t) \/ SortKeys(t)

Spec == Init /\ [][Next]_vars

-----------------------------------------------------------------------------
\* The ring only ever has points of known nodes, and threads stay where they can be.
TypeOK ==
    /\ nodes \subseteq CacheNodes /\ ring \subseteq PointsOf(CacheNodes)
    /\ keys \in Seq(PointsOf(CacheNodes))
    /\ caller.pc \in CallerPc /\ caller.tried \subseteq CacheNodes
    /\ checks \in [Checks -> Thread]
    /\ \A t \in Checks : checks[t].pc = "free" <=> checks[t].node = None
    /\ last.how \in {"none", "hit", "miss", "unreachable", "raised", "stored", "error"}
    /\ reachable \subseteq CacheNodes /\ holds \in [CacheNodes -> SUBSET Layers]
    /\ calls \in 0..MaxCalls /\ downs \in 0..MaxDowns

\* When no thread is changing the ring, every hash has the owner the definition gives it
\* on the nodes that are in -- whatever additions overlapped, as long as no removal did
\* (cache_common.py:329-355).
RingMatches ==
    ~overlapped /\ ~BeingAdded /\ caller.pc \notin Removing =>
        /\ ring = PointsOf(nodes)
        /\ ring # {} => \A h \in Hashes :
              keys[Wrapped(keys, BisectRight(keys, h))] = Owner(PointsOf(nodes), h)

\* worker_cache_client.py:24, "one dead cache node never blocks a lookup": unless a node was
\* being put back when it began or has been since (or an addition once overlapped a removal),
\* a lookup fails only when no node is left, each having failed a request.
NeverBlocked ==
    last.how \in {"unreachable", "raised"} /\ ~disturbed /\ ~overlapped => nodes = {}

\* A node that is off the ring is being removed, or is going to be looked at again, or was
\* down when it was; whatever the threads do to each other (worker_cache_client.py:99-121).
AbsentHasCause ==
    \A n \in CacheNodes \ nodes :
        \/ n \in missed
        \/ \E t \in Checks : checks[t].pc \in Looking /\ checks[t].node = n
        \/ caller.node = n /\ caller.pc \in Removing \cup {"schedule"}

\* worker_cache_client.py:64-66: what a PUT has stored without an error is a hit on whatever
\* node a lookup is routed to, until a node loses it.
StoredIsHit == last.how = "miss" => last.layer \notin promised
=============================================================================
