--------------------------- MODULE WorkerRegistry ---------------------------
(***************************************************************************)
(* scheduler/workers/worker_registry.py: the dictionary in which a         *)
(* scheduler process keeps its workers.  Worker ids are numbered in the    *)
(* order in which the workers register, which is also the iteration order  *)
(* of the Python dictionary; an entry is never deleted.  The registry is a *)
(* value here: the schedulers that own one hold it in a variable.          *)
(***************************************************************************)
EXTENDS Integers, FiniteSets

CONSTANT MaxSpawns   \* bound: how many workers one scheduler ever registers

ASSUME MaxSpawnsAssumption == MaxSpawns \in Nat \ {0}

WorkerIds == 1..MaxSpawns
WorkerStatus == {"unregistered", "alive", "dead"}

(***************************************************************************)
(* size counts the entries.  load, assigned and completed are the fields   *)
(* "load", "jobs_assigned" and "jobs_completed"; events_assigned and       *)
(* events_completed always equal the jobs_ fields and are left out.        *)
(***************************************************************************)
Registry == [size: 0..MaxSpawns, status: [WorkerIds -> WorkerStatus],
             load: [WorkerIds -> Nat], assigned: [WorkerIds -> Nat],
             completed: [WorkerIds -> Nat]]

\* A registry whose entries are exactly the ids 1..size.
WellFormed(R) ==
    /\ R \in Registry
    /\ \A w \in WorkerIds : R.status[w] # "unregistered" <=> w <= R.size

EmptyRegistry ==
    [size |-> 0, status |-> [w \in WorkerIds |-> "unregistered"],
     load |-> [w \in WorkerIds |-> 0], assigned |-> [w \in WorkerIds |-> 0],
     completed |-> [w \in WorkerIds |-> 0]]

AliveIn(R) == {w \in WorkerIds : R.status[w] = "alive"}
DeadIn(R)  == {w \in WorkerIds : R.status[w] = "dead"}

\* The constructor of WorkerNode registers a fresh id; here n of them.
Register(R, n) ==
    [R EXCEPT !.size = @ + n,
              !.status = [w \in WorkerIds |->
                  IF w \in (R.size + 1)..(R.size + n) THEN "alive" ELSE R.status[w]]]

\* Mutant: the guard against a negative load is gone.
DecrementUnclamped(k) == k - 1

\* max(0, load - 1)
Decrement(k) == IF k > 0 THEN k - 1 ELSE 0

MarkAssigned(R, w) ==
    [R EXCEPT !.load[w] = @ + 1, !.assigned[w] = @ + 1]

\* Mutant: a completion only counts, and the load is never lowered.
MarkCompletedKeepsLoad(R, w) == [R EXCEPT !.completed[w] = @ + 1]

MarkCompleted(R, w) ==
    [R EXCEPT !.load[w] = Decrement(@), !.completed[w] = @ + 1]

MarkFailed(R, w) == [R EXCEPT !.load[w] = Decrement(@)]

MarkDead(R, w) == [R EXCEPT !.status[w] = "dead", !.load[w] = 0]

(***************************************************************************)
(* w is available_workers()[0]: an alive worker of least load, the first   *)
(* registered of those (list.sort is stable).                              *)
(***************************************************************************)
IsLeastLoaded(R, w) ==
    /\ w \in AliveIn(R)
    /\ \A v \in AliveIn(R) : \/ R.load[w] < R.load[v]
                             \/ R.load[w] = R.load[v] /\ w <= v
=============================================================================
