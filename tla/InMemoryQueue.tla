--------------------------- MODULE InMemoryQueue ----------------------------
(***************************************************************************)
(* InMemoryJobQueue of scheduler/queue/job_queue.py, the backend that      *)
(* create_queue() falls back to.  None of its coroutines suspends except   *)
(* dequeue() on an empty queue, so each is one atomic update of the value  *)
(* below.  A job is one Python dict shared by the queue, the in-flight     *)
(* table and the runs that process it, so its "worker_id" (owner) is one   *)
(* field per job whatever the number of copies in pending.                 *)
(***************************************************************************)
EXTENDS JobSequences

Queue == [pending: Seq(Jobs), inflight: SUBSET Jobs, owner: [Jobs -> Nat]]

EmptyQueue == [pending |-> << >>, inflight |-> {}, owner |-> [j \in Jobs |-> NoWorker]]

\* Mutant: the job is pushed at the end that dequeue takes from.
EnqueueAtHead(Q, j) == [Q EXCEPT !.pending = <<j>> \o @]

\* enqueue, and the asyncio.Queue.put of a job dict
Enqueue(Q, j) == [Q EXCEPT !.pending = Append(@, j)]

\* Mutant: the in-flight entry does not name the worker.
DequeueWithoutOwner(Q, w) ==
    [Q EXCEPT !.pending = Tail(@), !.inflight = @ \cup {Head(Q.pending)}]

\* dequeue, with the "worker_id" the dispatcher then writes in the job
Dequeue(Q, w) ==
    [Q EXCEPT !.pending = Tail(@), !.inflight = @ \cup {Head(Q.pending)},
              !.owner[Head(Q.pending)] = w]

\* Mutant: the in-flight entry of a completed job is left behind.
CompleteLeavesEntry(Q, j) == Q

\* complete: nothing at all when the job is not in flight (any more)
Complete(Q, j) == [Q EXCEPT !.inflight = @ \ {j}]

\* requeue of every job of the sequence s, in that order
RequeueAll(Q, s) ==
    [pending  |-> Q.pending \o s,
     inflight |-> Q.inflight \ Elements(s),
     owner    |-> [j \in Jobs |-> IF j \in Elements(s) THEN NoWorker ELSE Q.owner[j]]]

OwnedBy(Q, w) == {j \in Q.inflight : Q.owner[j] = w}
=============================================================================
