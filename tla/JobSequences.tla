---------------------------- MODULE JobSequences ----------------------------
(***************************************************************************)
(* Scan jobs and sequences of them, as both backends of                    *)
(* scheduler/queue/job_queue.py keep them.                                 *)
(***************************************************************************)
EXTENDS Integers, Sequences

CONSTANT MaxJobs     \* bound: how many jobs are ever submitted

ASSUME MaxJobsAssumption == MaxJobs \in Nat \ {0}

Jobs == 1..MaxJobs       \* numbered in the order of submission
NoWorker == 0            \* the job has no "worker_id" key

\* The jobs that occur in a sequence.
Elements(s) == {s[i] : i \in 1..Len(s)}

(***************************************************************************)
(* The orders in which a dictionary or a Redis hash may list the jobs of   *)
(* S: the model forgets the order in which they were put there.            *)
(***************************************************************************)
Orderings(S) ==
    {s \in UNION {[1..n -> S] : n \in 0..MaxJobs} :
        /\ Elements(s) = S
        /\ \A a, b \in 1..Len(s) : s[a] = s[b] => a = b}
=============================================================================
