----------------------------- MODULE JobService -----------------------------
(***************************************************************************)
(* What the scan-job scheduler promises to its clients, whatever the queue *)
(* backend and the fate of the workers: at-least-once execution.  A job    *)
(* that was accepted keeps waiting until an attempt at it starts, and an   *)
(* attempt only ends by finishing the job.  Retries may make a job wait    *)
(* again, and several attempts at one job may be under way.                *)
(***************************************************************************)
CONSTANT Jobs

VARIABLES accepted, waiting, running, finished

vars == <<accepted, waiting, running, finished>>

Init == accepted = {} /\ waiting = {} /\ running = {} /\ finished = {}

Accept(j) ==
    /\ j \notin accepted
    /\ accepted' = accepted \cup {j}
    /\ waiting' = waiting \cup {j}
    /\ UNCHANGED <<running, finished>>

\* The job may stay in waiting: another copy of it may be queued.
Start(j) ==
    /\ j \in waiting
    /\ waiting' \in {waiting, waiting \ {j}}
    /\ running' = running \cup {j}
    /\ UNCHANGED <<accepted, finished>>

\* The job may stay in running: another attempt may be under way.
Finish(j) ==
    /\ j \in running
    /\ finished' = finished \cup {j}
    /\ running' \in {running, running \ {j}}
    /\ UNCHANGED <<accepted, waiting>>

\* Jobs that were started once wait again.
Retry ==
    /\ waiting \subseteq waiting'
    /\ waiting' \subseteq waiting \cup running \cup finished
    /\ UNCHANGED <<accepted, running, finished>>

Next == (\E j \in Jobs : Accept(j) \/ Start(j) \/ Finish(j)) \/ Retry

Spec == Init /\ [][Next]_vars

\* Every accepted job is finished at last.
EveryJobFinishes == \A j \in Jobs : j \in accepted ~> j \in finished
=============================================================================
