---------------------------- MODULE ScanPipeline ----------------------------
(***************************************************************************)
(* The way of a scan through the system: the start handler of the control  *)
(* plane asks the cache node and, on a miss, the scheduler; a worker scans *)
(* the image; the dispatcher stores the result in the cache, completes the *)
(* job and tells the control plane, whose record of the container shows    *)
(* the result.                                                             *)
(*                                                                         *)
(* Every arrow is an HTTP call with a timeout, so what the caller learns   *)
(* and what the callee did may differ.  The scheduler is the one that      *)
(* JobService promises (Scheduler implements it), with at most one queued  *)
(* copy of a job; the cache is one node that forgets nothing (LayerCache   *)
(* is about when it does).  Each container is started once.                *)
(***************************************************************************)
EXTENDS Naturals, FiniteSets

CONSTANTS
    Containers,     \* each is also the job that its start may ask for
    Images,
    None,           \* no result
    Outcomes,       \* scan_status of process_job
    MaxRetries,     \* bound: jobs that are queued again
    MaxCacheFaults, \* bound: calls to the cache node that fail
    MaxIpcFaults    \* bound: calls between control plane and scheduler that fail

\* What a worker found out; try tells the attempts at a job apart.
Result == [status: Outcomes, job: Containers, try: 0..MaxRetries]

ASSUME PipelineAssumption ==
    /\ {MaxRetries, MaxCacheFaults, MaxIpcFaults} \subseteq Nat
    /\ Outcomes \subseteq {"scan_complete", "mock_scan_complete", "scan_timeout", "scan_failed"}
    /\ Outcomes # {} /\ None \notin Result

VARIABLES
    image,      \* of each container; never changes
    handler,    \* the start handler of each container, and the answer of the cache
    row,        \* the result that the record of the container shows
    audit,      \* the audit entry of the start handler
    cache,      \* the result stored for each image
    accepted, waiting, finished,   \* jobs, as in JobService
    attempts,   \* the _run_job tasks that are not over
    retries, cacheFaults, ipcFaults

controlVars == <<image, handler, row, audit>>
jobVars == <<accepted, waiting, finished, attempts>>
counters == <<retries, cacheFaults, ipcFaults>>
vars == <<controlVars, cache, jobVars, counters>>

Running == {a.job : a \in {b \in attempts : b.pc # "notify"}}
Service == INSTANCE JobService WITH Jobs <- Containers, running <- Running

\* Mutant of Key: the digest alone, which is the same for images that have none.
KeyOfDigest(c) == CHOOSE i \in Images : TRUE

\* build_layer_hash: two containers have the same key if they have the same image.
Key(c) == image[c]

Replaced(S, old, new) == (S \ {old}) \cup {new}
Moves(c, from, to) == handler[c].pc = from /\ handler' = [handler EXCEPT ![c].pc = to]

-----------------------------------------------------------------------------
(* The start handler.                                                      *)

\* The record is made; GET /cache/{layer_hash} is sent.
ContainerStarts(c) ==
    /\ Moves(c, "off", "asking")
    /\ UNCHANGED <<image, row, audit, cache, jobVars, counters>>

CacheAnswers(c) ==
    /\ handler[c].pc = "asking"
    /\ handler' = [handler EXCEPT ![c] = [pc |-> "answered", answer |-> cache[Key(c)]]]
    /\ UNCHANGED <<image, row, audit, cache, jobVars, counters>>

\* Any failure counts as a miss.
CacheUnreachable(c) ==
    /\ Moves(c, "asking", "answered")
    /\ cacheFaults < MaxCacheFaults /\ cacheFaults' = cacheFaults + 1
    /\ UNCHANGED <<image, row, audit, cache, jobVars, retries, ipcFaults>>

\* Mutant of HandleHit: the container's record is not updated.
HandleHitWithoutRow(c) ==
    /\ handler[c].answer # None /\ Moves(c, "answered", "over")
    /\ audit' = [audit EXCEPT ![c] = "cache_hit"]
    /\ UNCHANGED <<image, row, cache, jobVars, counters>>

HandleHit(c) ==
    /\ handler[c].answer # None /\ Moves(c, "answered", "over")
    /\ row' = [row EXCEPT ![c] = handler[c].answer]
    /\ audit' = [audit EXCEPT ![c] = "cache_hit"]
    /\ UNCHANGED <<image, cache, jobVars, counters>>

\* POST /jobs/enqueue is sent.
HandleMiss(c) ==
    /\ handler[c].answer = None /\ Moves(c, "answered", "pushing")
    /\ UNCHANGED <<image, row, audit, cache, jobVars, counters>>

PushArrives(c) ==
    /\ Moves(c, "pushing", "pushed")
    /\ UNCHANGED attempts /\ Service!Accept(c)
    /\ UNCHANGED <<image, row, audit, cache, counters>>

PushAnswered(c) ==
    /\ Moves(c, "pushed", "over")
    /\ audit' = [audit EXCEPT ![c] = "scan_enqueued"]
    /\ UNCHANGED <<image, row, cache, jobVars, counters>>

\* The call fails, before the scheduler has the job or after.
PushFails(c) ==
    /\ \/ Moves(c, "pushing", "over")
       \/ Moves(c, "pushed", "over")
    /\ ipcFaults < MaxIpcFaults /\ ipcFaults' = ipcFaults + 1
    /\ audit' = [audit EXCEPT ![c] = "ipc-failed"]
    /\ UNCHANGED <<image, row, cache, jobVars, retries, cacheFaults>>

-----------------------------------------------------------------------------
(* The scheduler: JobService, with what an attempt at a job does.          *)

StartAttempt(j) ==
    /\ attempts' = attempts \cup {[job |-> j, try |-> retries, pc |-> "scan", result |-> None]}
    /\ Service!Start(j) /\ j \notin waiting'
    /\ UNCHANGED <<controlVars, cache, counters>>

\* process_job: it returns a result whatever happens to Trivy.
Scan(a) ==
    /\ a.pc = "scan"
    /\ \E s \in Outcomes : attempts' = Replaced(attempts, a,
          [a EXCEPT !.pc = "store", !.result = [status |-> s, job |-> a.job, try |-> a.try]])
    /\ UNCHANGED <<controlVars, cache, accepted, waiting, finished, counters>>

\* POST /cache
StoreResult(a) ==
    /\ a.pc = "store"
    /\ cache' = [cache EXCEPT ![Key(a.job)] = a.result]
    /\ attempts' = Replaced(attempts, a, [a EXCEPT !.pc = "complete"])
    /\ UNCHANGED <<controlVars, accepted, waiting, finished, counters>>

\* Mutant of StoreFails: the failure is not caught where it happens.
StoreFailsUncaught(a) ==
    /\ a.pc = "store"
    /\ cacheFaults < MaxCacheFaults /\ cacheFaults' = cacheFaults + 1
    /\ attempts' = attempts \ {a}
    /\ UNCHANGED <<controlVars, cache, accepted, waiting, finished, retries, ipcFaults>>

StoreFails(a) ==
    /\ a.pc = "store"
    /\ cacheFaults < MaxCacheFaults /\ cacheFaults' = cacheFaults + 1
    /\ attempts' = Replaced(attempts, a, [a EXCEPT !.pc = "complete"])
    /\ UNCHANGED <<controlVars, cache, accepted, waiting, finished, retries, ipcFaults>>

CompleteJob(a) ==
    /\ a.pc = "complete"
    /\ attempts' = Replaced(attempts, a, [a EXCEPT !.pc = "notify"])
    /\ Service!Finish(a.job)
    /\ UNCHANGED <<controlVars, cache, counters>>

\* Mutant of Notify: a scan that failed is not reported.
NotifyOfSuccess(a) ==
    /\ a.pc = "notify"
    /\ row' = IF a.result.status \in {"scan_complete", "mock_scan_complete"}
              THEN [row EXCEPT ![a.job] = a.result] ELSE row
    /\ attempts' = attempts \ {a}
    /\ UNCHANGED <<image, handler, audit, cache, accepted, waiting, finished, counters>>

\* POST /internal/scan/complete: the result replaces what the record showed.
Notify(a) ==
    /\ a.pc = "notify"
    /\ row' = [row EXCEPT ![a.job] = a.result]
    /\ attempts' = attempts \ {a}
    /\ UNCHANGED <<image, handler, audit, cache, accepted, waiting, finished, counters>>

\* The call fails, and nobody repeats it.
NotifyFails(a) ==
    /\ a.pc = "notify"
    /\ ipcFaults < MaxIpcFaults /\ ipcFaults' = ipcFaults + 1
    /\ attempts' = attempts \ {a}
    /\ UNCHANGED <<controlVars, cache, accepted, waiting, finished, retries, cacheFaults>>

\* The worker of the job died, or the report after the completion raised and ended
\* the attempt: the job is queued again.
Retry(j) ==
    /\ retries < MaxRetries /\ retries' = retries + 1
    /\ \E a \in attempts :
          /\ a.job = j
          /\ \/ a.pc # "notify" /\ UNCHANGED attempts
             \/ a.pc = "notify" /\ attempts' = attempts \ {a}
    /\ waiting' = waiting \cup {j} /\ Service!Retry
    /\ UNCHANGED <<controlVars, cache, cacheFaults, ipcFaults>>

-----------------------------------------------------------------------------
Init ==
    /\ image \in [Containers -> Images]
    /\ handler = [c \in Containers |-> [pc |-> "off", answer |-> None]]
    /\ row = [c \in Containers |-> None] /\ audit = [c \in Containers |-> "none"]
    /\ cache = [i \in Images |-> None]
    /\ attempts = {} /\ Service!Init
    /\ retries = 0 /\ cacheFaults = 0 /\ ipcFaults = 0

HandlerStep(c) ==
    \/ CacheAnswers(c) \/ CacheUnreachable(c) \/ HandleHit(c) \/ HandleMiss(c)
    \/ PushArrives(c) \/ PushAnswered(c) \/ PushFails(c)

AttemptStep(a) ==
    \/ Scan(a) \/ StoreResult(a) \/ StoreFails(a) \/ CompleteJob(a) \/ Notify(a)
    \/ NotifyFails(a)

Next ==
    \/ \E c \in Containers : ContainerStarts(c) \/ HandlerStep(c) \/ StartAttempt(c) \/ Retry(c)
    \/ \E a \in attempts : AttemptStep(a)

Spec == Init /\ [][Next]_vars

\* Calls are answered or time out, a scan ends after 90 seconds at the latest, and
\* the scheduler starts the jobs that wait (Scheduler!EveryJobFinishes).
FairSpec ==
    /\ Spec
    /\ \A c \in Containers : /\ WF_vars(HandlerStep(c)) /\ WF_vars(StartAttempt(c))
                             /\ WF_vars(\E a \in attempts : a.job = c /\ AttemptStep(a))

-----------------------------------------------------------------------------
\* Results are where they belong; a cached or shown one is one of the image.
TypeOK ==
    /\ \A c \in Containers :
          /\ handler[c].pc \in {"off", "asking", "answered", "pushing", "pushed", "over"}
          /\ \A r \in {handler[c].answer, row[c]} \ {None} :
                r \in Result /\ image[r.job] = image[c]
          /\ audit[c] \in {"none", "cache_hit", "scan_enqueued", "ipc-failed"}
    /\ \A i \in Images : cache[i] # None => cache[i] \in Result /\ image[cache[i].job] = i
    /\ finished \cup waiting \cup {a.job : a \in attempts} \subseteq accepted

\* docker_listener.py:133-135, "scanning..." forever: a container whose start has been
\* handled shows a result, or its job is still on the way, whatever the cache node
\* does and however often the job is retried -- if control plane and scheduler reach
\* each other.
NothingForgotten ==
    ipcFaults = 0 => \A c \in Containers : handler[c].pc = "over"
        => row[c] # None \/ c \in waiting \/ \E a \in attempts : a.job = c

\* README.md:17: as long as the calls succeed, every container that starts has a result
\* at last, whatever Trivy does.
EveryStartResolved ==
    \A c \in Containers :
        (handler[c].pc # "off") ~> (row[c] # None \/ ipcFaults > 0)
=============================================================================
