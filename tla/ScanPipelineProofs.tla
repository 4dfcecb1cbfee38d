------------------------- MODULE ScanPipelineProofs -------------------------
(***************************************************************************)
(* Proofs about ScanPipeline, for any number of containers, images,        *)
(* retries and failed calls.  The safety proofs rest on PipelineInv: what  *)
(* every variable holds (Typed), that a result is one of the image it is   *)
(* filed under (Filed), and that a container whose job reached the         *)
(* scheduler is not forgotten (OnTheWay), which has to speak of the time   *)
(* before the handler knows that the job arrived as well.                  *)
(***************************************************************************)
EXTENDS ScanPipeline, TLAPS

HandlerState == [pc: {"off", "asking", "answered", "pushing", "pushed", "over"},
                 answer: Result \cup {None}]
Attempt == [job: Containers, try: 0..MaxRetries,
            pc: {"scan", "store", "complete", "notify"}, result: Result \cup {None}]

Typed ==
    /\ image \in [Containers -> Images]
    /\ handler \in [Containers -> HandlerState]
    /\ row \in [Containers -> Result \cup {None}]
    /\ audit \in [Containers -> {"none", "cache_hit", "scan_enqueued", "ipc-failed"}]
    /\ cache \in [Images -> Result \cup {None}]
    /\ accepted \subseteq Containers /\ waiting \subseteq accepted /\ finished \subseteq accepted
    /\ attempts \subseteq Attempt
    /\ retries \in 0..MaxRetries /\ cacheFaults \in Nat /\ ipcFaults \in Nat

\* An attempt past the scan has a result of its job; one past the completion has
\* finished it.
AttemptInOrder(a) ==
    /\ a.job \in accepted
    /\ a.pc # "scan" => a.result \in Result /\ a.result.job = a.job
    /\ a.pc = "notify" => a.job \in finished

Filed ==
    /\ \A c \in Containers : handler[c].answer # None => image[handler[c].answer.job] = image[c]
    /\ \A c \in Containers : row[c] # None => image[row[c].job] = image[c]
    /\ \A i \in Images : cache[i] # None => image[cache[i].job] = i
    /\ \A a \in attempts : AttemptInOrder(a)

Resolved(c) == row[c] # None \/ c \in waiting \/ \E a \in attempts : a.job = c

OnTheWay ==
    ipcFaults = 0 => \A c \in Containers : handler[c].pc \in {"pushed", "over"} => Resolved(c)

PipelineInv == Typed /\ Filed /\ OnTheWay

-----------------------------------------------------------------------------
LEMMA InitEstablishes == Init => PipelineInv
BY PipelineAssumption
   DEF Init, PipelineInv, Typed, Filed, OnTheWay, HandlerState, AttemptInOrder, Service!Init

\* A step of the handler that touches neither the record nor the jobs.
LEMMA HandlerMoves ==
    ASSUME PipelineInv, NEW c \in Containers,
           ContainerStarts(c) \/ CacheAnswers(c) \/ CacheUnreachable(c) \/ HandleMiss(c)
               \/ PushAnswered(c) \/ PushFails(c)
    PROVE  PipelineInv'
<1>0. /\ handler \in [Containers -> HandlerState] /\ image \in [Containers -> Images]
      /\ cache \in [Images -> Result \cup {None}]
  BY DEF PipelineInv, Typed
<1>a. PICK h \in HandlerState :
         /\ handler' = [handler EXCEPT ![c] = h]
         /\ h.answer = handler[c].answer \/ h.answer = cache[image[c]]
  <2>1. CASE CacheAnswers(c)
    <3>1. cache[image[c]] \in Result \cup {None}   BY <1>0
    <3> DEFINE h == [pc |-> "answered", answer |-> cache[image[c]]]
    <3>2. h \in HandlerState /\ h.answer = cache[image[c]]   BY <3>1 DEF HandlerState
    <3>3. handler' = [handler EXCEPT ![c] = h]   BY <2>1 DEF CacheAnswers, Key
    <3> HIDE DEF h
    <3> QED  BY <3>2, <3>3
  <2>2. CASE ~ CacheAnswers(c)
    <3>1. PICK to \in {"asking", "answered", "pushing", "over"} :
             handler' = [handler EXCEPT ![c].pc = to]
      BY <2>2 DEF ContainerStarts, CacheUnreachable, HandleMiss, PushAnswered, PushFails, Moves
    <3> DEFINE h == [handler[c] EXCEPT !.pc = to]
    <3>2. h \in HandlerState /\ h.answer = handler[c].answer   BY <1>0 DEF HandlerState
    <3>3. handler' = [handler EXCEPT ![c] = h]   BY <3>1
    <3> HIDE DEF h
    <3> QED  BY <3>2, <3>3
  <2> QED  BY <2>1, <2>2
<1>b. /\ UNCHANGED <<image, row, cache, jobVars, retries>>
      /\ audit' = audit \/ \E e \in {"scan_enqueued", "ipc-failed"} : audit' = [audit EXCEPT ![c] = e]
      /\ cacheFaults' \in {cacheFaults, cacheFaults + 1} /\ ipcFaults' \in {ipcFaults, ipcFaults + 1}
  BY DEF ContainerStarts, CacheAnswers, CacheUnreachable, HandleMiss, PushAnswered, PushFails,
         counters
<1>1. Typed'
  <2>1. handler' \in [Containers -> HandlerState]   BY <1>0, <1>a
  <2>2. audit' \in [Containers -> {"none", "cache_hit", "scan_enqueued", "ipc-failed"}]
    BY <1>b DEF PipelineInv, Typed
  <2>3. cacheFaults' \in Nat /\ ipcFaults' \in Nat   BY <1>b DEF PipelineInv, Typed
  <2> QED  BY <1>b, <2>1, <2>2, <2>3 DEF PipelineInv, Typed, jobVars
<1>2. Filed'
  <2>1. UNCHANGED <<image, row, cache, attempts, accepted, finished>>   BY <1>b DEF jobVars
  <2>2. \A d \in Containers : \/ handler'[d].answer = handler[d].answer
                              \/ handler'[d].answer = cache[image[d]]
    BY <1>0, <1>a
  <2>3. \A d \in Containers : image[d] \in Images   BY <1>0
  <2> QED  BY <2>1, <2>2, <2>3 DEF PipelineInv, Filed, AttemptInOrder
<1>3. OnTheWay'
  <2> SUFFICES ASSUME ipcFaults' = 0, NEW d \in Containers, handler'[d].pc \in {"pushed", "over"}
               PROVE  Resolved(d)'
    BY DEF OnTheWay
  <2>1. UNCHANGED <<row, waiting, attempts>>   BY <1>b DEF jobVars
  <2>2. ~ PushFails(c) /\ ipcFaults = 0
    BY DEF PipelineInv, Typed, ContainerStarts, CacheAnswers, CacheUnreachable, HandleMiss,
           PushAnswered, PushFails, counters
  <2>3. handler[d].pc \in {"pushed", "over"}
    <3>1. CASE d # c   BY <1>0, <1>a, <3>1
    <3>2. CASE d = c
      <4>1. ContainerStarts(c) \/ CacheAnswers(c) \/ CacheUnreachable(c) \/ HandleMiss(c)
               => handler'[c].pc \in {"asking", "answered", "pushing"}
        BY <1>0 DEF HandlerState, ContainerStarts, CacheAnswers, CacheUnreachable, HandleMiss, Moves
      <4>2. PushAnswered(c)   BY <2>2, <3>2, <4>1
      <4> QED  BY <3>2, <4>2 DEF PushAnswered, Moves
    <3> QED  BY <3>1, <3>2
  <2> QED  BY <2>1, <2>2, <2>3 DEF PipelineInv, OnTheWay, Resolved
<1> QED  BY <1>1, <1>2, <1>3 DEF PipelineInv

LEMMA HitShowsResult ==
    ASSUME PipelineInv, NEW c \in Containers, HandleHit(c)   PROVE PipelineInv'
<1>1. Typed'
  BY DEF PipelineInv, Typed, HandlerState, HandleHit, Moves, jobVars, counters
<1>2. \A d \in Containers :
         /\ handler'[d].answer = handler[d].answer
         /\ row'[d] = IF d = c THEN handler[c].answer ELSE row[d]
         /\ handler'[d].pc = IF d = c THEN "over" ELSE handler[d].pc
  BY DEF PipelineInv, Typed, HandlerState, HandleHit, Moves
<1>3. handler[c].answer # None /\ UNCHANGED <<image, cache, jobVars, ipcFaults>>
  BY DEF HandleHit, counters
<1>4. Filed'   BY <1>2, <1>3 DEF PipelineInv, Filed, AttemptInOrder, jobVars
<1>5. OnTheWay'  BY <1>2, <1>3 DEF PipelineInv, OnTheWay, Resolved, jobVars
<1> QED  BY <1>1, <1>4, <1>5 DEF PipelineInv

LEMMA PushMakesItWait ==
    ASSUME PipelineInv, NEW c \in Containers, PushArrives(c)   PROVE PipelineInv'
<1>1. /\ accepted' = accepted \cup {c} /\ waiting' = waiting \cup {c} /\ finished' = finished
      /\ UNCHANGED <<image, row, audit, cache, attempts, counters>>
  BY DEF PushArrives, Service!Accept
<1>2. Typed'
  BY <1>1 DEF PipelineInv, Typed, HandlerState, PushArrives, Moves, counters
<1>3. \A d \in Containers :
         /\ handler'[d].answer = handler[d].answer
         /\ handler'[d].pc = IF d = c THEN "pushed" ELSE handler[d].pc
  BY DEF PipelineInv, Typed, HandlerState, PushArrives, Moves
<1>4. Filed'   BY <1>1, <1>3 DEF PipelineInv, Filed, AttemptInOrder
<1>5. OnTheWay'  BY <1>1, <1>3 DEF PipelineInv, OnTheWay, Resolved, counters
<1> QED  BY <1>2, <1>4, <1>5 DEF PipelineInv

LEMMA StartTakesOver ==
    ASSUME PipelineInv, NEW c \in Containers, StartAttempt(c)   PROVE PipelineInv'
<1> DEFINE new == [job |-> c, try |-> retries, pc |-> "scan", result |-> None]
<1>1. /\ attempts' = attempts \cup {new}
      /\ c \in waiting /\ waiting' \in {waiting, waiting \ {c}}
      /\ UNCHANGED <<image, handler, row, audit, cache, accepted, finished, counters>>
  BY DEF StartAttempt, Service!Start, controlVars
<1>2. new \in Attempt /\ new.pc = "scan" /\ new.job = c
  BY DEF PipelineInv, Typed, Attempt
<1> HIDE DEF new
<1>3. Typed'   BY <1>1, <1>2 DEF PipelineInv, Typed, counters
<1>4. AttemptInOrder(new)
  BY <1>1, <1>2 DEF PipelineInv, Typed, AttemptInOrder
<1>5. Filed'   BY <1>1, <1>4 DEF PipelineInv, Filed, AttemptInOrder
<1>6. OnTheWay'  BY <1>1, <1>2 DEF PipelineInv, OnTheWay, Resolved, counters
<1> QED  BY <1>3, <1>5, <1>6 DEF PipelineInv

\* An attempt that moves on stays an attempt at the same job.
LEMMA AttemptMoves ==
    ASSUME PipelineInv, NEW a \in attempts, NEW b, attempts' = Replaced(attempts, a, b),
           b \in Attempt, b.job = a.job, AttemptInOrder(b)',
           UNCHANGED <<controlVars, accepted, waiting, retries, ipcFaults>>,
           cacheFaults' \in Nat,
           \/ UNCHANGED <<cache, finished>>
           \/ UNCHANGED cache /\ finished' = finished \cup {a.job}
           \/ /\ a.pc # "scan" /\ cache' = [cache EXCEPT ![image[a.job]] = a.result]
              /\ UNCHANGED finished
    PROVE  PipelineInv'
<1>1. a \in Attempt /\ AttemptInOrder(a)   BY DEF PipelineInv, Typed, Filed
<1>2. UNCHANGED <<image, handler, row, audit>>   BY DEF controlVars
<1>3. a.job \in Containers /\ image[a.job] \in Images   BY <1>1 DEF PipelineInv, Typed, Attempt
<1>4. Typed'
  BY <1>1, <1>2, <1>3 DEF PipelineInv, Typed, Replaced, AttemptInOrder
<1>5. \A i \in Images : cache'[i] # None => image'[cache'[i].job] = i
  BY <1>1, <1>2, <1>3 DEF PipelineInv, Typed, Filed, AttemptInOrder
<1>6. \A d \in attempts' : AttemptInOrder(d)'
  BY DEF PipelineInv, Filed, AttemptInOrder, Replaced
<1>7. Filed'   BY <1>2, <1>5, <1>6 DEF PipelineInv, Filed
<1>8. OnTheWay'
  BY <1>2 DEF PipelineInv, OnTheWay, Resolved, Replaced
<1> QED  BY <1>4, <1>7, <1>8 DEF PipelineInv

LEMMA AttemptSteps ==
    ASSUME PipelineInv, NEW a \in attempts,
           Scan(a) \/ StoreResult(a) \/ StoreFails(a) \/ CompleteJob(a)
    PROVE  PipelineInv'
<1>1. a \in Attempt /\ AttemptInOrder(a)   BY DEF PipelineInv, Typed, Filed
<1>2. ASSUME Scan(a) PROVE PipelineInv'
  <2>1. PICK s \in Outcomes : attempts' = Replaced(attempts, a,
           [a EXCEPT !.pc = "store", !.result = [status |-> s, job |-> a.job, try |-> a.try]])
    BY <1>2 DEF Scan
  <2> DEFINE r == [status |-> s, job |-> a.job, try |-> a.try]
             b == [a EXCEPT !.pc = "store", !.result = r]
  <2>2. r \in Result /\ r.job = a.job   BY <1>1 DEF Result, Attempt
  <2> HIDE DEF r
  <2>3. b \in Attempt /\ b.job = a.job /\ b.pc = "store" /\ b.result = r
    BY <1>1, <2>2 DEF Attempt
  <2>4. attempts' = Replaced(attempts, a, b)   BY <2>1 DEF r
  <2> HIDE DEF b
  <2>5. AttemptInOrder(b)'   BY <1>1, <1>2, <2>2, <2>3 DEF AttemptInOrder, Scan
  <2>6. /\ UNCHANGED <<controlVars, accepted, waiting, retries, ipcFaults, cache, finished>>
        /\ cacheFaults' \in Nat
    BY <1>2 DEF Scan, counters, PipelineInv, Typed
  <2> QED  BY <2>3, <2>4, <2>5, <2>6, AttemptMoves
<1>3. ASSUME StoreResult(a) \/ StoreFails(a) PROVE PipelineInv'
  <2> DEFINE b == [a EXCEPT !.pc = "complete"]
  <2>1. attempts' = Replaced(attempts, a, b)   BY <1>3 DEF StoreResult, StoreFails
  <2>2. b \in Attempt /\ b.job = a.job /\ b.pc = "complete" /\ b.result = a.result
    BY <1>1 DEF Attempt
  <2> HIDE DEF b
  <2>3. AttemptInOrder(b)'
    BY <1>1, <1>3, <2>2 DEF AttemptInOrder, StoreResult, StoreFails
  <2>4. /\ UNCHANGED <<controlVars, accepted, waiting, retries, ipcFaults, finished>>
        /\ cacheFaults' \in Nat /\ a.pc # "scan"
        /\ \/ UNCHANGED cache
           \/ cache' = [cache EXCEPT ![image[a.job]] = a.result]
    BY <1>3 DEF StoreResult, StoreFails, counters, Key, PipelineInv, Typed
  <2> QED  BY <2>1, <2>2, <2>3, <2>4, AttemptMoves
<1>4. ASSUME CompleteJob(a) PROVE PipelineInv'
  <2> DEFINE b == [a EXCEPT !.pc = "notify"]
  <2>1. attempts' = Replaced(attempts, a, b)   BY <1>4 DEF CompleteJob
  <2>2. b \in Attempt /\ b.job = a.job /\ b.pc = "notify" /\ b.result = a.result
    BY <1>1 DEF Attempt
  <2> HIDE DEF b
  <2>3. /\ UNCHANGED <<controlVars, accepted, waiting, retries, ipcFaults, cache>>
        /\ finished' = finished \cup {a.job}
        /\ cacheFaults' \in Nat /\ a.pc # "scan"
    BY <1>4 DEF CompleteJob, Service!Finish, counters, PipelineInv, Typed
  <2>4. AttemptInOrder(b)'   BY <1>1, <2>2, <2>3 DEF AttemptInOrder
  <2> QED  BY <2>1, <2>2, <2>3, <2>4, AttemptMoves
<1> QED  BY <1>2, <1>3, <1>4

LEMMA ReportEnds ==
    ASSUME PipelineInv, NEW a \in attempts, Notify(a) \/ NotifyFails(a)
    PROVE  PipelineInv'
<1>1. a \in Attempt /\ AttemptInOrder(a) /\ a.pc = "notify"
  BY DEF PipelineInv, Typed, Filed, Notify, NotifyFails
<1>2. a.job \in Containers /\ a.result \in Result /\ a.result # None /\ a.result.job = a.job
  BY <1>1, PipelineAssumption DEF Attempt, AttemptInOrder
<1>3. /\ UNCHANGED <<image, handler, audit, cache, accepted, waiting, finished, retries>>
      /\ attempts' = attempts \ {a} /\ cacheFaults' \in Nat /\ ipcFaults' \in Nat
      /\ \/ row' = [row EXCEPT ![a.job] = a.result] /\ UNCHANGED ipcFaults
         \/ UNCHANGED row /\ ipcFaults' # 0
  BY DEF Notify, NotifyFails, controlVars, counters, PipelineInv, Typed
<1>4. Typed'   BY <1>2, <1>3 DEF PipelineInv, Typed
<1>5. Filed'   BY <1>2, <1>3 DEF PipelineInv, Typed, Filed, AttemptInOrder
<1>6. OnTheWay'
  BY <1>2, <1>3 DEF PipelineInv, Typed, OnTheWay, Resolved
<1> QED  BY <1>4, <1>5, <1>6 DEF PipelineInv

LEMMA RetryWaitsAgain ==
    ASSUME PipelineInv, NEW c \in Containers, Retry(c)   PROVE PipelineInv'
<1>1. PICK a \in attempts :
         /\ a.job = c
         /\ attempts' = attempts \/ attempts' = attempts \ {a}
  BY DEF Retry
<1>2. /\ waiting' = waiting \cup {c} /\ retries' = retries + 1 /\ retries < MaxRetries
      /\ UNCHANGED <<image, handler, row, audit, cache, accepted, finished, cacheFaults, ipcFaults>>
  BY DEF Retry, Service!Retry, controlVars
<1>3. c \in accepted   BY <1>1 DEF PipelineInv, Filed, AttemptInOrder
<1>4. Typed'   BY <1>1, <1>2, <1>3, PipelineAssumption DEF PipelineInv, Typed
<1>5. Filed'   BY <1>1, <1>2 DEF PipelineInv, Filed, AttemptInOrder
<1>6. OnTheWay'   BY <1>1, <1>2 DEF PipelineInv, OnTheWay, Resolved
<1> QED  BY <1>4, <1>5, <1>6 DEF PipelineInv

LEMMA StepPreserves == PipelineInv /\ [Next]_vars => PipelineInv'
<1> SUFFICES ASSUME PipelineInv, [Next]_vars PROVE PipelineInv'   OBVIOUS
<1>1. CASE UNCHANGED vars
  BY <1>1 DEF vars, controlVars, jobVars, counters, PipelineInv, Typed, Filed, OnTheWay,
              Resolved, AttemptInOrder
<1>2. ASSUME NEW c \in Containers,
             ContainerStarts(c) \/ HandlerStep(c) \/ StartAttempt(c) \/ Retry(c)
      PROVE  PipelineInv'
  BY <1>2, HandlerMoves, HitShowsResult, PushMakesItWait, StartTakesOver, RetryWaitsAgain
     DEF HandlerStep
<1>3. ASSUME NEW a \in attempts, AttemptStep(a)   PROVE PipelineInv'
  BY <1>3, AttemptSteps, ReportEnds DEF AttemptStep
<1> QED  BY <1>1, <1>2, <1>3 DEF Next

LEMMA InvariantHolds == Spec => []PipelineInv
BY InitEstablishes, StepPreserves, PTL DEF Spec

-----------------------------------------------------------------------------
\* start_container, docker_listener.py and _run_job: a result that a record shows, that
\* the cache returns or holds is one of the image it is filed under, and every job that
\* waits, runs or is finished was accepted.
THEOREM TypesHold == Spec => []TypeOK
<1>1. PipelineInv => TypeOK
  BY DEF PipelineInv, Typed, Filed, HandlerState, AttemptInOrder, TypeOK
<1> QED  BY <1>1, InvariantHolds, PTL

\* docker_listener.py:133-135: unless a call between control plane and scheduler failed,
\* a container whose start was handled shows a result or its job is still on the way.
THEOREM NoScanForgotten == Spec => []NothingForgotten
<1>1. PipelineInv => NothingForgotten
  BY DEF PipelineInv, OnTheWay, Resolved, NothingForgotten
<1> QED  BY <1>1, InvariantHolds, PTL

-----------------------------------------------------------------------------
LEMMA ServiceInit == Init => Service!Init
BY DEF Init, Service!Init

\* An attempt that moves on within its run keeps the set of running jobs.
LEMMA RunningKept ==
    ASSUME NEW a \in attempts, NEW b, attempts' = Replaced(attempts, a, b), b.job = a.job,
           a.pc # "notify", b.pc # "notify"
    PROVE  Running' = Running
BY DEF Running, Replaced

LEMMA RunningKeptAtEnd ==
    ASSUME NEW a \in attempts, attempts' = attempts \ {a}, a.pc = "notify"
    PROVE  Running' = Running
BY DEF Running

\* Every step of the pipeline is a step of the service, or none.
LEMMA ServiceStep == PipelineInv /\ [Next]_vars => [Service!Next]_(Service!vars)
<1> SUFFICES ASSUME PipelineInv, [Next]_vars PROVE [Service!Next]_(Service!vars)   OBVIOUS
<1>1. CASE UNCHANGED vars
  BY <1>1 DEF vars, jobVars, Running, Service!vars
<1>2. ASSUME NEW c \in Containers, ContainerStarts(c) \/ HandlerStep(c)
      PROVE  [Service!Next]_(Service!vars)
  <2>1. CASE PushArrives(c)
    <3>1. Service!Accept(c)   BY <2>1 DEF PushArrives
    <3> QED  BY <3>1 DEF Service!Next
  <2>2. CASE ~ PushArrives(c)
    <3>1. UNCHANGED jobVars
      BY <1>2, <2>2 DEF HandlerStep, ContainerStarts, CacheAnswers, CacheUnreachable,
                       HandleHit, HandleMiss, PushAnswered, PushFails
    <3> QED  BY <3>1 DEF jobVars, Running, Service!vars
  <2> QED  BY <2>1, <2>2
<1>3. ASSUME NEW c \in Containers, StartAttempt(c)   PROVE Service!Next
  BY <1>3 DEF StartAttempt, Service!Next
<1>4. ASSUME NEW c \in Containers, Retry(c)   PROVE Service!Next
  BY <1>4 DEF Retry, Service!Next
<1>5. ASSUME NEW a \in attempts, AttemptStep(a)   PROVE [Service!Next]_(Service!vars)
  <2>1. a \in Attempt   BY DEF PipelineInv, Typed
  <2>2. CASE CompleteJob(a)
    <3>1. Service!Finish(a.job) /\ a.job \in Containers   BY <2>1, <2>2 DEF CompleteJob, Attempt
    <3> QED  BY <3>1 DEF Service!Next
  <2>3. CASE Notify(a) \/ NotifyFails(a)
    <3>1. Running' = Running   BY <2>3, RunningKeptAtEnd DEF Notify, NotifyFails
    <3> QED  BY <2>3, <3>1 DEF Notify, NotifyFails, Service!vars
  <2>4. CASE Scan(a)
    <3>1. PICK s \in Outcomes : attempts' = Replaced(attempts, a,
             [a EXCEPT !.pc = "store", !.result = [status |-> s, job |-> a.job, try |-> a.try]])
      BY <2>4 DEF Scan
    <3> DEFINE r == [status |-> s, job |-> a.job, try |-> a.try]
               b == [a EXCEPT !.pc = "store", !.result = r]
    <3>2. attempts' = Replaced(attempts, a, b)   BY <3>1
    <3> HIDE DEF r
    <3>3. b.job = a.job /\ b.pc = "store" /\ a.pc = "scan"   BY <2>1, <2>4 DEF Scan, Attempt
    <3> HIDE DEF b
    <3>4. Running' = Running   BY <3>2, <3>3, RunningKept
    <3> QED  BY <2>4, <3>4 DEF Scan, Service!vars
  <2>5. CASE StoreResult(a) \/ StoreFails(a)
    <3>1. attempts' = Replaced(attempts, a, [a EXCEPT !.pc = "complete"]) /\ a.pc = "store"
      BY <2>5 DEF StoreResult, StoreFails
    <3>2. Running' = Running   BY <2>1, <3>1, RunningKept DEF Attempt
    <3> QED  BY <2>5, <3>2 DEF StoreResult, StoreFails, Service!vars
  <2> QED  BY <1>5, <2>2, <2>3, <2>4, <2>5 DEF AttemptStep
<1> QED  BY <1>1, <1>2, <1>3, <1>4, <1>5 DEF Next

\* scheduler_service.py: the control plane and the workers drive the scheduler only through
\* the transitions that JobService allows its clients to see, so what Scheduler proves to
\* implement is what this module builds on: accept, start, finish and retry, nothing else.
THEOREM PipelineUsesService == Spec => Service!Spec
BY ServiceInit, ServiceStep, InvariantHolds, PTL DEF Spec, Service!Spec
=============================================================================
