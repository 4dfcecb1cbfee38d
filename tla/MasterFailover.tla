--------------------------- MODULE MasterFailover ---------------------------
(***************************************************************************)
(* The two masters (control_plane/api/main.py on port 9000 and             *)
(* control_plane/api/standby.py on port 9090), the state each keeps in     *)
(* memory (core/state_store.py), and the one snapshot file that both write *)
(* because PERSIST_PATH is relative to the directory they are started in.  *)
(*                                                                         *)
(* A store is modelled by the part that the failover is about: for each    *)
(* container the last of its Docker events that the record knows of (0: no *)
(* record) and whether the record carries its container_id, the set of     *)
(* critical containers and the worker records.  Docker events of a         *)
(* container are its starts (odd) and its ends (even).                     *)
(*                                                                         *)
(* Every write of a store is followed by save_to_disk, which empties the   *)
(* file and then writes the whole store.  It holds up the event loop of    *)
(* its own process, but nothing keeps the other process from saving or     *)
(* loading meanwhile.  Saves that follow one another without an await      *)
(* between them are one save here.  The audit log and the broadcasts are   *)
(* left out, and so are records that only a scan_complete made.            *)
(***************************************************************************)
EXTENDS Naturals, FiniteSets

CONSTANTS
    Containers, Workers,
    Corrupt,           \* the content of a file that cannot be parsed
    StandbyRuns,       \* whether the standby is started at all
    FailureThreshold,  \* FAILURE_THRESHOLD
    ChecksPerMirror,   \* health checks that fit in the three seconds of a mirror request
    MaxEvents,         \* bound: Docker events of a container
    MaxCrashes,        \* bound: times a master dies
    MaxSlow            \* bound: health checks that a live primary fails to answer

\* What a StateStore holds.
Store == [rows: [Containers -> 0..MaxEvents], named: SUBSET Containers,
          critical: SUBSET Containers, workers: SUBSET Workers]

ASSUME MastersAssumption ==
    /\ {FailureThreshold, ChecksPerMirror, MaxEvents, MaxCrashes, MaxSlow} \subseteq Nat
    /\ FailureThreshold > 0
    /\ StandbyRuns \in BOOLEAN
    /\ Corrupt \notin Store

VARIABLES
    docker,     \* events of each container so far
    heard,      \* those of them that each master has handled, or was too late for
    up,         \* the masters that run
    promoted,   \* standby.py: is_primary
    failures,   \* standby.py: failure_count
    store,      \* the StateStore of each master
    mirror,     \* the answer of /status on its way to the standby: one or none
    disk,       \* rcsce_state.json
    saving,     \* the masters in the middle of save_to_disk
    scraps,     \* what they have been writing since the file was last emptied
    writer,     \* history: the master that saved last with nobody else at it
    knew,       \* history: the store that the primary had when it ended, while it is down
    crashes, slow

counters == <<crashes, slow>>
file == <<disk, saving, scraps, writer>>
vars == <<docker, heard, up, promoted, failures, store, mirror, file, knew, counters>>

Masters == {"primary", "standby"}
Nothing == [c \in Containers |-> 0]
EmptyStore == [rows |-> Nothing, named |-> {}, critical |-> {}, workers |-> {}]

\* The masters that listen to Docker, and that the user talks to.
Active == {m \in up : m = "primary" \/ promoted}

-----------------------------------------------------------------------------
(* save_to_disk                                                            *)

\* m changes its store to s and begins to save it: the file is emptied, also for who
\* else is writing to it.
Write(m, s) ==
    /\ m \notin saving
    /\ store' = [store EXCEPT ![m] = s]
    /\ disk' = Corrupt /\ writer' = "nobody"
    /\ saving' = saving \cup {m}
    /\ scraps' = {<<n, store[n]>> : n \in saving} \cup {<<m, s>>}

\* A file that several have written to is unreadable, or is made of parts of theirs.
Jumbled ==
    \/ disk' = Corrupt
    \/ \E s, t, u \in scraps :
          disk' = [s[2] EXCEPT !.critical = t[2].critical, !.workers = u[2].workers]

\* The last of it is written, and the file is closed.
SaveEnds(m) ==
    /\ m \in saving
    /\ saving' = saving \ {m}
    /\ scraps' = IF saving' = {} THEN {} ELSE scraps
    /\ IF scraps = {<<m, store[m]>>}
       THEN disk' = store[m] /\ writer' = m
       ELSE Jumbled /\ writer' = "nobody"
    /\ UNCHANGED <<docker, heard, up, promoted, failures, store, mirror, knew, counters>>

-----------------------------------------------------------------------------
\* Something happens to a container.
ContainerEvent(c) ==
    /\ docker[c] < MaxEvents
    /\ docker' = [docker EXCEPT ![c] = @ + 1]
    /\ UNCHANGED <<heard, up, promoted, failures, store, mirror, file, knew, counters>>

\* The store s after the n-th event of c.  Only a start writes the container_id into it.
Recorded(s, c, n) ==
    [s EXCEPT !.rows[c] = n, !.named = IF n % 2 = 1 THEN @ \cup {c} ELSE @]

\* Mutant of HandleEvent: the record is updated, but not saved.
HandleUnsaved(m, c) ==
    /\ m \in Active \ saving /\ heard[m][c] < docker[c]
    /\ heard' = [heard EXCEPT ![m][c] = @ + 1]
    /\ store' = [store EXCEPT ![m] = Recorded(@, c, heard'[m][c])]
    /\ UNCHANGED <<docker, up, promoted, failures, mirror, file, knew, counters>>

\* A master that listens handles the next event of c.
HandleEvent(m, c) ==
    /\ m \in Active /\ heard[m][c] < docker[c]
    /\ heard' = [heard EXCEPT ![m][c] = @ + 1]
    /\ Write(m, Recorded(store[m], c, heard'[m][c]))
    /\ UNCHANGED <<docker, up, promoted, failures, mirror, knew, counters>>

\* POST /containers/{c}/critical; the standby accepts it in any role.
MarkCritical(m, c) ==
    /\ m \in up /\ c \notin store[m].critical
    /\ Write(m, [store[m] EXCEPT !.critical = @ \cup {c}])
    /\ UNCHANGED <<docker, heard, up, promoted, failures, mirror, knew, counters>>

\* Heartbeats go to port 9000 only.
WorkerHeartbeat(w) ==
    /\ "primary" \in up /\ w \notin store["primary"].workers
    /\ Write("primary", [store["primary"] EXCEPT !.workers = @ \cup {w}])
    /\ UNCHANGED <<docker, heard, up, promoted, failures, mirror, knew, counters>>

\* The queue depth, the cache counters or the audit log of a master in charge changes:
\* everything is saved.
SaveAgain(m) ==
    /\ m \in Active
    /\ Write(m, store[m])
    /\ UNCHANGED <<docker, heard, up, promoted, failures, mirror, knew, counters>>

-----------------------------------------------------------------------------
(* Processes end and start.                                                *)

\* All that was in memory is gone.  A save that was under way has emptied the file and
\* is not finished.
Crash(m) ==
    /\ m \in up /\ crashes < MaxCrashes
    /\ crashes' = crashes + 1
    /\ up' = up \ {m}
    /\ store' = [store EXCEPT ![m] = EmptyStore]
    /\ heard' = [heard EXCEPT ![m] = Nothing]
    /\ knew' = IF m = "primary" THEN store[m] ELSE knew
    /\ IF m = "standby" THEN promoted' = FALSE /\ failures' = 0 /\ mirror' = {}
                        ELSE UNCHANGED <<promoted, failures, mirror>>
    /\ saving' = saving \ {m}
    /\ scraps' = IF saving' = {} THEN {} ELSE scraps
    /\ UNCHANGED <<docker, disk, writer, slow>>

\* load_from_disk: a file that cannot be read is ignored.
Loaded == IF disk = Corrupt THEN EmptyStore ELSE disk

\* From now on m listens to Docker, which does not repeat what has happened.
Listens(m) == heard' = [heard EXCEPT ![m] = docker]

\* The primary forgets the workers of the last session, and saves.
StartPrimary ==
    /\ "primary" \notin up
    /\ up' = up \cup {"primary"}
    /\ Write("primary", [Loaded EXCEPT !.workers = {}])
    /\ Listens("primary")
    /\ knew' = EmptyStore
    /\ UNCHANGED <<docker, promoted, failures, mirror, counters>>

StartStandby ==
    /\ StandbyRuns /\ "standby" \notin up
    /\ up' = up \cup {"standby"}
    /\ store' = [store EXCEPT !["standby"] = Loaded]
    /\ UNCHANGED <<docker, heard, promoted, failures, mirror, file, knew, counters>>

-----------------------------------------------------------------------------
(* health_check_loop                                                       *)

Watching == "standby" \in up /\ ~promoted

\* A check takes at least two seconds with the sleep after it, so only so many of
\* them fit in before a mirror request is answered or times out.
Check ==
    /\ Watching /\ "standby" \notin saving
    /\ \A a \in mirror : a.checks < ChecksPerMirror
    /\ mirror' = {[a EXCEPT !.checks = @ + 1] : a \in mirror}

HealthOk ==
    /\ Check /\ "primary" \in up
    /\ failures' = 0
    /\ UNCHANGED <<docker, heard, up, promoted, store, file, knew, counters>>

\* A check fails if the primary is down, or if it takes longer than two seconds.
CheckFails ==
    /\ Check
    /\ \/ "primary" \notin up /\ UNCHANGED slow
       \/ "primary" \in up /\ slow < MaxSlow /\ slow' = slow + 1
    /\ UNCHANGED <<docker, up, store, file, knew, crashes>>

\* Mutant of HealthFails: one failure too many is waited for.
HealthFailsLate ==
    /\ CheckFails
    /\ failures' = failures + 1
    /\ promoted' = (failures' > FailureThreshold)
    /\ IF promoted' THEN Listens("standby") ELSE UNCHANGED heard

\* Mutant of HealthFails: the first failure counts twice.
HealthFailsEarly ==
    /\ CheckFails
    /\ failures' = IF failures = 0 THEN 2 ELSE failures + 1
    /\ promoted' = (failures' >= FailureThreshold)
    /\ IF promoted' THEN Listens("standby") ELSE UNCHANGED heard

\* Mutant of HealthFails: every failure is taken for the first.
HealthFailsAnew ==
    /\ CheckFails
    /\ failures' = 1
    /\ promoted' = (failures' >= FailureThreshold)
    /\ IF promoted' THEN Listens("standby") ELSE UNCHANGED heard

\* promote_to_primary: from now on the standby listens to Docker.
HealthFails ==
    /\ CheckFails
    /\ failures' = failures + 1
    /\ promoted' = (failures' >= FailureThreshold)
    /\ IF promoted' THEN Listens("standby") ELSE UNCHANGED heard

-----------------------------------------------------------------------------
(* state_mirror_loop                                                       *)

\* The primary answers /status.
MirrorAsk ==
    /\ Watching /\ "standby" \notin saving
    /\ mirror = {} /\ "primary" \in up
    /\ mirror' = {[of |-> store["primary"], checks |-> 0]}
    /\ UNCHANGED <<docker, heard, up, promoted, failures, store, file, knew, counters>>

\* The answer does not arrive.
MirrorFails ==
    /\ mirror # {}
    /\ mirror' = {}
    /\ \/ "primary" \notin up /\ UNCHANGED slow
       \/ "primary" \in up /\ slow < MaxSlow /\ slow' = slow + 1
    /\ UNCHANGED <<docker, heard, up, promoted, failures, store, file, knew, crashes>>

\* Mutant of Upserted: what the standby has a record of is not looked at again.
UpsertedIfNew(s, t) ==
    [s EXCEPT !.rows = [c \in Containers |->
                           IF c \in t.named /\ @[c] = 0 THEN t.rows[c] ELSE @[c]],
              !.named = @ \cup t.named,
              !.workers = @ \cup t.workers]

\* The records of t that carry a container_id, and its workers, written over those of
\* s; the critical set is not part of /status.
Upserted(s, t) ==
    [s EXCEPT !.rows = [c \in Containers |-> IF c \in t.named THEN t.rows[c] ELSE @[c]],
              !.named = @ \cup t.named,
              !.workers = @ \cup t.workers]

\* Whether the standby has been promoted meanwhile is not asked again.
MirrorApply ==
    /\ \E a \in mirror : Write("standby", Upserted(store["standby"], a.of))
    /\ mirror' = {}
    /\ UNCHANGED <<docker, heard, up, promoted, failures, knew, counters>>

-----------------------------------------------------------------------------
Init ==
    /\ docker = Nothing /\ heard = [m \in Masters |-> Nothing]
    /\ up = IF StandbyRuns THEN Masters ELSE {"primary"}
    /\ promoted = FALSE /\ failures = 0
    /\ store = [m \in Masters |-> EmptyStore] /\ mirror = {}
    /\ disk = EmptyStore /\ saving = {} /\ scraps = {}
    /\ writer = "primary" /\ knew = EmptyStore
    /\ crashes = 0 /\ slow = 0

Next ==
    \/ \E c \in Containers :
          \/ ContainerEvent(c)
          \/ \E m \in Masters : HandleEvent(m, c) \/ MarkCritical(m, c)
    \/ \E w \in Workers : WorkerHeartbeat(w)
    \/ \E m \in Masters : SaveAgain(m) \/ SaveEnds(m) \/ Crash(m)
    \/ StartPrimary \/ StartStandby
    \/ HealthOk \/ HealthFails
    \/ MirrorAsk \/ MirrorFails \/ MirrorApply

Spec == Init /\ [][Next]_vars

\* The loops of the standby keep running, and a save comes to its end; nobody has to
\* start a process again.
FairSpec ==
    /\ Spec
    /\ \A m \in Masters : WF_vars(SaveEnds(m))
    /\ WF_vars(HealthOk \/ HealthFails)
    /\ WF_vars(MirrorAsk) /\ WF_vars(MirrorApply)

-----------------------------------------------------------------------------
\* The stores have their shape, the standby is in charge exactly from the third failure
\* in a row on (standby.py:105-112), and what a master is saving is the store it has.
TypeOK ==
    /\ docker \in [Containers -> 0..MaxEvents]
    /\ heard \in [Masters -> [Containers -> 0..MaxEvents]]
    /\ up \subseteq Masters /\ saving \subseteq up
    /\ failures \in 0..FailureThreshold
    /\ promoted <=> failures = FailureThreshold
    /\ store \in [Masters -> Store] /\ disk \in Store \cup {Corrupt}
    /\ scraps \subseteq Masters \X Store
    /\ \A m \in saving : <<m, store[m]>> \in scraps
    /\ mirror \subseteq [of: Store, checks: 0..ChecksPerMirror] /\ Cardinality(mirror) <= 1

\* The standby never joins a primary that has not been started again and has failed
\* to answer fewer checks than the threshold (standby.py:96-112).
RivalHasCause == Cardinality(Active) = 2 => crashes > 0 \/ slow >= FailureThreshold

\* README.md:525: a primary that stays down is replaced by a standby that runs.
TakesOver == <>[]("primary" \notin up /\ "standby" \in up) => <>promoted

\* README.md:316, "the standby mirrored it every 5 seconds": what the primary knows of a
\* container whose start it has heard of (standby.py:139-140 passes over the others), the
\* standby gets to know, unless one of them ends or takes over first.
MirrorCatchesUp ==
    \A c \in Containers, n \in 1..MaxEvents :
        (/\ "primary" \in up /\ Watching
         /\ c \in store["primary"].named /\ store["primary"].rows[c] = n)
            ~> \/ store["standby"].rows[c] >= n
               \/ "primary" \notin up \/ ~Watching

\* README.md:423: all that the primary knew when it ended is there again when it starts,
\* but for the workers, if the last save of the file was one of the primary's, complete,
\* with the other master's saves neither under way at the same time nor after it
\* (state_store.py:32-61, 172-229).
SurvivesRestart ==
    [][writer = "primary" /\ StartPrimary
         => store'["primary"] = [knew EXCEPT !.workers = {}]]_vars
=============================================================================
