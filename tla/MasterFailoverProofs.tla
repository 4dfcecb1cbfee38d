------------------------ MODULE MasterFailoverProofs ------------------------
(***************************************************************************)
(* Proofs about the two masters, for every number of containers, workers,  *)
(* events, crashes and lost answers, and every failure threshold: a second *)
(* master in charge has a cause, and the snapshot file brings back what    *)
(* the primary knew.                                                       *)
(***************************************************************************)
EXTENDS MasterFailover, FiniteSetTheorems, TLAPS

\* The types that the steps below rely on.
Writable == disk \in Store \cup {Corrupt} /\ scraps \subseteq Masters \X Store

StoreTypeOK ==
    /\ docker \in [Containers -> 0..MaxEvents]
    /\ heard \in [Masters -> [Containers -> 0..MaxEvents]]
    /\ store \in [Masters -> Store] /\ Writable
    /\ saving \subseteq up /\ \A m \in saving : <<m, store[m]>> \in scraps
    /\ \A a \in mirror : a.of \in Store

HealthTypeOK ==
    /\ up \subseteq Masters /\ (mirror # {} => "standby" \in up)
    /\ failures \in 0..FailureThreshold
    /\ promoted \in BOOLEAN /\ (promoted <=> failures = FailureThreshold)
    /\ mirror = {} \/ \E a \in [of: Store, checks: 0..ChecksPerMirror] : mirror = {a}

-----------------------------------------------------------------------------
(* Types.                                                                  *)

LEMMA StoreTypes ==
    /\ Nothing \in [Containers -> 0..MaxEvents] /\ EmptyStore \in Store
    /\ \A s, t \in Store : Upserted(s, t) \in Store
    /\ \A s \in Store, c \in Containers, n \in 0..MaxEvents : Recorded(s, c, n) \in Store
<1>1. Nothing \in [Containers -> 0..MaxEvents]
  BY MastersAssumption DEF Nothing
<1>2. EmptyStore \in Store
  BY <1>1 DEF EmptyStore, Store
<1>3. ASSUME NEW s \in Store, NEW t \in Store PROVE Upserted(s, t) \in Store
  BY DEF Upserted, Store
<1>4. ASSUME NEW s \in Store, NEW c \in Containers, NEW n \in 0..MaxEvents
      PROVE  Recorded(s, c, n) \in Store
  BY DEF Recorded, Store
<1> QED
  BY <1>1, <1>2, <1>3, <1>4

LEMMA JumbleTypes ==
    ASSUME scraps \subseteq Masters \X Store, Jumbled PROVE disk' \in Store \cup {Corrupt}
<1>1. ASSUME NEW s \in Store, NEW t \in Store, NEW u \in Store
      PROVE  [s EXCEPT !.critical = t.critical, !.workers = u.workers] \in Store
  BY DEF Store
<1>2. \A scrap \in scraps : scrap[2] \in Store
  OBVIOUS
<1>3. ASSUME NEW s \in scraps, NEW t \in scraps, NEW u \in scraps,
             disk' = [s[2] EXCEPT !.critical = t[2].critical, !.workers = u[2].workers]
      PROVE  disk' \in Store
  BY <1>1, <1>2, <1>3
<1> QED
  BY <1>3 DEF Jumbled

\* A save begins: the store is the new one, and the file cannot be read.
LEMMA WriteTypes ==
    ASSUME StoreTypeOK, NEW m \in Masters, NEW s \in Store, Write(m, s), m \in up',
           up \subseteq up'
    PROVE  /\ store' \in [Masters -> Store] /\ Writable'
           /\ saving' \subseteq up' /\ \A n \in saving' : <<n, store'[n]>> \in scraps'
<1>1. /\ m \notin saving /\ store' = [store EXCEPT ![m] = s] /\ disk' = Corrupt
      /\ saving' = saving \cup {m}
      /\ scraps' = {<<n, store[n]>> : n \in saving} \cup {<<m, s>>}
  BY DEF Write
<1>2. store \in [Masters -> Store] /\ scraps \subseteq Masters \X Store
  BY DEF StoreTypeOK, Writable
<1>3. \A n \in saving : <<n, store[n]>> \in Masters \X Store /\ n \in up
  BY <1>2 DEF StoreTypeOK
<1>4. store' \in [Masters -> Store] /\ store'[m] = s
  BY <1>1, <1>2
<1>5. Writable'
  BY <1>1, <1>3 DEF Writable
<1>6. \A n \in saving : n # m /\ store'[n] = store[n]
  <2>1. \A n \in saving : n \in Masters
    BY <1>3
  <2> QED  BY <1>1, <1>2, <2>1
<1>7. \A n \in saving' : <<n, store'[n]>> \in scraps'
  BY <1>1, <1>4, <1>6
<1> QED
  BY <1>1, <1>3, <1>4, <1>5, <1>7

LEMMA TypeStep ==
    ASSUME StoreTypeOK, HealthTypeOK, [Next]_vars PROVE StoreTypeOK' /\ HealthTypeOK'
<1>1. MaxEvents \in Nat /\ FailureThreshold \in Nat \ {0} /\ ChecksPerMirror \in Nat
  BY MastersAssumption
<1>2. Loaded \in Store
  BY StoreTypes DEF Loaded, StoreTypeOK, Writable
<1>3. "primary" \in Masters /\ "standby" \in Masters
  BY DEF Masters
<1>4. ASSUME NEW m \in Masters, NEW s \in Store, Write(m, s), m \in up', up \subseteq up',
             mirror' \subseteq mirror, docker' = docker,
             heard' \in [Masters -> [Containers -> 0..MaxEvents]]
      PROVE  StoreTypeOK'
  <2>1. /\ store' \in [Masters -> Store] /\ Writable'
        /\ saving' \subseteq up' /\ \A n \in saving' : <<n, store'[n]>> \in scraps'
    BY <1>4, WriteTypes
  <2> QED  BY <1>4, <2>1 DEF StoreTypeOK
<1>5. ASSUME NEW c \in Containers, ContainerEvent(c) PROVE StoreTypeOK' /\ HealthTypeOK'
  <2>1. docker' \in [Containers -> 0..MaxEvents]
    BY <1>1, <1>5 DEF ContainerEvent, StoreTypeOK
  <2>2. UNCHANGED <<heard, up, promoted, failures, store, mirror, disk, saving, scraps>>
    BY <1>5 DEF ContainerEvent, file
  <2> QED  BY <2>1, <2>2 DEF StoreTypeOK, HealthTypeOK, Writable
<1>6. ASSUME NEW m \in Masters, NEW c \in Containers, HandleEvent(m, c)
      PROVE  StoreTypeOK' /\ HealthTypeOK'
  <2>1. /\ m \in up /\ heard[m][c] < docker[c] /\ heard' = [heard EXCEPT ![m][c] = @ + 1]
        /\ Write(m, Recorded(store[m], c, heard'[m][c]))
        /\ UNCHANGED <<docker, up, promoted, failures, mirror>>
    BY <1>6 DEF HandleEvent, Active
  <2>2. heard[m] \in [Containers -> 0..MaxEvents] /\ docker[c] \in 0..MaxEvents
    BY DEF StoreTypeOK
  <2>3. heard[m][c] + 1 \in 0..MaxEvents
    BY <1>1, <2>1, <2>2
  <2>4. heard' \in [Masters -> [Containers -> 0..MaxEvents]] /\ heard'[m][c] \in 0..MaxEvents
    BY <2>1, <2>3 DEF StoreTypeOK
  <2>5. Recorded(store[m], c, heard'[m][c]) \in Store
    BY <2>4, StoreTypes DEF StoreTypeOK
  <2> QED  BY <1>4, <2>1, <2>4, <2>5 DEF HealthTypeOK
<1>7. ASSUME NEW m \in Masters, NEW c \in Containers, MarkCritical(m, c)
      PROVE  StoreTypeOK' /\ HealthTypeOK'
  <2> DEFINE s == [store[m] EXCEPT !.critical = @ \cup {c}]
  <2>1. s \in Store
    BY DEF StoreTypeOK, Store
  <2>2. Write(m, s) /\ m \in up /\ UNCHANGED <<docker, heard, up, promoted, failures, mirror>>
    BY <1>7 DEF MarkCritical
  <2> HIDE DEF s
  <2> QED  BY <1>4, <2>1, <2>2 DEF StoreTypeOK, HealthTypeOK
<1>8. ASSUME NEW w \in Workers, WorkerHeartbeat(w) PROVE StoreTypeOK' /\ HealthTypeOK'
  <2> DEFINE s == [store["primary"] EXCEPT !.workers = @ \cup {w}]
  <2>1. s \in Store
    BY <1>3 DEF StoreTypeOK, Store
  <2>2. /\ Write("primary", s) /\ "primary" \in up
        /\ UNCHANGED <<docker, heard, up, promoted, failures, mirror>>
    BY <1>8 DEF WorkerHeartbeat
  <2> HIDE DEF s
  <2> QED  BY <1>3, <1>4, <2>1, <2>2 DEF StoreTypeOK, HealthTypeOK
<1>9. ASSUME NEW m \in Masters, SaveAgain(m) PROVE StoreTypeOK' /\ HealthTypeOK'
  <2>1. /\ Write(m, store[m]) /\ m \in up /\ store[m] \in Store
        /\ UNCHANGED <<docker, heard, up, promoted, failures, mirror>>
    BY <1>9 DEF SaveAgain, Active, StoreTypeOK
  <2> QED  BY <1>4, <2>1 DEF StoreTypeOK, HealthTypeOK
<1>10. ASSUME NEW m \in Masters, SaveEnds(m) PROVE StoreTypeOK' /\ HealthTypeOK'
  <2>1. /\ m \in saving /\ saving' = saving \ {m}
        /\ scraps' = IF saving' = {} THEN {} ELSE scraps
        /\ disk' = store[m] \/ Jumbled
        /\ UNCHANGED <<docker, heard, up, promoted, failures, store, mirror>>
    BY <1>10 DEF SaveEnds
  <2>2. Writable'
    BY <2>1, JumbleTypes DEF Writable, StoreTypeOK
  <2>3. \A n \in saving' : <<n, store'[n]>> \in scraps'
    BY <2>1 DEF StoreTypeOK
  <2> QED  BY <2>1, <2>2, <2>3 DEF StoreTypeOK, HealthTypeOK
<1>11. ASSUME NEW m \in Masters, Crash(m) PROVE StoreTypeOK' /\ HealthTypeOK'
  <2>1. StoreTypeOK'
    <3>1. /\ up' = up \ {m} /\ store' = [store EXCEPT ![m] = EmptyStore]
          /\ heard' = [heard EXCEPT ![m] = Nothing] /\ mirror' \subseteq mirror
          /\ saving' = saving \ {m} /\ scraps' = IF saving' = {} THEN {} ELSE scraps
          /\ UNCHANGED <<docker, disk>>
      BY <1>11 DEF Crash
    <3>2. store' \in [Masters -> Store] /\ heard' \in [Masters -> [Containers -> 0..MaxEvents]]
      BY <3>1, StoreTypes DEF StoreTypeOK
    <3>3. \A n \in saving' : n \in Masters /\ n # m /\ <<n, store[n]>> \in scraps
      BY <3>1 DEF StoreTypeOK, HealthTypeOK
    <3>4. \A n \in saving' : <<n, store'[n]>> \in scraps'
      BY <3>1, <3>3 DEF StoreTypeOK
    <3>5. saving' \subseteq up' /\ Writable'
      BY <3>1 DEF StoreTypeOK, Writable
    <3> QED  BY <3>1, <3>2, <3>4, <3>5 DEF StoreTypeOK
  <2>2. HealthTypeOK'
    <3>1. up' \subseteq Masters
      BY <1>11 DEF Crash, HealthTypeOK
    <3>2. CASE m = "standby"
      <4>1. promoted' = FALSE /\ failures' = 0 /\ mirror' = {}
        BY <1>11, <3>2 DEF Crash
      <4>2. failures' \in 0..FailureThreshold /\ failures' # FailureThreshold
        BY <1>1, <4>1
      <4> QED  BY <3>1, <4>1, <4>2 DEF HealthTypeOK
    <3>3. CASE m # "standby"
      BY <1>11, <3>1, <3>3 DEF Crash, HealthTypeOK
    <3> QED  BY <3>2, <3>3
  <2> QED  BY <2>1, <2>2
<1>12. ASSUME NEW m \in Masters, Listens(m), UNCHANGED docker
       PROVE  heard' \in [Masters -> [Containers -> 0..MaxEvents]]
  BY <1>12 DEF Listens, StoreTypeOK
<1>13. CASE StartPrimary
  <2>1. [Loaded EXCEPT !.workers = {}] \in Store
    BY <1>2 DEF Store
  <2>2. /\ up' = up \cup {"primary"} /\ Write("primary", [Loaded EXCEPT !.workers = {}])
        /\ Listens("primary") /\ UNCHANGED <<docker, promoted, failures, mirror>>
    BY <1>13 DEF StartPrimary
  <2>3. heard' \in [Masters -> [Containers -> 0..MaxEvents]]
    BY <1>3, <1>12, <2>2
  <2>4. StoreTypeOK'
    BY <1>3, <1>4, <2>1, <2>2, <2>3
  <2> QED  BY <1>3, <2>2, <2>4 DEF HealthTypeOK
<1>14. CASE StartStandby
  <2>1. /\ "standby" \notin up /\ up' = up \cup {"standby"}
        /\ store' = [store EXCEPT !["standby"] = Loaded]
        /\ UNCHANGED <<docker, heard, promoted, failures, mirror, disk, saving, scraps>>
    BY <1>14 DEF StartStandby, file
  <2>2. \A n \in saving : n \in Masters /\ n # "standby"
    BY <2>1 DEF StoreTypeOK, HealthTypeOK
  <2>3. store' \in [Masters -> Store] /\ \A n \in saving : store'[n] = store[n]
    BY <1>2, <1>3, <2>1, <2>2 DEF StoreTypeOK
  <2> QED  BY <1>3, <2>1, <2>3 DEF StoreTypeOK, HealthTypeOK, Writable
<1>15. ASSUME Check PROVE /\ \A a \in mirror' : a.of \in Store
                          /\ mirror' = {} \/ \E a \in [of: Store, checks: 0..ChecksPerMirror] :
                                                mirror' = {a}
  <2>1. CASE mirror = {}
    BY <1>15, <2>1 DEF Check
  <2>2. CASE mirror # {}
    <3>1. PICK a \in [of: Store, checks: 0..ChecksPerMirror] : mirror = {a}
      BY <2>2 DEF HealthTypeOK
    <3>2. a.checks < ChecksPerMirror /\ mirror' = {[a EXCEPT !.checks = @ + 1]}
      BY <1>15, <3>1 DEF Check
    <3>3. [a EXCEPT !.checks = @ + 1] \in [of: Store, checks: 0..ChecksPerMirror]
      BY <1>1, <3>2
    <3> QED  BY <3>2, <3>3
  <2> QED  BY <2>1, <2>2
<1>16. CASE HealthOk
  <2>1. Check /\ failures' = 0
        /\ UNCHANGED <<docker, heard, up, promoted, store, disk, saving, scraps>>
    BY <1>16 DEF HealthOk, file
  <2>2. ~promoted /\ "standby" \in up
    BY <2>1 DEF Check, Watching
  <2>3. 0 \in 0..FailureThreshold /\ 0 # FailureThreshold
    BY <1>1
  <2> QED  BY <1>15, <2>1, <2>2, <2>3 DEF StoreTypeOK, HealthTypeOK, Writable
<1>17. CASE HealthFails
  <2>1. Check /\ ~promoted /\ "standby" \in up /\ UNCHANGED <<docker, up, store, disk, saving, scraps>>
    BY <1>17 DEF HealthFails, CheckFails, Check, Watching, file
  <2>2. failures' = failures + 1 /\ promoted' = (failures' >= FailureThreshold)
    BY <1>17 DEF HealthFails
  <2>3. failures' \in 0..FailureThreshold
    BY <1>1, <2>1, <2>2 DEF HealthTypeOK
  <2>4. promoted' \in BOOLEAN /\ (promoted' <=> failures' = FailureThreshold)
    <3>1. (failures' >= FailureThreshold) <=> failures' = FailureThreshold
      BY <1>1, <2>3
    <3>2. CASE failures' >= FailureThreshold
      <4>1. promoted' = TRUE  BY <2>2, <3>2
      <4> QED  BY <3>1, <3>2, <4>1
    <3>3. CASE ~(failures' >= FailureThreshold)
      <4>1. (failures' >= FailureThreshold) = FALSE  BY <3>3
      <4>2. promoted' = FALSE  BY <2>2, <4>1, Zenon
      <4> QED  BY <3>1, <3>3, <4>2
    <3> QED  BY <3>2, <3>3
  <2>5. heard' \in [Masters -> [Containers -> 0..MaxEvents]]
    <3>1. CASE promoted'
      BY <1>3, <1>12, <1>17, <2>1, <3>1 DEF HealthFails
    <3>2. CASE ~promoted'
      BY <1>17, <3>2 DEF HealthFails, StoreTypeOK
    <3> QED  BY <3>1, <3>2
  <2> QED  BY <1>15, <2>1, <2>3, <2>4, <2>5 DEF StoreTypeOK, HealthTypeOK, Writable
<1>18. CASE MirrorAsk
  <2>1. [of |-> store["primary"], checks |-> 0] \in [of: Store, checks: 0..ChecksPerMirror]
    BY <1>1, <1>3 DEF StoreTypeOK
  <2> QED  BY <1>18, <2>1 DEF MirrorAsk, Watching, file, StoreTypeOK, HealthTypeOK, Writable
<1>19. CASE MirrorFails
  BY <1>19 DEF MirrorFails, file, StoreTypeOK, HealthTypeOK, Writable
<1>20. CASE MirrorApply
  <2>1. PICK a \in mirror : Write("standby", Upserted(store["standby"], a.of))
    BY <1>20 DEF MirrorApply
  <2>2. "standby" \in up
    BY <2>1 DEF HealthTypeOK
  <2>3. Upserted(store["standby"], a.of) \in Store
    BY <1>3, StoreTypes DEF StoreTypeOK
  <2>4. mirror' = {} /\ UNCHANGED <<docker, heard, up, promoted, failures>>
    BY <1>20 DEF MirrorApply
  <2>5. StoreTypeOK'
    BY <1>3, <1>4, <2>1, <2>2, <2>3, <2>4 DEF StoreTypeOK
  <2> QED  BY <2>4, <2>5 DEF HealthTypeOK
<1>21. CASE UNCHANGED vars
  BY <1>21 DEF vars, file, StoreTypeOK, HealthTypeOK, Writable
<1> QED
  BY <1>5, <1>6, <1>7, <1>8, <1>9, <1>10, <1>11, <1>13, <1>14, <1>16, <1>17, <1>18, <1>19,
     <1>20, <1>21
  DEF Next

LEMMA TypeInvariant == Spec => [](StoreTypeOK /\ HealthTypeOK)
<1>1. Init => StoreTypeOK /\ HealthTypeOK
  <2> SUFFICES ASSUME Init PROVE StoreTypeOK /\ HealthTypeOK
    OBVIOUS
  <2>1. StoreTypeOK
    BY StoreTypes, MastersAssumption DEF Init, StoreTypeOK, Writable
  <2>2. /\ failures \in 0..FailureThreshold /\ promoted = FALSE
        /\ failures # FailureThreshold
    BY MastersAssumption DEF Init
  <2> QED  BY <2>1, <2>2 DEF Init, HealthTypeOK, Masters
<1> QED
  BY <1>1, TypeStep, PTL DEF Spec

(***************************************************************************)
(* Type correctness, with the two facts about standby.py:105-112 that the  *)
(* types contain: the standby is promoted exactly at the threshold, and it *)
(* waits for one mirror request at a time.                                 *)
(***************************************************************************)
THEOREM TypeCorrect == Spec => []TypeOK
<1>1. ASSUME StoreTypeOK, HealthTypeOK PROVE TypeOK
  <2>1. mirror \subseteq [of: Store, checks: 0..ChecksPerMirror] /\ Cardinality(mirror) <= 1
    <3>1. CASE mirror = {}
      BY <3>1, FS_EmptySet
    <3>2. ASSUME NEW a \in [of: Store, checks: 0..ChecksPerMirror], mirror = {a}
          PROVE  /\ mirror \subseteq [of: Store, checks: 0..ChecksPerMirror]
                 /\ Cardinality(mirror) <= 1
      <4>1. Cardinality(mirror) = 1
        BY <3>2, FS_Singleton
      <4> QED  BY <3>2, <4>1
    <3> QED  BY <1>1, <3>1, <3>2 DEF HealthTypeOK
  <2> QED  BY <1>1, <2>1 DEF TypeOK, StoreTypeOK, HealthTypeOK, Writable
<1> QED
  BY <1>1, TypeInvariant, PTL

-----------------------------------------------------------------------------
(* A second master in charge.                                              *)

\* As long as nobody has crashed the primary is up, and every failure that the standby
\* has counted is a check that the primary was too slow to answer.
FailuresAreSlow == crashes = 0 => "primary" \in up /\ failures <= slow

RivalInv == {crashes, slow} \subseteq Nat /\ FailuresAreSlow

LEMMA RivalStep ==
    ASSUME HealthTypeOK, RivalInv, [Next]_vars PROVE RivalInv'
<1>1. crashes \in Nat /\ slow \in Nat /\ failures \in Nat
  BY MastersAssumption DEF RivalInv, HealthTypeOK
<1>2. ASSUME UNCHANGED <<failures, crashes>>, "primary" \in up => "primary" \in up',
             slow' \in {slow, slow + 1}
      PROVE  RivalInv'
  BY <1>1, <1>2 DEF RivalInv, FailuresAreSlow
<1>3. ASSUME NEW m \in Masters, Crash(m) PROVE RivalInv'
  BY <1>1, <1>3 DEF Crash, RivalInv, FailuresAreSlow
<1>4. CASE HealthOk
  BY <1>1, <1>4 DEF HealthOk, counters, RivalInv, FailuresAreSlow
<1>5. CASE HealthFails
  <2>1. failures' = failures + 1 /\ UNCHANGED <<up, crashes>>
        /\ (("primary" \notin up /\ slow' = slow) \/ ("primary" \in up /\ slow' = slow + 1))
    BY <1>5 DEF HealthFails, CheckFails
  <2> QED  BY <1>1, <2>1 DEF RivalInv, FailuresAreSlow
<1>6. CASE MirrorFails
  BY <1>2, <1>6 DEF MirrorFails
<1>7. CASE \/ \E c \in Containers :
                 ContainerEvent(c) \/ (\E m \in Masters : HandleEvent(m, c) \/ MarkCritical(m, c))
           \/ \E w \in Workers : WorkerHeartbeat(w)
           \/ \E m \in Masters : SaveAgain(m) \/ SaveEnds(m)
           \/ StartPrimary \/ StartStandby \/ MirrorAsk \/ MirrorApply
           \/ UNCHANGED vars
  BY <1>2, <1>7 DEF ContainerEvent, HandleEvent, MarkCritical, WorkerHeartbeat, SaveAgain,
                    SaveEnds, StartPrimary, StartStandby, MirrorAsk, MirrorApply, vars, counters
<1> QED
  BY <1>3, <1>4, <1>5, <1>6, <1>7 DEF Next

(***************************************************************************)
(* The standby (standby.py:96-112) is in charge beside a running primary   *)
(* only after a crash, or after as many unanswered checks as the threshold *)
(* asks for: no other order of checks, answers and promotions leads there. *)
(***************************************************************************)
THEOREM RivalsHaveCause == Spec => []RivalHasCause
<1>1. Init => RivalInv
  BY DEF Init, RivalInv, FailuresAreSlow, Masters
<1>2. ASSUME HealthTypeOK, RivalInv PROVE RivalHasCause
  <2>1. crashes \in Nat /\ slow \in Nat
    BY <1>2 DEF RivalInv
  <2>2. CASE promoted
    BY <1>2, <2>1, <2>2 DEF RivalInv, FailuresAreSlow, HealthTypeOK, RivalHasCause
  <2>3. CASE ~promoted
    <3>1. Active = {} \/ Active = {"primary"}
      BY <2>3 DEF Active
    <3>2. Cardinality(Active) \in {0, 1}
      BY <3>1, FS_EmptySet, FS_Singleton
    <3> QED  BY <3>2 DEF RivalHasCause
  <2> QED  BY <2>2, <2>3
<1> QED
  BY <1>1, <1>2, RivalStep, TypeInvariant, PTL DEF Spec

-----------------------------------------------------------------------------
(* The snapshot file.                                                      *)

\* As long as nobody has touched it since, the file that the primary saved is the
\* primary's store, or what that was when the primary ended.
FileIsCurrent ==
    writer = "primary" => disk = IF "primary" \in up THEN store["primary"] ELSE knew

FileInv == knew \in Store /\ FileIsCurrent

LEMMA FileStep ==
    ASSUME StoreTypeOK, HealthTypeOK, FileInv, [Next]_vars PROVE FileInv'
<1>1. knew \in Store /\ store \in [Masters -> Store] /\ saving \subseteq up
  BY DEF FileInv, StoreTypeOK
<1>2. "primary" \in Masters /\ "standby" \in Masters /\ "primary" # "standby"
  BY DEF Masters
<1>3. ASSUME writer' # "primary", knew' \in Store PROVE FileInv'
  BY <1>3 DEF FileInv, FileIsCurrent
<1>4. ASSUME NEW m, NEW s, Write(m, s), knew' \in {knew, EmptyStore} PROVE FileInv'
  BY <1>1, <1>3, <1>4, StoreTypes DEF Write
<1>5. ASSUME UNCHANGED <<disk, writer, knew>>, store'["primary"] = store["primary"],
             "primary" \in up' <=> "primary" \in up
      PROVE  FileInv'
  BY <1>5 DEF FileInv, FileIsCurrent
<1>6. CASE \/ \E c \in Containers : \E m \in Masters : HandleEvent(m, c) \/ MarkCritical(m, c)
           \/ \E w \in Workers : WorkerHeartbeat(w)
           \/ \E m \in Masters : SaveAgain(m)
           \/ StartPrimary \/ MirrorApply
  BY <1>4, <1>6 DEF HandleEvent, MarkCritical, WorkerHeartbeat, SaveAgain, StartPrimary,
                    MirrorApply
<1>7. ASSUME NEW m \in Masters, SaveEnds(m) PROVE FileInv'
  <2>1. m \in up /\ UNCHANGED <<up, store, knew>>
    BY <1>1, <1>7 DEF SaveEnds
  <2>2. CASE writer' = "primary"
    <3>1. m = "primary" /\ disk' = store[m]
      BY <1>7, <2>2 DEF SaveEnds
    <3> QED  BY <1>1, <2>1, <3>1 DEF FileInv, FileIsCurrent
  <2>3. CASE writer' # "primary"
    BY <1>1, <1>3, <2>1, <2>3
  <2> QED  BY <2>2, <2>3
<1>8. ASSUME NEW m \in Masters, Crash(m) PROVE FileInv'
  <2>1. UNCHANGED <<disk, writer>> /\ m \in up /\ up' = up \ {m}
    BY <1>8 DEF Crash
  <2>2. CASE m = "primary"
    BY <1>1, <1>8, <2>1, <2>2 DEF Crash, FileInv, FileIsCurrent
  <2>3. CASE m = "standby"
    BY <1>1, <1>2, <1>5, <1>8, <2>1, <2>3 DEF Crash
  <2> QED  BY <2>2, <2>3 DEF Masters
<1>9. CASE StartStandby
  BY <1>1, <1>2, <1>5, <1>9 DEF StartStandby, file
<1>10. CASE \/ \E c \in Containers : ContainerEvent(c)
            \/ HealthOk \/ HealthFails \/ MirrorAsk \/ MirrorFails \/ UNCHANGED vars
  BY <1>5, <1>10 DEF ContainerEvent, HealthOk, HealthFails, CheckFails, MirrorAsk, MirrorFails,
                     vars, file
<1> QED
  BY <1>6, <1>7, <1>8, <1>9, <1>10 DEF Next

(***************************************************************************)
(* load_from_disk brings back all that the primary knew, but for the       *)
(* workers (state_store.py:32-61, 172-229), if the last save was one of    *)
(* the primary's, finished, and no other save was under way at its side or *)
(* began after it: emptying the file and writing it are two steps, and the *)
(* other master may take its own between them.                             *)
(***************************************************************************)
THEOREM RestartsKeepRecords == Spec => SurvivesRestart
<1> DEFINE Kept == writer = "primary" /\ StartPrimary
                      => store'["primary"] = [knew EXCEPT !.workers = {}]
<1>1. Init => FileInv
  BY StoreTypes DEF Init, FileInv, FileIsCurrent, Masters
<1>2. ASSUME StoreTypeOK, FileInv PROVE Kept
  <2> SUFFICES ASSUME writer = "primary", StartPrimary
               PROVE  store'["primary"] = [knew EXCEPT !.workers = {}]
    OBVIOUS
  <2>1. disk = knew /\ knew \in Store
    BY <1>2 DEF StartPrimary, FileInv, FileIsCurrent
  <2> QED  BY <1>2, <2>1, MastersAssumption DEF StartPrimary, Write, Loaded, StoreTypeOK, Masters
<1> QED
  BY <1>1, <1>2, FileStep, TypeInvariant, PTL DEF Spec, SurvivesRestart
=============================================================================
