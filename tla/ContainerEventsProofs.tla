----------------------- MODULE ContainerEventsProofs ------------------------
(***************************************************************************)
(* Proofs about the containers of one master, for every number of          *)
(* containers, threads, starts, deaths, stops and refused Docker calls:    *)
(* a started replica is never left without protection; the stores and the  *)
(* thread pool keep their shapes; a death has one failover; a running      *)
(* container has its log watched.                                          *)
(***************************************************************************)
EXTENDS ContainerEvents, FiniteSetTheorems, SequenceTheorems, TLAPS

(***************************************************************************)
(* The inductive invariant.  A failover past create() has a replica of its *)
(* own, which Docker knows and which has not run before start(); a replica *)
(* that Docker does not know has never run.                                *)
(***************************************************************************)
DockerOK ==
    /\ docker \in [Containers -> {"none", "created", "running", "exited"}]
    /\ run \in [Containers -> Nat]
    /\ \A r \in Containers : r > Originals /\ docker[r] = "none" => run[r] = 0

\* f is a record of these five fields.
Shaped(f) == f \in [of: {f.of}, run: {f.run}, replica: {f.replica}, pc: {f.pc},
                    polls: {f.polls}]

FailoversOK ==
    \A f \in failovers :
        /\ Shaped(f)
        /\ f.pc = "create" => f.replica = None
        /\ f.pc # "create" => /\ f.replica \in Containers /\ f.replica > Originals
                              /\ docker[f.replica] # "none"
        /\ f.pc = "start" => run[f.replica] = 0

OwnReplica ==
    \A f, g \in failovers : f.replica = g.replica /\ f.replica # None => f = g

ProtectionInv == DockerOK /\ FailoversOK /\ OwnReplica /\ ReplicaProtected

-----------------------------------------------------------------------------
\* What the users and Docker do to the containers concerns no failover that starts its
\* replica: a replica is none of the containers that users start.
LEMMA UsersSpareReplicas ==
    ASSUME ProtectionInv, NEW c \in Containers,
           UserStarts(c) \/ ContainerDies(c) \/ UserStops(c)
    PROVE  ProtectionInv'
<1>1. Originals \in Nat /\ MaxContainers \in Nat
  BY ContainersAssumption
<1>2. UNCHANGED <<failovers, critical, abandoned>>
  BY DEF UserStarts, ContainerDies, UserStops, storeVars
<1>3. DockerOK'
  <2>1. CASE UserStarts(c)
    BY <1>1, <2>1 DEF ProtectionInv, DockerOK, UserStarts, Containers
  <2>2. CASE ContainerDies(c)   BY <2>2 DEF ProtectionInv, DockerOK, ContainerDies
  <2>3. CASE UserStops(c)   BY <2>3 DEF ProtectionInv, DockerOK, UserStops
  <2> QED  BY <2>1, <2>2, <2>3
<1>4. \A r \in Containers : r > Originals => run'[r] = run[r]
  BY <1>1 DEF ProtectionInv, DockerOK, UserStarts, ContainerDies, UserStops, Containers
<1>5. \A r \in Containers : docker[r] # "none" => docker'[r] # "none"
  BY DEF ProtectionInv, DockerOK, UserStarts, ContainerDies, UserStops
<1>6. FailoversOK' /\ OwnReplica'
  BY <1>2, <1>4, <1>5 DEF ProtectionInv, FailoversOK, OwnReplica
<1>7. ReplicaProtected'
  BY <1>2, <1>4 DEF ProtectionInv, ReplicaProtected
<1> QED
  BY <1>3, <1>6, <1>7 DEF ProtectionInv

\* A failover that only goes on with its replica.
LEMMA FailoverGoesOn ==
    ASSUME ProtectionInv, NEW f \in failovers, f.pc \notin {"create", "start"}, NEW g,
           Shaped(g), g.replica = f.replica, g.pc \notin {"create", "start"},
           failovers' = Replaced(failovers, f, g),
           UNCHANGED <<docker, run, critical, abandoned>>
    PROVE  ProtectionInv'
<1>1. DockerOK'
  BY DEF ProtectionInv, DockerOK
<1>2. FailoversOK'
  BY DEF ProtectionInv, FailoversOK, Replaced
<1>3. OwnReplica'
  BY DEF ProtectionInv, OwnReplica, Replaced
<1>4. ReplicaProtected'
  BY DEF ProtectionInv, ReplicaProtected, Replaced
<1> QED
  BY <1>1, <1>2, <1>3, <1>4 DEF ProtectionInv

\* A failover may end when its replica has not run, is critical, or is counted as left.
LEMMA FailoverEnds ==
    ASSUME ProtectionInv, NEW f \in failovers, failovers' = failovers \ {f},
           critical \subseteq critical', abandoned \subseteq abandoned', UNCHANGED <<docker, run>>,
           \/ f.pc \in {"create", "start"}
           \/ f.replica \in critical' \cup abandoned'
    PROVE  ProtectionInv'
<1>1. DockerOK' /\ FailoversOK' /\ OwnReplica'
  BY DEF ProtectionInv, DockerOK, FailoversOK, OwnReplica
<1>2. ASSUME NEW r \in Containers, r > Originals, run[r] > 0, r = f.replica
      PROVE  r \in critical' \cup abandoned'
  BY <1>2, ContainersAssumption DEF ProtectionInv, FailoversOK, DockerOK, None, Containers
<1>3. ReplicaProtected'
  BY <1>2 DEF ProtectionInv, ReplicaProtected
<1> QED
  BY <1>1, <1>3 DEF ProtectionInv

\* A replica is created under a fresh id, so no other failover has it.
LEMMA CreateProtects ==
    ASSUME ProtectionInv, NEW f \in failovers, Create(f) PROVE ProtectionInv'
<1>1. PICK r \in Fresh :
         /\ docker' = [docker EXCEPT ![r] = "created"]
         /\ failovers' = Replaced(failovers, f, [f EXCEPT !.pc = "start", !.replica = r])
  BY DEF Create
<1> DEFINE g == [f EXCEPT !.pc = "start", !.replica = r]
<1>2. /\ r \in Containers /\ r > Originals /\ docker[r] = "none" /\ r # None
      /\ None \notin Containers /\ f.replica = None /\ UNCHANGED <<run, critical, abandoned>>
  BY ContainersAssumption
  DEF Fresh, Create, ProtectionInv, FailoversOK, storeVars, None, Containers
<1>3. Shaped(g) /\ g.pc = "start" /\ g.replica = r
  BY DEF ProtectionInv, FailoversOK, Shaped
<1>4. failovers' = (failovers \ {f}) \cup {g}
  BY <1>1 DEF Replaced
<1> HIDE DEF g
<1>5. DockerOK' /\ run[r] = 0
      /\ \A q \in Containers : docker[q] # "none" => docker'[q] # "none"
  BY <1>1, <1>2 DEF ProtectionInv, DockerOK
<1>6. docker'[r] # "none" /\ \A h \in failovers : h.replica # r
  BY <1>1, <1>2 DEF ProtectionInv, DockerOK, FailoversOK
<1>7. FailoversOK'
  BY <1>2, <1>3, <1>4, <1>5, <1>6 DEF ProtectionInv, FailoversOK
<1>8. OwnReplica'
  BY <1>3, <1>4, <1>6 DEF ProtectionInv, OwnReplica
<1>9. ReplicaProtected'
  BY <1>2, <1>3, <1>4 DEF ProtectionInv, ReplicaProtected
<1> QED
  BY <1>5, <1>7, <1>8, <1>9 DEF ProtectionInv

\* From its start on the replica is protected by the failover that started it.
LEMMA StartProtects ==
    ASSUME ProtectionInv, NEW f \in failovers, StartReplica(f) PROVE ProtectionInv'
<1> DEFINE r == f.replica
           g == [f EXCEPT !.pc = "sleep"]
<1>1. /\ r \in Containers /\ r > Originals /\ r # None
      /\ docker' = [docker EXCEPT ![r] = "running"] /\ run' = [run EXCEPT ![r] = @ + 1]
      /\ critical' = critical /\ abandoned' = abandoned
  BY ContainersAssumption
  DEF StartReplica, ProtectionInv, FailoversOK, storeVars, None, Containers
<1>2. Shaped(g) /\ g.pc = "sleep" /\ g.replica = r
  BY DEF ProtectionInv, FailoversOK, Shaped
<1>3. failovers' = (failovers \ {f}) \cup {g}
  BY DEF StartReplica, Replaced
<1>4. \A h \in failovers : h.replica = r => h = f
  BY <1>1 DEF ProtectionInv, OwnReplica
<1> HIDE DEF g
<1>5. DockerOK' /\ docker'[r] = "running"
      /\ \A q \in Containers : /\ docker[q] # "none" => docker'[q] # "none"
                               /\ q # r => run'[q] = run[q]
  BY <1>1 DEF ProtectionInv, DockerOK
<1>6. FailoversOK'
  BY <1>1, <1>2, <1>3, <1>4, <1>5 DEF ProtectionInv, FailoversOK
<1>7. OwnReplica'
  BY <1>2, <1>3 DEF ProtectionInv, OwnReplica
<1>8. ReplicaProtected'
  BY <1>1, <1>2, <1>3, <1>5 DEF ProtectionInv, ReplicaProtected
<1> QED
  BY <1>5, <1>6, <1>7, <1>8 DEF ProtectionInv

LEMMA ProtectionStep == ProtectionInv /\ [Next]_vars => ProtectionInv'
<1> SUFFICES ASSUME ProtectionInv, [Next]_vars PROVE ProtectionInv'
  OBVIOUS
<1>1. ASSUME UNCHANGED <<docker, run, failovers>>, critical \subseteq critical',
             abandoned \subseteq abandoned'
      PROVE  ProtectionInv'
  BY <1>1 DEF ProtectionInv, DockerOK, FailoversOK, OwnReplica, ReplicaProtected
<1>2. CASE \E c \in Containers : UserStarts(c) \/ ContainerDies(c) \/ UserStops(c)
  BY <1>2, UsersSpareReplicas
<1>3. CASE \/ \E c \in Containers : UserSignals(c) \/ MarkCritical(c)
           \/ Disconnect \/ Relisten \/ HandleStart \/ HandleStop
           \/ \E m \in monitors : MonitorStep(m)
           \/ \E j \in pool.busy : LogLine(j) \/ StreamDrops(j) \/ StreamEnds(j)
           \/ UNCHANGED vars
  BY <1>1, <1>3
  DEF UserSignals, MarkCritical, Disconnect, Relisten, HandleStart, HandleStop, MonitorStep,
      Attach, AttachFails, NeverAttached, MonitorEnds, LogLine, StreamDrops, StreamEnds, vars, dockerVars, storeVars
<1>4. CASE HandleDie
  <2> DEFINE c == Head(events).of
             g == [of |-> c, run |-> Head(events).run, replica |-> None, pc |-> "create",
                   polls |-> 0]
  <2>1. UNCHANGED <<docker, run, critical, abandoned>> /\ failovers' \in {failovers, failovers \cup {g}}
    BY <1>4 DEF HandleDie, dockerVars
  <2>2. Shaped(g) /\ g.replica = None /\ g.pc = "create"
    BY DEF Shaped
  <2> HIDE DEF g
  <2>3. FailoversOK'
    BY <2>1, <2>2 DEF ProtectionInv, FailoversOK
  <2>4. OwnReplica'
    BY <2>1, <2>2 DEF ProtectionInv, OwnReplica
  <2>5. DockerOK' /\ ReplicaProtected'
    BY <2>1 DEF ProtectionInv, DockerOK, ReplicaProtected
  <2> QED  BY <2>3, <2>4, <2>5 DEF ProtectionInv
<1>5. ASSUME NEW f \in failovers, FailoverStep(f) PROVE ProtectionInv'
  <2>1. CASE CreateFails(f) \/ StartFails(f)
    BY <2>1, FailoverEnds DEF CreateFails, StartFails, dockerVars, storeVars
  <2>2. CASE Create(f)
    BY <2>2, CreateProtects
  <2>3. CASE StartReplica(f)
    BY <2>3, StartProtects
  <2>4. Shaped(f)
    BY DEF ProtectionInv, FailoversOK
  <2>5. CASE Poll(f)
    <3> DEFINE g == [f EXCEPT !.pc = "reload", !.polls = @ + 1]
    <3>1. Shaped(g) /\ g.replica = f.replica /\ g.pc = "reload"
      BY <2>4 DEF Shaped
    <3>2. f.pc = "sleep" /\ failovers' = Replaced(failovers, f, g)
          /\ UNCHANGED <<docker, run, critical, abandoned>>
      BY <2>5 DEF Poll, dockerVars, storeVars
    <3> HIDE DEF g
    <3> QED  BY <3>1, <3>2, FailoverGoesOn
  <2>6. CASE Reloaded(f) \/ ReloadFails(f)
    <3>1. PICK pc \in {"healthy", "sleep", "timeout"} :
             failovers' = Replaced(failovers, f, [f EXCEPT !.pc = pc])
      BY <2>6 DEF Reloaded, ReloadFails, Unconfirmed
    <3> DEFINE g == [f EXCEPT !.pc = pc]
    <3>2. Shaped(g) /\ g.replica = f.replica /\ g.pc = pc
      BY <2>4 DEF Shaped
    <3>3. f.pc = "reload" /\ UNCHANGED <<docker, run, critical, abandoned>>
      BY <2>6 DEF Reloaded, ReloadFails, dockerVars, storeVars
    <3> HIDE DEF g
    <3>4. failovers' = Replaced(failovers, f, g)
      BY <3>1 DEF g
    <3> QED  BY <3>2, <3>3, <3>4, FailoverGoesOn
  <2>8. CASE ReloadBreaks(f)
    BY <2>8, FailoverEnds DEF ReloadBreaks, dockerVars
  <2>7. CASE Recovered(f)
    BY <2>7, FailoverEnds DEF Recovered, dockerVars
  <2> QED  BY <1>5, <2>1, <2>2, <2>3, <2>5, <2>6, <2>7, <2>8 DEF FailoverStep
<1> QED
  BY <1>2, <1>3, <1>4, <1>5 DEF Next, HandleEvent

(***************************************************************************)
(* resilience.py:46-117: a replica that was started has a failover that    *)
(* still has to mark it, or is critical -- whatever the health checks say, *)
(* which Docker calls are refused and what becomes of the replica.         *)
(***************************************************************************)
THEOREM ReplicasAreProtected == Spec => []ReplicaProtected
<1>1. Init => ProtectionInv
  BY DEF Init, ProtectionInv, DockerOK, FailoversOK, OwnReplica, ReplicaProtected
<1>2. ProtectionInv => ReplicaProtected
  BY DEF ProtectionInv
<1> QED
  BY <1>1, <1>2, ProtectionStep, PTL DEF Spec

-----------------------------------------------------------------------------
(* Sequences: events and jobs that wait.                                   *)

LEMMA Removed ==
    ASSUME NEW S, NEW L \in Seq(S), NEW p \in 1..Len(L)
    PROVE  /\ RemoveAt(L, p) \in Seq(S) /\ Len(RemoveAt(L, p)) = Len(L) - 1
           /\ \A i \in 1..(Len(L) - 1) : RemoveAt(L, p)[i] = IF i < p THEN L[i] ELSE L[i + 1]
<1> DEFINE A == SubSeq(L, 1, p - 1)
           B == SubSeq(L, p + 1, Len(L))
<1>1. A \in Seq(S) /\ Len(A) = p - 1 /\ \A i \in 1..(p - 1) : A[i] = L[i]   OBVIOUS
<1>2. B \in Seq(S) /\ Len(B) = Len(L) - p /\ \A i \in 1..(Len(L) - p) : B[i] = L[p + i]
  OBVIOUS
<1>3. RemoveAt(L, p) = A \o B   BY DEF RemoveAt
<1> HIDE DEF A, B
<1>4. /\ A \o B \in Seq(S) /\ Len(A \o B) = Len(L) - 1
      /\ \A i \in 1..(Len(L) - 1) : (A \o B)[i] = IF i <= p - 1 THEN A[i] ELSE B[i - (p - 1)]
  <2>1. p - 1 \in Nat /\ Len(L) - p \in Nat /\ (p - 1) + (Len(L) - p) = Len(L) - 1   OBVIOUS
  <2>2. /\ A \o B \in Seq(S) /\ Len(A \o B) = Len(A) + Len(B)
        /\ \A i \in 1..(Len(A) + Len(B)) : (A \o B)[i] = IF i <= Len(A) THEN A[i] ELSE B[i - Len(A)]
    BY <1>1, <1>2, ConcatProperties
  <2> QED  BY <1>1, <1>2, <2>1, <2>2
<1>5. ASSUME NEW i \in 1..(Len(L) - 1)
      PROVE  (A \o B)[i] = IF i < p THEN L[i] ELSE L[i + 1]
  <2>1. CASE i < p  BY <2>1, <1>1, <1>4
  <2>2. CASE ~ (i < p)
    <3>1. i - (p - 1) \in 1..(Len(L) - p) /\ p + (i - (p - 1)) = i + 1   BY <2>2
    <3> QED  BY <2>2, <3>1, <1>2, <1>4
  <2> QED  BY <2>1, <2>2
<1> QED  BY <1>3, <1>4, <1>5

-----------------------------------------------------------------------------
(* The thread pool: no job is in it twice, no more threads are busy than   *)
(* there are, and none is idle while a job waits.                          *)

Calls == {"create", "start", "reload"}
AnyJob == [kind: {"listen", "next"} \cup Calls, of: Nat, no: Nat, run: Nat]

Pooled(P) == P.busy \cup {P.backlog[i] : i \in 1..Len(P.backlog)}
Single(P) ==
    /\ P \in [busy: SUBSET AnyJob, backlog: Seq(AnyJob)]
    /\ IsFiniteSet(P.busy) /\ Cardinality(P.busy) <= PoolSize
    /\ \A i, k \in 1..Len(P.backlog) : P.backlog[i] = P.backlog[k] => i = k
    /\ \A i \in 1..Len(P.backlog) : P.backlog[i] \notin P.busy
Sound(P) == Single(P) /\ (P.backlog # << >> => Cardinality(P.busy) = PoolSize)

\* One thread is free at most while jobs wait, and takes the first of them.
LEMMA Admitted ==
    ASSUME NEW P, Single(P), Len(P.backlog) >= 2 => Cardinality(P.busy) + 1 >= PoolSize
    PROVE  Sound(Admit(P)) /\ Pooled(Admit(P)) = Pooled(P) /\ P.busy \subseteq Admit(P).busy
<1>1. /\ P.backlog \in Seq(AnyJob) /\ Len(P.backlog) \in Nat /\ Cardinality(P.busy) \in Nat
      /\ PoolSize \in Nat /\ P.busy \subseteq AnyJob
  BY FS_CardinalityType, ContainersAssumption DEF Single
<1>2. CASE P.backlog = << >> \/ ~ (Cardinality(P.busy) < PoolSize)
  <2>1. Admit(P) = P   BY <1>2 DEF Admit
  <2>2. P.backlog # << >> => Cardinality(P.busy) = PoolSize   BY <1>1, <1>2 DEF Single
  <2> QED  BY <2>1, <2>2 DEF Sound
<1>3. CASE P.backlog # << >> /\ Cardinality(P.busy) < PoolSize
  <2> DEFINE h == P.backlog[1]
             L == Tail(P.backlog)
             Q == [busy |-> P.busy \cup {h}, backlog |-> L]
  <2>1. /\ Len(P.backlog) >= 1 /\ Head(P.backlog) = h /\ L \in Seq(AnyJob)
        /\ Len(L) = Len(P.backlog) - 1 /\ h \in AnyJob
    BY <1>1, <1>3
  <2>2. \A i \in 1..Len(L) : L[i] = P.backlog[i + 1] /\ i + 1 \in 1..Len(P.backlog) /\ i + 1 # 1
    BY <1>1, <2>1
  <2>3. Admit(P) = Q   BY <1>3, <2>1 DEF Admit
  <2>4. h \notin P.busy   BY <1>1, <2>1 DEF Single
  <2>5. IsFiniteSet(P.busy \cup {h}) /\ Cardinality(P.busy \cup {h}) = Cardinality(P.busy) + 1
    BY <2>4, FS_AddElement DEF Single
  <2> HIDE DEF h, L
  <2>6. Q \in [busy: SUBSET AnyJob, backlog: Seq(AnyJob)]   BY <1>1, <2>1
  <2>7. \A i, k \in 1..Len(L) : L[i] = L[k] => i = k
    BY <1>1, <2>1, <2>2 DEF Single
  <2>8. \A i \in 1..Len(L) : L[i] \notin P.busy \cup {h}
    <3> SUFFICES ASSUME NEW i \in 1..Len(L) PROVE L[i] \notin P.busy /\ L[i] # h
      OBVIOUS
    <3>1. L[i] \notin P.busy   BY <2>2 DEF Single
    <3>2. 1 \in 1..Len(P.backlog)   BY <1>1, <2>1
    <3>3. L[i] # h   BY <2>2, <3>2 DEF Single, h
    <3> QED  BY <3>1, <3>3
  <2>9. L # << >> => Cardinality(P.busy) + 1 = PoolSize
    <3>1. L # << >> => Len(L) >= 1   BY <2>1
    <3> QED  BY <1>1, <1>3, <2>1, <3>1
  <2>10. Sound(Q)
    BY <1>1, <1>3, <2>5, <2>6, <2>7, <2>8, <2>9 DEF Sound, Single
  <2>11. {P.backlog[i] : i \in 1..Len(P.backlog)} = {h} \cup {L[i] : i \in 1..Len(L)}
    <3>1. \A i \in 1..Len(P.backlog) : i # 1 => i - 1 \in 1..Len(L) /\ (i - 1) + 1 = i
      BY <1>1, <2>1
    <3>2. 1 \in 1..Len(P.backlog)   BY <1>1, <2>1
    <3>3. ASSUME NEW i \in 1..Len(P.backlog)
          PROVE  P.backlog[i] \in {h} \cup {L[k] : k \in 1..Len(L)}
      <4>1. CASE i = 1   BY <4>1 DEF h
      <4>2. CASE i # 1
        <5>1. i - 1 \in 1..Len(L) /\ L[i - 1] = P.backlog[i]   BY <2>2, <3>1, <4>2
        <5> QED  BY <5>1
      <4> QED  BY <4>1, <4>2
    <3>4. {h} \cup {L[i] : i \in 1..Len(L)} \subseteq {P.backlog[i] : i \in 1..Len(P.backlog)}
      BY <2>2, <3>2 DEF h
    <3> QED  BY <3>3, <3>4
  <2>12. Pooled(Q) = Pooled(P)   BY <2>11 DEF Pooled
  <2> QED  BY <2>3, <2>10, <2>12
<1> QED  BY <1>2, <1>3

\* run_in_executor: the job takes a free thread or waits.
LEMMA Submitted ==
    ASSUME NEW P, Sound(P), NEW j \in AnyJob, j \notin Pooled(P)
    PROVE  /\ Sound(Submit(P, j)) /\ Pooled(Submit(P, j)) = Pooled(P) \cup {j}
           /\ P.busy \subseteq Submit(P, j).busy
<1> DEFINE B == P.backlog
           A == Append(B, j)
           Q == [P EXCEPT !.backlog = A]
<1>1. /\ B \in Seq(AnyJob) /\ Len(B) \in Nat /\ P = [busy |-> P.busy, backlog |-> B]
  BY DEF Sound, Single
<1>2. /\ A \in Seq(AnyJob) /\ Len(A) = Len(B) + 1
      /\ \A i \in 1..Len(B) : A[i] = B[i]
      /\ A[Len(B) + 1] = j
  BY <1>1
<1>3. Q = [busy |-> P.busy, backlog |-> A] /\ Q.busy = P.busy /\ Q.backlog = A
  BY <1>1
<1>4. Submit(P, j) = Admit(Q)   BY DEF Submit
<1>5. \A i \in 1..Len(A) : i \in 1..Len(B) \/ i = Len(B) + 1   BY <1>1, <1>2
<1>6. /\ \A i \in 1..Len(B) : B[i] # j /\ B[i] \notin P.busy
      /\ j \notin P.busy
      /\ \A i, k \in 1..Len(B) : B[i] = B[k] => i = k
      /\ P.busy \subseteq AnyJob /\ IsFiniteSet(P.busy) /\ Cardinality(P.busy) <= PoolSize
      /\ B # << >> => Cardinality(P.busy) = PoolSize
  BY DEF Pooled, Sound, Single
<1> HIDE DEF A, B, Q
<1>7. Q \in [busy: SUBSET AnyJob, backlog: Seq(AnyJob)]   BY <1>2, <1>3, <1>6
<1>8. \A i, k \in 1..Len(A) : A[i] = A[k] => i = k
  BY <1>2, <1>5, <1>6
<1>9. \A i \in 1..Len(A) : A[i] \notin P.busy
  BY <1>2, <1>5, <1>6
<1>10. Single(Q)   BY <1>3, <1>6, <1>7, <1>8, <1>9 DEF Single
<1>11. Len(A) >= 2 => Cardinality(P.busy) + 1 >= PoolSize
  <2>1. Len(A) >= 2 => B # << >>   BY <1>1, <1>2
  <2> QED  BY <1>6, <2>1, ContainersAssumption
<1>12. Pooled(Q) = Pooled(P) \cup {j}
  <2>1. {A[i] : i \in 1..Len(A)} = {B[i] : i \in 1..Len(B)} \cup {j}
    <3>1. Len(B) + 1 \in 1..Len(A) /\ \A i \in 1..Len(B) : i \in 1..Len(A)   BY <1>1, <1>2
    <3> QED  BY <1>2, <1>5, <3>1
  <2> QED  BY <1>3, <2>1 DEF Pooled, B
<1>13. Sound(Admit(Q)) /\ Pooled(Admit(Q)) = Pooled(Q) /\ Q.busy \subseteq Admit(Q).busy
  BY <1>3, <1>10, <1>11, Admitted
<1> QED  BY <1>3, <1>4, <1>12, <1>13

\* A job that is over gives its thread to the first that waits.
LEMMA Finished ==
    ASSUME NEW P, Sound(P), NEW j \in P.busy
    PROVE  /\ Sound(Done(P, j)) /\ Pooled(Done(P, j)) = Pooled(P) \ {j}
           /\ P.busy \ {j} \subseteq Done(P, j).busy
<1> DEFINE Q == [P EXCEPT !.busy = @ \ {j}]
<1>1. P = [busy |-> P.busy, backlog |-> P.backlog]   BY DEF Sound, Single
<1>2. Q = [busy |-> P.busy \ {j}, backlog |-> P.backlog]   BY <1>1
<1>3. Done(P, j) = Admit(Q)   BY DEF Done
<1>4. Q.busy = P.busy \ {j} /\ Q.backlog = P.backlog   BY <1>2
<1>5. /\ IsFiniteSet(P.busy \ {j}) /\ Cardinality(P.busy \ {j}) = Cardinality(P.busy) - 1
      /\ Cardinality(P.busy) \in Nat /\ PoolSize \in Nat
  BY FS_RemoveElement, FS_CardinalityType, ContainersAssumption DEF Sound, Single
<1> HIDE DEF Q
<1>6. Single(Q)   BY <1>2, <1>4, <1>5 DEF Sound, Single
<1>7. Len(P.backlog) >= 2 => Cardinality(P.busy \ {j}) + 1 >= PoolSize
  <2>1. Len(P.backlog) >= 2 => P.backlog # << >>   BY DEF Sound, Single
  <2> QED  BY <1>5, <2>1 DEF Sound
<1>8. Sound(Admit(Q)) /\ Pooled(Admit(Q)) = Pooled(Q) /\ Q.busy \subseteq Admit(Q).busy
  BY <1>4, <1>6, <1>7, Admitted
<1>9. Pooled(Q) = Pooled(P) \ {j}
  BY <1>4 DEF Pooled, Sound, Single
<1> QED  BY <1>3, <1>4, <1>8, <1>9

\* A future that is cancelled before it has a thread is out of the queue.
LEMMA Withdrawn ==
    ASSUME Sound(pool), NEW c
    PROVE  /\ Sound(Unqueued(c)) /\ Pooled(Unqueued(c)) \subseteq Pooled(pool)
           /\ Unqueued(c).busy = pool.busy
<1>1. CASE Waiting(c) = {}   BY <1>1 DEF Unqueued
<1>2. CASE Waiting(c) # {}
  <2> DEFINE B == pool.backlog
             p == CHOOSE i \in Waiting(c) : TRUE
             A == RemoveAt(B, p)
             Q == [pool EXCEPT !.backlog = A]
  <2>1. B \in Seq(AnyJob) /\ DOMAIN B = 1..Len(B) /\ Len(B) \in Nat
        /\ pool = [busy |-> pool.busy, backlog |-> B]
    BY DEF Sound, Single
  <2>2. p \in 1..Len(B)   BY <1>2, <2>1 DEF Waiting
  <2>3. Unqueued(c) = Q   BY <1>2 DEF Unqueued
  <2> HIDE DEF p
  <2>4. /\ A \in Seq(AnyJob) /\ Len(A) = Len(B) - 1
        /\ \A i \in 1..(Len(B) - 1) : A[i] = IF i < p THEN B[i] ELSE B[i + 1]
    BY <2>1, <2>2, Removed
  <2>5. Q = [busy |-> pool.busy, backlog |-> A] /\ Q.busy = pool.busy /\ Q.backlog = A
    BY <2>1
  <2> HIDE DEF A, Q
  <2> DEFINE o(i) == IF i < p THEN i ELSE i + 1
  <2>6. \A i \in 1..Len(A) : A[i] = B[o(i)] /\ o(i) \in 1..Len(B)
    BY <2>1, <2>2, <2>4
  <2>7. \A i, k \in 1..Len(A) : o(i) = o(k) => i = k
    BY <2>1, <2>2, <2>4
  <2>8. B # << >>   BY <2>1, <2>2
  <2> HIDE DEF o, B
  <2>9. /\ \A i \in 1..Len(B) : B[i] \notin pool.busy
        /\ \A i, k \in 1..Len(B) : B[i] = B[k] => i = k
        /\ pool.busy \subseteq AnyJob /\ IsFiniteSet(pool.busy) /\ Cardinality(pool.busy) = PoolSize
    BY <2>8, ContainersAssumption DEF Sound, Single, B
  <2>10. \A i, k \in 1..Len(A) : A[i] = A[k] => i = k   BY <2>6, <2>7, <2>9
  <2>11. \A i \in 1..Len(A) : A[i] \notin pool.busy   BY <2>6, <2>9
  <2>12. Q \in [busy: SUBSET AnyJob, backlog: Seq(AnyJob)]   BY <2>4, <2>5, <2>9
  <2>13. Sound(Q)
    BY <2>5, <2>9, <2>10, <2>11, <2>12, ContainersAssumption DEF Sound, Single
  <2>14. Pooled(Q) \subseteq Pooled(pool)   BY <2>5, <2>6 DEF Pooled, B
  <2> QED  BY <2>3, <2>5, <2>13, <2>14
<1> QED  BY <1>1, <1>2

-----------------------------------------------------------------------------
(* What the parts keep, for every schedule.                                *)

AnyEvent == [kind: {"start", "die", "stop", "kill"}, of: Containers, run: Nat]
AnyMonitor == [of: Containers, no: Nat, run: Nat, pc: {"new", "reading", "ended"},
               cancelled: BOOLEAN]
AnyFailover == [of: Containers, run: Nat, replica: Nat, polls: Nat,
                pc: Calls \cup {"sleep", "healthy", "timeout"}]

\* Containers that ran have been started, nobody more often than the bound says;
\* there are events and failovers only if something may be started at all.
Stores ==
    /\ parent \in [Containers -> 0..MaxContainers]
    /\ status \in [Containers -> {"none", "running", "stopped", "dead", "unknown"}]
    /\ critical \subseteq Containers
    /\ events \in Seq(AnyEvent)
    /\ \A c \in Containers : docker[c] \in {"running", "exited"} => run[c] > 0
    /\ \A c \in Containers : run[c] <= MaxRuns
    /\ events # << >> \/ failovers # {} => MaxRuns > 0
    /\ disconnects \in Nat /\ signals \in Nat

\* Log tasks are numbered: a number is given to one task of the container.
Tasks ==
    /\ attached \in [Containers -> Nat] /\ streams \in [Containers -> Nat]
    /\ \A c \in Containers : streams[c] <= attached[c]
    /\ monitors \subseteq AnyMonitor
    /\ \A m \in monitors : 1 <= m.no /\ m.no <= attached[m.of]
    /\ \A m, n \in monitors : m.of = n.of /\ m.no = n.no => m = n

\* A run that is over, or nearly: its death cannot be reported again.
Past(c, n) == n <= run[c] /\ (docker[c] = "running" => n < run[c])

\* One death is one event and has one failover.
Deaths ==
    /\ failovers \subseteq AnyFailover
    /\ \A f, g \in failovers : f.of = g.of /\ f.run = g.run => f = g
    /\ \A f \in failovers : Past(f.of, f.run)
    /\ \A i \in 1..Len(events) : events[i].kind = "die" => Past(events[i].of, events[i].run)
    /\ \A i, k \in 1..Len(events) :
          events[i].kind = "die" /\ events[k].kind = "die" /\ events[i].of = events[k].of
              /\ events[i].run = events[k].run => i = k
    /\ \A i \in 1..Len(events), f \in failovers :
          events[i].kind = "die" /\ events[i].of = f.of => events[i].run # f.run

\* What a job in the pool is for.
Backed(j) ==
    \/ j = Listen
    \/ /\ j.kind = "next" /\ j.of \in Containers /\ j.no <= attached[j.of]
       /\ \A m \in monitors : m.of = j.of /\ m.no = j.no => m.pc # "new"
    \/ j.kind \in Calls /\ \E f \in failovers : FailoverJob(f) = j

Threads ==
    /\ Sound(pool)
    /\ \A j \in Pooled(pool) : Backed(j)

Listening ==
    /\ listening \in {"on", "retry", "queued"}
    /\ listening = "on" <=> Listen \in pool.busy
    /\ Listen \in Pooled(pool) => listening # "retry"
    /\ disconnects = 0 => listening = "on"

\* The histories.
Endings == abandoned \subseteq Containers /\ dropped \subseteq Containers \X Nat

ContainersInv ==
    ProtectionInv /\ Stores /\ Tasks /\ Deaths /\ Threads /\ Listening /\ Endings

-----------------------------------------------------------------------------
(* Events.                                                                 *)

LEMMA Bounds ==
    /\ \A c \in Containers : c \in Nat /\ c # None /\ c \in 0..MaxContainers
    /\ None \in Nat /\ None \in 0..MaxContainers
    /\ Originals \in Nat /\ MaxContainers \in Nat /\ MaxRuns \in Nat /\ PoolSize \in Nat
BY ContainersAssumption DEF Containers, None

\* The handlers take the events in their order.
LEMMA Taken ==
    ASSUME Stores, NEW kind, Take(kind)
    PROVE  /\ Len(events) \in Nat /\ Len(events) >= 1 /\ Head(events) = events[1]
           /\ events[1] \in AnyEvent /\ events[1].kind = kind
           /\ events' \in Seq(AnyEvent) /\ Len(events') = Len(events) - 1
           /\ \A i \in 1..Len(events') : /\ events'[i] = events[i + 1] /\ i + 1 \in 1..Len(events)
                                         /\ i + 1 # 1
           /\ events # << >>
<1>1. events \in Seq(AnyEvent) /\ events # << >> /\ Head(events).kind = kind
      /\ events' = Tail(events)
  BY DEF Stores, Take
<1>2. Len(events) \in Nat /\ Len(events) >= 1   BY <1>1
<1>3. Head(events) = events[1] /\ events[1] \in AnyEvent   BY <1>1, <1>2
<1>4. Tail(events) \in Seq(AnyEvent) /\ Len(Tail(events)) = Len(events) - 1
      /\ \A i \in 1..Len(Tail(events)) : Tail(events)[i] = events[i + 1]
  BY <1>1, <1>2
<1> QED  BY <1>1, <1>2, <1>3, <1>4

\* While the stream is on, what happens comes last.
LEMMA Emitted ==
    ASSUME Stores, NEW s \in Seq(AnyEvent), Emit(s), s # << >>
    PROVE  /\ Len(events) \in Nat /\ Len(s) \in Nat /\ Len(events') \in Nat
           /\ events' \in Seq(AnyEvent)
           /\ \A i \in 1..Len(events) : events'[i] = events[i] /\ i \in 1..Len(events')
           /\ \A i \in 1..Len(events') :
                 i \in 1..Len(events) \/ \E k \in 1..Len(s) : i = Len(events) + k /\ events'[i] = s[k]
           /\ listening = "on" =>
                 /\ Len(events') = Len(events) + Len(s)
                 /\ \A k \in 1..Len(s) : /\ events'[Len(events) + k] = s[k]
                                         /\ Len(events) + k \in 1..Len(events')
           /\ listening # "on" => events' = events
<1>1. events \in Seq(AnyEvent) /\ Len(events) \in Nat /\ Len(s) \in Nat   BY DEF Stores
<1>2. CASE listening # "on"
  <2>1. events' = events   BY <1>2 DEF Emit
  <2> QED  BY <1>1, <1>2, <2>1
<1>3. CASE listening = "on"
  <2>1. events' = events \o s   BY <1>3 DEF Emit
  <2>2. /\ events \o s \in Seq(AnyEvent) /\ Len(events \o s) = Len(events) + Len(s)
        /\ \A i \in 1..(Len(events) + Len(s)) :
              (events \o s)[i] = IF i <= Len(events) THEN events[i] ELSE s[i - Len(events)]
    BY <1>1, ConcatProperties
  <2>3. \A i \in 1..Len(events) : events'[i] = events[i] /\ i \in 1..Len(events')
    BY <1>1, <2>1, <2>2
  <2>4. \A k \in 1..Len(s) : events'[Len(events) + k] = s[k] /\ Len(events) + k \in 1..Len(events')
    BY <1>1, <2>1, <2>2
  <2>5. ASSUME NEW i \in 1..Len(events'), i \notin 1..Len(events)
        PROVE  \E k \in 1..Len(s) : i = Len(events) + k /\ events'[i] = s[k]
    <3>1. i - Len(events) \in 1..Len(s) /\ i = Len(events) + (i - Len(events))
      BY <1>1, <2>1, <2>2, <2>5
    <3> QED  BY <2>4, <3>1
  <2> QED  BY <1>1, <1>3, <2>1, <2>2, <2>3, <2>4, <2>5
<1> QED  BY <1>2, <1>3

\* What a start of a container, by its user or by a failover, does.
Starts(c) ==
    /\ c \in Containers /\ docker[c] # "running"
    /\ docker' = [docker EXCEPT ![c] = "running"]
    /\ run' = [run EXCEPT ![c] = @ + 1] /\ run'[c] <= MaxRuns
    /\ Emit(<<Event("start", c)>>)

\* What a death or docker stop does: the events of the end are s.
Ends(c, s) ==
    /\ c \in Containers /\ docker[c] = "running"
    /\ docker' = [docker EXCEPT ![c] = "exited"] /\ run' = run
    /\ Emit(s)
    /\ s \in {<<Event("die", c)>>, <<Event("kill", c), Event("die", c), Event("stop", c)>>}
    /\ failovers' = failovers

LEMMA StartsAndEnds ==
    /\ \A c \in Containers : ProtectionInv /\ UserStarts(c) => Starts(c)
    /\ \A f \in failovers : ProtectionInv /\ Stores /\ StartReplica(f) => Starts(f.replica)
    /\ \A c \in Containers : ContainerDies(c) => Ends(c, <<Event("die", c)>>)
    /\ \A c \in Containers :
          UserStops(c) => Ends(c, <<Event("kill", c), Event("die", c), Event("stop", c)>>)
<1>1. ASSUME NEW c \in Containers, ProtectionInv, UserStarts(c) PROVE Starts(c)
  <2>1. run[c] \in Nat /\ run[c] < MaxRuns /\ run' = [run EXCEPT ![c] = @ + 1]
    BY <1>1 DEF UserStarts, ProtectionInv, DockerOK
  <2>2. run \in [Containers -> Nat]   BY <1>1 DEF ProtectionInv, DockerOK
  <2>3. run'[c] <= MaxRuns   BY <2>1, <2>2, Bounds
  <2> QED  BY <1>1, <2>3 DEF UserStarts, Starts
<1>2. ASSUME NEW f \in failovers, ProtectionInv, Stores, StartReplica(f) PROVE Starts(f.replica)
  <2>1. f.replica \in Containers /\ run[f.replica] = 0 /\ run \in [Containers -> Nat]
    BY <1>2 DEF StartReplica, ProtectionInv, FailoversOK, DockerOK
  <2>2. docker[f.replica] # "running" /\ MaxRuns > 0
    BY <1>2, <2>1 DEF Stores
  <2>3. run' = [run EXCEPT ![f.replica] = @ + 1]   BY <1>2 DEF StartReplica
  <2>4. run'[f.replica] <= MaxRuns   BY <2>1, <2>2, <2>3, Bounds
  <2> QED  BY <1>2, <2>1, <2>2, <2>4 DEF StartReplica, Starts
<1>3. ASSUME NEW c \in Containers, ContainerDies(c) PROVE Ends(c, <<Event("die", c)>>)
  BY <1>3 DEF ContainerDies, Ends
<1>4. ASSUME NEW c \in Containers, UserStops(c)
      PROVE  Ends(c, <<Event("kill", c), Event("die", c), Event("stop", c)>>)
  BY <1>4 DEF UserStops, Ends
<1> QED  BY <1>1, <1>2, <1>3, <1>4

LEMMA StartEvents ==
    ASSUME ProtectionInv, Stores, NEW c, Starts(c)
    PROVE  /\ Len(events) \in Nat /\ Len(events') \in Nat /\ events' \in Seq(AnyEvent)
           /\ \A i \in 1..Len(events) : events'[i] = events[i] /\ i \in 1..Len(events')
           /\ \A i \in 1..Len(events') :
                 i \in 1..Len(events) \/ /\ i = Len(events) + 1 /\ events'[i].of = c
                                         /\ events'[i].kind = "start"
           /\ listening = "on" => /\ Len(events') = Len(events) + 1
                                  /\ Len(events) + 1 \in 1..Len(events')
           /\ listening # "on" => events' = events
           /\ c \in Containers /\ docker[c] # "running" /\ docker'[c] = "running"
           /\ run'[c] = run[c] + 1 /\ run[c] \in Nat
           /\ \A d \in Containers : d # c => docker'[d] = docker[d] /\ run'[d] = run[d]
<1> DEFINE s == <<Event("start", c)>>
<1>1. /\ c \in Containers /\ docker[c] # "running" /\ docker'[c] = "running"
      /\ run' \in [Containers -> Nat] /\ run'[c] = run[c] + 1 /\ run[c] \in Nat
      /\ \A d \in Containers : d # c => docker'[d] = docker[d] /\ run'[d] = run[d]
  BY DEF ProtectionInv, DockerOK, Starts
<1>2. Event("start", c) \in AnyEvent   BY <1>1 DEF Event, AnyEvent
<1>3. s \in Seq(AnyEvent) /\ Len(s) = 1 /\ s # << >> /\ Emit(s)
      /\ s[1].of = c /\ s[1].kind = "start"
  BY <1>2 DEF Event, Starts
<1> HIDE DEF s
<1>4. \A k \in 1..Len(s) : k = 1   BY <1>3
<1>5. 1 \in 1..Len(s)   BY <1>3
<1>6. /\ Len(events) \in Nat /\ Len(events') \in Nat /\ events' \in Seq(AnyEvent)
      /\ \A i \in 1..Len(events) : events'[i] = events[i] /\ i \in 1..Len(events')
      /\ \A i \in 1..Len(events') :
            i \in 1..Len(events) \/ \E k \in 1..Len(s) : i = Len(events) + k /\ events'[i] = s[k]
      /\ listening = "on" => /\ Len(events') = Len(events) + 1
                             /\ Len(events) + 1 \in 1..Len(events')
      /\ listening # "on" => events' = events
  BY <1>3, <1>5, Emitted
<1>7. \A i \in 1..Len(events') :
         i \in 1..Len(events) \/ /\ i = Len(events) + 1 /\ events'[i].of = c
                                 /\ events'[i].kind = "start"
  BY <1>3, <1>4, <1>6
<1> QED  BY <1>1, <1>6, <1>7

LEMMA EndEvents ==
    ASSUME ProtectionInv, Stores, NEW c, NEW s, Ends(c, s)
    PROVE  /\ Len(events) \in Nat /\ Len(events') \in Nat /\ events' \in Seq(AnyEvent)
           /\ \A i \in 1..Len(events) : events'[i] = events[i] /\ i \in 1..Len(events')
           /\ \A i \in 1..Len(events') :
                 \/ i \in 1..Len(events)
                 \/ /\ i > Len(events) /\ events'[i].of = c /\ events'[i].kind # "start"
                    /\ events'[i].run = run[c]
           /\ \A i, k \in 1..Len(events') :
                 i > Len(events) /\ k > Len(events) /\ events'[i].kind = "die"
                     /\ events'[k].kind = "die" => i = k
           /\ listening = "on" => /\ Len(events) + 1 \in 1..Len(events')
                                  /\ events'[Len(events) + 1].of = c
                                  /\ events'[Len(events) + 1].kind # "start"
           /\ listening # "on" => events' = events
           /\ c \in Containers /\ docker[c] = "running" /\ docker'[c] = "exited"
           /\ run' = run /\ run[c] \in Nat
           /\ \A d \in Containers : d # c => docker'[d] = docker[d]
<1>1. /\ c \in Containers /\ docker[c] = "running" /\ docker'[c] = "exited"
      /\ run' = run /\ run[c] \in Nat
      /\ \A d \in Containers : d # c => docker'[d] = docker[d]
  BY DEF ProtectionInv, DockerOK, Ends
<1>2. \A k \in {"die", "kill", "stop"} :
         /\ Event(k, c) \in AnyEvent /\ Event(k, c).kind = k /\ Event(k, c).of = c
         /\ Event(k, c).run = run[c]
  BY <1>1 DEF Event, AnyEvent
<1>3. /\ s \in Seq(AnyEvent) /\ Len(s) \in {1, 3}
      /\ \A k \in 1..Len(s) : s[k].of = c /\ s[k].kind # "start" /\ s[k].run = run[c]
      /\ \A k, l \in 1..Len(s) : s[k].kind = "die" /\ s[l].kind = "die" => k = l
  <2>1. CASE s = <<Event("die", c)>>   BY <1>2, <2>1
  <2>2. CASE s = <<Event("kill", c), Event("die", c), Event("stop", c)>>
    <3>1. s \in Seq(AnyEvent) /\ Len(s) = 3   BY <1>2, <2>2
    <3>2. /\ s[1] = Event("kill", c) /\ s[2] = Event("die", c) /\ s[3] = Event("stop", c)
      BY <2>2
    <3>3. \A k \in 1..Len(s) : k \in {1, 2, 3}   BY <3>1
    <3> QED  BY <1>2, <3>1, <3>2, <3>3
  <2> QED  BY <2>1, <2>2 DEF Ends
<1>4. s # << >> /\ Emit(s) /\ 1 \in 1..Len(s)
  <2>1. s # << >>   BY DEF Ends
  <2>2. 1 \in 1..Len(s)   BY <1>3
  <2> QED  BY <2>1, <2>2 DEF Ends
<1>5. /\ Len(events) \in Nat /\ Len(events') \in Nat /\ events' \in Seq(AnyEvent)
      /\ \A i \in 1..Len(events) : events'[i] = events[i] /\ i \in 1..Len(events')
      /\ \A i \in 1..Len(events') :
            i \in 1..Len(events) \/ \E k \in 1..Len(s) : i = Len(events) + k /\ events'[i] = s[k]
      /\ listening = "on" => \A k \in 1..Len(s) : /\ events'[Len(events) + k] = s[k]
                                                  /\ Len(events) + k \in 1..Len(events')
      /\ listening # "on" => events' = events
  BY <1>3, <1>4, Emitted
<1>6. \A i \in 1..Len(events') : i > Len(events) => i \notin 1..Len(events)   BY <1>5
<1>7. \A k \in 1..Len(s) : Len(events) + k > Len(events)   BY <1>3, <1>5
<1>8. \A i \in 1..Len(events') :
         \/ i \in 1..Len(events)
         \/ /\ i > Len(events) /\ events'[i].of = c /\ events'[i].kind # "start"
            /\ events'[i].run = run[c]
  <2> SUFFICES ASSUME NEW i \in 1..Len(events'), i \notin 1..Len(events)
               PROVE  /\ i > Len(events) /\ events'[i].of = c /\ events'[i].kind # "start"
                      /\ events'[i].run = run[c]
    OBVIOUS
  <2>1. PICK k \in 1..Len(s) : i = Len(events) + k /\ events'[i] = s[k]   BY <1>5
  <2> QED  BY <1>3, <1>7, <2>1
<1>9. \A i, k \in 1..Len(events') :
         i > Len(events) /\ k > Len(events) /\ events'[i].kind = "die"
             /\ events'[k].kind = "die" => i = k
  <2> SUFFICES ASSUME NEW i \in 1..Len(events'), NEW k \in 1..Len(events'),
                      i > Len(events), k > Len(events),
                      events'[i].kind = "die", events'[k].kind = "die"
               PROVE  i = k
    OBVIOUS
  <2>1. PICK m \in 1..Len(s) : i = Len(events) + m /\ events'[i] = s[m]   BY <1>5, <1>6
  <2>2. PICK l \in 1..Len(s) : k = Len(events) + l /\ events'[k] = s[l]   BY <1>5, <1>6
  <2>3. m = l   BY <1>3, <2>1, <2>2
  <2> QED  BY <2>1, <2>2, <2>3
<1> QED  BY <1>1, <1>3, <1>4, <1>5, <1>8, <1>9

\* docker kill with a signal that is survived tells of nothing but itself.
LEMMA SignalEvents ==
    ASSUME ProtectionInv, Stores, NEW c \in Containers, UserSignals(c)
    PROVE  /\ Len(events) \in Nat /\ Len(events') \in Nat /\ events' \in Seq(AnyEvent)
           /\ \A i \in 1..Len(events) : events'[i] = events[i] /\ i \in 1..Len(events')
           /\ \A i \in 1..Len(events') :
                 i \in 1..Len(events) \/ (i = Len(events) + 1 /\ events'[i].kind = "kill")
           /\ Len(events') \in {Len(events), Len(events) + 1}
           /\ events' = << >> => events = << >>
<1> DEFINE s == <<Event("kill", c)>>
<1>1. run' = run /\ run[c] \in Nat
  BY DEF UserSignals, dockerVars, ProtectionInv, DockerOK
<1>2. Event("kill", c) \in AnyEvent   BY <1>1 DEF Event, AnyEvent
<1>3. s \in Seq(AnyEvent) /\ Len(s) = 1 /\ s # << >> /\ Emit(s) /\ s[1].kind = "kill"
  BY <1>2 DEF Event, UserSignals
<1> HIDE DEF s
<1>4. \A k \in 1..Len(s) : k = 1   BY <1>3
<1>5. 1 \in 1..Len(s)   BY <1>3
<1>6. /\ Len(events) \in Nat /\ Len(events') \in Nat /\ events' \in Seq(AnyEvent)
      /\ \A i \in 1..Len(events) : events'[i] = events[i] /\ i \in 1..Len(events')
      /\ \A i \in 1..Len(events') :
            i \in 1..Len(events) \/ \E k \in 1..Len(s) : i = Len(events) + k /\ events'[i] = s[k]
      /\ listening = "on" => Len(events') = Len(events) + 1
      /\ listening # "on" => events' = events
  BY <1>3, Emitted
<1>7. \A i \in 1..Len(events') :
         i \in 1..Len(events) \/ (i = Len(events) + 1 /\ events'[i].kind = "kill")
  BY <1>3, <1>4, <1>6
<1>8. Len(events') \in {Len(events), Len(events) + 1}   BY <1>6
<1>9. events' = << >> => events = << >>
  <2>1. events' = << >> => Len(events') = 0   OBVIOUS
  <2> QED  BY <1>6, <2>1
<1> QED  BY <1>6, <1>7, <1>8, <1>9

-----------------------------------------------------------------------------
(* The stores and the queue of events.                                     *)

\* Actions that leave Docker and the events alone.
LEMMA OthersKeepEvents ==
    ASSUME \/ \E c \in Containers : MarkCritical(c)
           \/ Disconnect \/ Relisten
           \/ \E m \in monitors : MonitorStep(m)
           \/ \E j \in pool.busy : LogLine(j) \/ StreamDrops(j) \/ StreamEnds(j)
           \/ \E f \in failovers : CreateFails(f) \/ StartFails(f) \/ Poll(f) \/ Reloaded(f)
                                    \/ ReloadFails(f) \/ ReloadBreaks(f)
                                     \/ Recovered(f)
           \/ UNCHANGED vars
    PROVE  UNCHANGED <<docker, run, parent, events>>
BY DEF MarkCritical, Disconnect, Relisten, MonitorStep, Attach, AttachFails, NeverAttached, MonitorEnds,
       LogLine, StreamDrops, StreamEnds, CreateFails, StartFails, Poll, Reloaded, ReloadFails, ReloadBreaks, Recovered, vars, dockerVars

\* MaxRuns is positive once there is an event or a failover.
LEMMA StoresRuns ==
    ASSUME ProtectionInv, Stores, [Next]_vars
    PROVE  /\ \A c \in Containers : docker'[c] \in {"running", "exited"} => run'[c] > 0
           /\ \A c \in Containers : run'[c] <= MaxRuns
           /\ events' # << >> \/ failovers' # {} => MaxRuns > 0
           /\ events' \in Seq(AnyEvent)
<1> DEFINE Goal == /\ \A c \in Containers : docker'[c] \in {"running", "exited"} => run'[c] > 0
                   /\ \A c \in Containers : run'[c] <= MaxRuns
                   /\ events' # << >> \/ failovers' # {} => MaxRuns > 0
                   /\ events' \in Seq(AnyEvent)
<1> SUFFICES Goal   OBVIOUS
<1>0. /\ docker \in [Containers -> {"none", "created", "running", "exited"}]
      /\ run \in [Containers -> Nat] /\ events \in Seq(AnyEvent)
      /\ \A c \in Containers : docker[c] \in {"running", "exited"} => run[c] > 0
      /\ \A c \in Containers : run[c] <= MaxRuns
      /\ events # << >> \/ failovers # {} => MaxRuns > 0
  BY DEF ProtectionInv, DockerOK, Stores
<1>1. ASSUME UNCHANGED <<docker, run, events>>, failovers' # {} => failovers # {} PROVE Goal
  BY <1>0, <1>1
<1>2. ASSUME NEW c, Starts(c) PROVE Goal
  <2>1. /\ c \in Containers /\ run'[c] = run[c] + 1 /\ run[c] \in Nat /\ run'[c] <= MaxRuns
        /\ \A d \in Containers : d # c => docker'[d] = docker[d] /\ run'[d] = run[d]
        /\ events' \in Seq(AnyEvent)
    BY <1>2, StartEvents DEF Starts
  <2>2. MaxRuns > 0   BY <2>1, Bounds
  <2>3. \A d \in Containers : docker'[d] \in {"running", "exited"} => run'[d] > 0
    BY <1>0, <2>1
  <2>4. \A d \in Containers : run'[d] <= MaxRuns   BY <1>0, <2>1
  <2> QED  BY <2>1, <2>2, <2>3, <2>4
<1>3. ASSUME NEW c, NEW s, Ends(c, s) PROVE Goal
  <2>1. /\ c \in Containers /\ docker[c] = "running" /\ run' = run
        /\ \A d \in Containers : d # c => docker'[d] = docker[d]
        /\ events' \in Seq(AnyEvent)
    BY <1>3, EndEvents
  <2>2. run[c] > 0 /\ run[c] <= MaxRuns /\ run[c] \in Nat   BY <1>0, <2>1
  <2>3. MaxRuns > 0   BY <2>2, Bounds
  <2> QED  BY <1>0, <2>1, <2>2, <2>3
<1>4. ASSUME NEW c \in Containers, UserSignals(c) PROVE Goal
  <2>1. events' \in Seq(AnyEvent)   BY <1>4, SignalEvents
  <2>2. docker[c] = "running" /\ UNCHANGED <<docker, run>>   BY <1>4 DEF UserSignals, dockerVars
  <2>3. run[c] > 0 /\ run[c] <= MaxRuns /\ run[c] \in Nat   BY <1>0, <2>2
  <2>4. MaxRuns > 0   BY <2>3, Bounds
  <2> QED  BY <1>0, <2>1, <2>2, <2>4
<1>5. ASSUME NEW kind, Take(kind), UNCHANGED <<docker, run>> PROVE Goal
  <2>1. events # << >> /\ events' \in Seq(AnyEvent)   BY <1>5, Taken
  <2> QED  BY <1>0, <1>5, <2>1
<1>6. CASE HandleEvent
  <2>1. UNCHANGED <<docker, run>> /\ \E kind : Take(kind)
    BY <1>6 DEF HandleEvent, HandleStart, HandleStop, HandleDie, dockerVars
  <2> QED  BY <1>5, <2>1
<1>7. ASSUME NEW f \in failovers, Create(f) PROVE Goal
  <2>1. PICK r \in Fresh : docker' = [docker EXCEPT ![r] = "created"]   BY <1>7 DEF Create
  <2>2. \A c \in Containers : docker'[c] \in {"running", "exited"} => docker[c] = docker'[c]
    BY <1>0, <2>1 DEF Fresh
  <2>3. UNCHANGED <<run, events>> /\ MaxRuns > 0   BY <1>0, <1>7 DEF Create
  <2> QED  BY <1>0, <2>2, <2>3
<1>8. ASSUME NEW f \in failovers,
             \/ CreateFails(f) \/ StartFails(f) \/ Poll(f) \/ Reloaded(f)
             \/ ReloadFails(f) \/ ReloadBreaks(f) \/ Recovered(f)
      PROVE  Goal
  <2>1. UNCHANGED <<docker, run, events>>   BY <1>8, OthersKeepEvents
  <2> QED  BY <1>0, <2>1
<1>9. CASE \/ \E c \in Containers : MarkCritical(c)
           \/ Disconnect \/ Relisten
           \/ \E m \in monitors : MonitorStep(m)
           \/ \E j \in pool.busy : LogLine(j) \/ StreamDrops(j) \/ StreamEnds(j)
           \/ UNCHANGED vars
  <2>1. UNCHANGED <<docker, run, events>>   BY <1>9, OthersKeepEvents
  <2>2. UNCHANGED failovers
    BY <1>9 DEF MarkCritical, Disconnect, Relisten, MonitorStep, Attach, AttachFails, NeverAttached,
                MonitorEnds, LogLine, StreamDrops, StreamEnds, vars
  <2> QED  BY <1>1, <2>1, <2>2
<1> HIDE DEF Goal
<1>10. CASE \E c \in Containers : UserStarts(c) \/ ContainerDies(c) \/ UserStops(c)
  BY <1>2, <1>3, <1>10, StartsAndEnds
<1>11. CASE \E c \in Containers : UserSignals(c)   BY <1>4, <1>11
<1>12. CASE \E f \in failovers : FailoverStep(f)
  BY <1>2, <1>7, <1>8, <1>12, StartsAndEnds DEF FailoverStep
<1> QED  BY <1>6, <1>9, <1>10, <1>11, <1>12 DEF Next

\* What is counted is never taken back.
LEMMA CountersGrow ==
    ASSUME [Next]_vars
    PROVE  disconnects' \in {disconnects, disconnects + 1} /\ signals' \in {signals, signals + 1}
<1>1. CASE \E c \in Containers : \/ UserStarts(c) \/ ContainerDies(c) \/ UserStops(c)
                                \/ UserSignals(c) \/ MarkCritical(c)
  BY <1>1 DEF UserStarts, ContainerDies, UserStops, UserSignals, MarkCritical, counters
<1>2. CASE Disconnect \/ Relisten \/ HandleEvent \/ UNCHANGED vars
  BY <1>2 DEF Disconnect, Relisten, HandleEvent, HandleStart, HandleStop, HandleDie, vars,
              counters
<1>3. CASE \E m \in monitors : MonitorStep(m)
  BY <1>3 DEF MonitorStep, Attach, AttachFails, NeverAttached, MonitorEnds, counters
<1>4. CASE \E j \in pool.busy : LogLine(j) \/ StreamDrops(j) \/ StreamEnds(j)
  BY <1>4 DEF LogLine, StreamDrops, StreamEnds, counters
<1>5. CASE \E f \in failovers : FailoverStep(f)
  BY <1>5 DEF FailoverStep, CreateFails, Create, StartFails, StartReplica, Poll, Reloaded, ReloadFails, ReloadBreaks,
              Recovered, counters
<1> QED  BY <1>1, <1>2, <1>3, <1>4, <1>5 DEF Next

LEMMA StoresStep == ProtectionInv /\ Stores /\ Deaths /\ [Next]_vars => Stores'
<1> SUFFICES ASSUME ProtectionInv, Stores, Deaths, [Next]_vars PROVE Stores'
  OBVIOUS
<1>0. /\ parent \in [Containers -> 0..MaxContainers] /\ critical \subseteq Containers
      /\ status \in [Containers -> {"none", "running", "stopped", "dead", "unknown"}]
      /\ disconnects \in Nat /\ signals \in Nat
      /\ failovers \subseteq AnyFailover
  BY DEF Stores, Deaths
<1>1. parent' \in [Containers -> 0..MaxContainers]
  <2>1. CASE parent' = parent   BY <1>0, <2>1
  <2>2. CASE \E f \in failovers : Create(f)
    <3>1. PICK f \in failovers, r \in Fresh : parent' = [parent EXCEPT ![r] = f.of]
      BY <2>2 DEF Create
    <3>2. f.of \in 0..MaxContainers   BY <1>0, Bounds DEF AnyFailover
    <3> QED  BY <1>0, <3>1, <3>2
  <2> QED
    BY <2>1, <2>2, OthersKeepEvents
    DEF Next, UserStarts, ContainerDies, UserStops, UserSignals, HandleEvent, HandleStart,
        HandleStop, HandleDie, FailoverStep, StartReplica, dockerVars
<1>2. disconnects' \in {disconnects, disconnects + 1} /\ signals' \in {signals, signals + 1}
  BY CountersGrow
<1>3. disconnects' \in Nat /\ signals' \in Nat   BY <1>0, <1>2
<1>4. /\ status' \in [Containers -> {"none", "running", "stopped", "dead", "unknown"}]
      /\ critical' \subseteq Containers
  <2>1. CASE UNCHANGED <<status, critical>>   BY <1>0, <2>1
  <2>2. CASE HandleEvent
    <3>1. critical' = critical
          /\ \E c, s : s \in {"running", "stopped", "dead"} /\ status' = [status EXCEPT ![c] = s]
      BY <2>2 DEF HandleEvent, HandleStart, HandleStop, HandleDie
    <3> QED  BY <1>0, <3>1
  <2>3. CASE \E f \in failovers : Recovered(f)
    <3>1. PICK f \in failovers : Recovered(f)   BY <2>3
    <3>2. f.replica \in Containers   BY <3>1 DEF Recovered, ProtectionInv, FailoversOK
    <3>3. critical' = critical \cup {f.replica}
          /\ \E s \in {"running", "unknown"} : status' = [status EXCEPT ![f.replica] = s]
      BY <3>1 DEF Recovered
    <3> QED  BY <1>0, <3>2, <3>3
  <2>4. CASE \E c \in Containers : MarkCritical(c)   BY <1>0, <2>4 DEF MarkCritical
  <2> QED
    BY <2>1, <2>2, <2>3, <2>4
    DEF Next, UserStarts, ContainerDies, UserStops, UserSignals, Disconnect, Relisten,
        MonitorStep, Attach, AttachFails, NeverAttached, MonitorEnds, LogLine, StreamDrops, StreamEnds, FailoverStep,
        CreateFails, Create, StartFails, StartReplica, Poll, Reloaded, ReloadFails, ReloadBreaks, vars, storeVars
<1> QED  BY <1>1, <1>3, <1>4, StoresRuns DEF Stores

-----------------------------------------------------------------------------
(* Log tasks.                                                              *)

\* Tasks that go on, each as F has it, or end.
LEMMA TasksGoOn ==
    ASSUME Tasks, NEW F,
           \A m \in monitors : F[m] \in AnyMonitor /\ F[m].of = m.of /\ F[m].no = m.no,
           monitors' \subseteq {F[m] : m \in monitors}, attached' = attached,
           streams' \in [Containers -> Nat], \A c \in Containers : streams'[c] \in {None, streams[c]}
    PROVE  Tasks'
<1>1. monitors' \subseteq AnyMonitor   OBVIOUS
<1>2. \A m \in monitors' : 1 <= m.no /\ m.no <= attached'[m.of]   BY DEF Tasks
<1>3. \A m, n \in monitors' : m.of = n.of /\ m.no = n.no => m = n   BY DEF Tasks
<1>4. \A c \in Containers : streams'[c] <= attached'[c]   BY DEF Tasks, None
<1> QED  BY <1>1, <1>2, <1>3, <1>4 DEF Tasks

\* stop_monitoring cancels a task and forgets it.
LEMMA StopKeepsTasks ==
    ASSUME Tasks, NEW c \in Containers, StopMonitoring(c)   PROVE Tasks'
<1> DEFINE S(m) == IF m.of = c /\ m.no = streams[c] THEN [m EXCEPT !.cancelled = TRUE] ELSE m
           F == [m \in monitors |-> S(m)]
<1>1. \A m \in monitors : S(m) \in AnyMonitor /\ S(m).of = m.of /\ S(m).no = m.no
  BY DEF Tasks, AnyMonitor
<1>2. monitors' = {S(m) : m \in monitors} /\ attached' = attached
      /\ streams' = [streams EXCEPT ![c] = None]
  BY DEF StopMonitoring
<1> HIDE DEF S
<1>3. monitors' = {F[m] : m \in monitors}   BY <1>2
<1>4. \A m \in monitors : F[m] \in AnyMonitor /\ F[m].of = m.of /\ F[m].no = m.no
  BY <1>1
<1>5. streams' \in [Containers -> Nat] /\ \A d \in Containers : streams'[d] \in {None, streams[d]}
  BY <1>2, Bounds DEF Tasks
<1> HIDE DEF F
<1> QED  BY <1>2, <1>3, <1>4, <1>5, TasksGoOn

\* start_monitoring numbers a new task.
LEMMA StartKeepsTasks ==
    ASSUME Tasks, Stores, HandleStart   PROVE Tasks'
<1> DEFINE c == Head(events).of
           m == [of |-> c, no |-> attached[c] + 1, run |-> 0, pc |-> "new", cancelled |-> FALSE]
<1>1. c \in Containers
  <2>1. Take("start")   BY DEF HandleStart
  <2> QED  BY <2>1, Taken DEF AnyEvent
<1>2. CASE UNCHANGED monitorVars   BY <1>2 DEF Tasks, monitorVars
<1>3. CASE ~ UNCHANGED monitorVars
  <2>1. /\ attached' = [attached EXCEPT ![c] = @ + 1]
        /\ streams' = [streams EXCEPT ![c] = attached[c] + 1]
        /\ monitors' = monitors \cup {m}
    BY <1>3 DEF HandleStart
  <2>2. attached[c] \in Nat   BY <1>1 DEF Tasks
  <2>3. m \in AnyMonitor /\ m.of = c /\ m.no = attached[c] + 1   BY <1>1, <2>2 DEF AnyMonitor
  <2> HIDE DEF m, c
  <2>4. /\ attached' \in [Containers -> Nat] /\ streams' \in [Containers -> Nat]
        /\ \A d \in Containers : streams'[d] <= attached'[d] /\ attached[d] <= attached'[d]
        /\ attached'[c] = attached[c] + 1
    BY <1>1, <2>1, <2>2 DEF Tasks
  <2>5. \A n \in monitors : /\ n \in AnyMonitor /\ 1 <= n.no /\ n.no <= attached[n.of]
                            /\ n.of \in Containers /\ n.no \in Nat
    BY DEF Tasks, AnyMonitor
  <2>6. \A n \in monitors : ~ (n.of = c /\ n.no = attached[c] + 1)
    BY <2>2, <2>5
  <2>7. \A n \in monitors' : 1 <= n.no /\ n.no <= attached'[n.of]
    <3> SUFFICES ASSUME NEW n \in monitors PROVE 1 <= n.no /\ n.no <= attached'[n.of]
      BY <2>1, <2>2, <2>3, <2>4
    <3>1. attached[n.of] \in Nat /\ attached'[n.of] \in Nat /\ attached[n.of] <= attached'[n.of]
      BY <2>4, <2>5 DEF Tasks
    <3> QED  BY <2>5, <3>1
  <2>8. \A n, o \in monitors' : n.of = o.of /\ n.no = o.no => n = o
    BY <2>1, <2>3, <2>6 DEF Tasks
  <2> QED  BY <2>1, <2>3, <2>4, <2>5, <2>7, <2>8 DEF Tasks
<1> QED  BY <1>2, <1>3

\* The line that ends a task, by the end of the log or by an exception.
LEMMA TasksEnd ==
    ASSUME NEW j \in pool.busy, StreamDrops(j) \/ StreamEnds(j)
    PROVE  \E mine \in SUBSET monitors :
              /\ monitors' = (monitors \ mine) \cup {[m EXCEPT !.pc = "ended"] : m \in mine}
              /\ \A m \in mine : m.pc = "reading" /\ NextJob(m) = j
              /\ UNCHANGED <<streams, attached>>
<1>1. CASE StreamEnds(j)
  <2> DEFINE mine == {m \in monitors : m.pc = "reading" /\ NextJob(m) = j}
  <2>1. mine \in SUBSET monitors   OBVIOUS
  <2> QED  BY <1>1, <2>1 DEF StreamEnds
<1>2. CASE StreamDrops(j)
  <2>1. PICK m \in monitors : /\ m.pc = "reading" /\ NextJob(m) = j
                              /\ monitors' = Replaced(monitors, m, [m EXCEPT !.pc = "ended"])
    BY <1>2 DEF StreamDrops
  <2>2. {m} \in SUBSET monitors /\ UNCHANGED <<streams, attached>>   BY <1>2 DEF StreamDrops
  <2>3. monitors' = (monitors \ {m}) \cup {[n EXCEPT !.pc = "ended"] : n \in {m}}
    BY <2>1 DEF Replaced
  <2> QED  BY <2>1, <2>2, <2>3
<1> QED  BY <1>1, <1>2

LEMMA TasksStep == ProtectionInv /\ Stores /\ Tasks /\ [Next]_vars => Tasks'
<1> SUFFICES ASSUME ProtectionInv, Stores, Tasks, [Next]_vars PROVE Tasks'
  OBVIOUS
<1>1. CASE UNCHANGED monitorVars   BY <1>1 DEF Tasks, monitorVars
<1>2. CASE HandleStart   BY <1>2, StartKeepsTasks
<1>3. CASE HandleStop \/ HandleDie
  <2>1. (\E kind : Take(kind)) /\ StopMonitoring(Head(events).of)
    BY <1>3 DEF HandleStop, HandleDie
  <2>2. Head(events).of \in Containers   BY <2>1, Taken DEF AnyEvent
  <2> QED  BY <2>1, <2>2, StopKeepsTasks
<1>4. ASSUME NEW m \in monitors, MonitorStep(m) PROVE Tasks'
  <2>0. m \in AnyMonitor /\ m.of \in Containers   BY DEF Tasks, AnyMonitor
  <2>1. CASE Attach(m)
    <3> DEFINE r == [m EXCEPT !.pc = "reading", !.run = run[m.of]]
               F == [n \in monitors |-> IF n = m THEN r ELSE n]
    <3>1. run[m.of] \in Nat   BY <2>0 DEF ProtectionInv, DockerOK
    <3>2. r \in AnyMonitor /\ r.of = m.of /\ r.no = m.no   BY <2>0, <3>1 DEF AnyMonitor
    <3>3. monitors' = (monitors \ {m}) \cup {r} /\ UNCHANGED <<streams, attached>>
      BY <2>1 DEF Attach, Replaced
    <3> HIDE DEF r
    <3>4. \A n \in monitors : F[n] \in AnyMonitor /\ F[n].of = n.of /\ F[n].no = n.no
      BY <3>2 DEF Tasks
    <3>5. monitors' \subseteq {F[n] : n \in monitors}   BY <3>3
    <3>6. streams' \in [Containers -> Nat] /\ \A d \in Containers : streams'[d] = streams[d]
      BY <3>3 DEF Tasks
    <3> HIDE DEF F
    <3> QED  BY <3>3, <3>4, <3>5, <3>6, TasksGoOn
  <2>2. CASE AttachFails(m) \/ NeverAttached(m) \/ MonitorEnds(m)
    <3> DEFINE F == [n \in monitors |-> n]
    <3>1. /\ monitors' = monitors \ {m} /\ attached' = attached
          /\ streams' \in {streams, [streams EXCEPT ![m.of] = None]}
      BY <2>2 DEF AttachFails, NeverAttached, MonitorEnds
    <3>2. streams' \in [Containers -> Nat]
          /\ \A d \in Containers : streams'[d] \in {None, streams[d]}
      BY <2>0, <3>1, Bounds DEF Tasks
    <3>3. \A n \in monitors : F[n] \in AnyMonitor /\ F[n].of = n.of /\ F[n].no = n.no
      BY DEF Tasks
    <3>4. monitors' \subseteq {F[n] : n \in monitors}   BY <3>1
    <3> HIDE DEF F
    <3> QED  BY <3>1, <3>2, <3>3, <3>4, TasksGoOn
  <2> QED  BY <1>4, <2>1, <2>2 DEF MonitorStep
<1>5. ASSUME NEW j \in pool.busy, StreamDrops(j) \/ StreamEnds(j) PROVE Tasks'
  <2> DEFINE E(m) == [m EXCEPT !.pc = "ended"]
  <2>1. PICK mine \in SUBSET monitors :
           monitors' = (monitors \ mine) \cup {E(m) : m \in mine} /\ UNCHANGED <<streams, attached>>
    BY <1>5, TasksEnd
  <2> DEFINE F == [m \in monitors |-> IF m \in mine THEN E(m) ELSE m]
  <2>2. \A m \in monitors : E(m) \in AnyMonitor /\ E(m).of = m.of /\ E(m).no = m.no
    BY DEF Tasks, AnyMonitor
  <2> HIDE DEF E
  <2>4. \A m \in monitors : F[m] \in AnyMonitor /\ F[m].of = m.of /\ F[m].no = m.no
    BY <2>2 DEF Tasks
  <2>5. monitors' \subseteq {F[m] : m \in monitors}   BY <2>1
  <2>6. streams' \in [Containers -> Nat] /\ \A d \in Containers : streams'[d] = streams[d]
    BY <2>1 DEF Tasks
  <2> HIDE DEF F
  <2> QED  BY <2>1, <2>4, <2>5, <2>6, TasksGoOn
<1>6. CASE \E j \in pool.busy : LogLine(j)   BY <1>1, <1>6 DEF LogLine
<1>7. CASE \E f \in failovers : FailoverStep(f)
  <2>1. UNCHANGED monitorVars
    BY <1>7 DEF FailoverStep, CreateFails, Create, StartFails, StartReplica, Poll, Reloaded, ReloadFails, ReloadBreaks,
                Recovered
  <2> QED  BY <1>1, <2>1
<1>8. CASE \E c \in Containers : \/ UserStarts(c) \/ ContainerDies(c) \/ UserStops(c)
                                  \/ UserSignals(c) \/ MarkCritical(c)
  <2>1. UNCHANGED monitorVars
    BY <1>8 DEF UserStarts, ContainerDies, UserStops, UserSignals, MarkCritical
  <2> QED  BY <1>1, <2>1
<1>9. CASE Disconnect \/ Relisten \/ UNCHANGED vars
  BY <1>1, <1>9 DEF Disconnect, Relisten, vars
<1> QED  BY <1>2, <1>3, <1>4, <1>5, <1>6, <1>7, <1>8, <1>9 DEF Next, HandleEvent

-----------------------------------------------------------------------------
(* Deaths and their failovers.                                             *)

\* Failovers go on as F has them or end, and no death is reported meanwhile.
LEMMA DeathsKept ==
    ASSUME Stores, Deaths, NEW F,
           \A f \in failovers : F[f] \in AnyFailover /\ F[f].of = f.of /\ F[f].run = f.run,
           failovers' \subseteq {F[f] : f \in failovers},
           \A d \in Containers, n \in Nat : Past(d, n) => Past(d, n)',
           NEW k \in {0, 1}, events' \in Seq(AnyEvent),
           \A i \in 1..Len(events') : events'[i].kind = "die" =>
              i + k \in 1..Len(events) /\ events'[i] = events[i + k]
    PROVE  Deaths'
<1>1. /\ \A f, g \in failovers : f.of = g.of /\ f.run = g.run => f = g
      /\ \A f \in failovers : Past(f.of, f.run) /\ f.of \in Containers /\ f.run \in Nat
      /\ \A i \in 1..Len(events) : /\ events[i].kind = "die" => Past(events[i].of, events[i].run)
                                   /\ events[i].of \in Containers /\ events[i].run \in Nat
  <2>1. \A i \in 1..Len(events) : events[i] \in AnyEvent   BY DEF Stores
  <2>2. \A i \in 1..Len(events) : events[i].of \in Containers /\ events[i].run \in Nat
    BY <2>1 DEF AnyEvent
  <2>3. \A f \in failovers : f.of \in Containers /\ f.run \in Nat   BY DEF Deaths, AnyFailover
  <2> QED  BY <2>2, <2>3 DEF Deaths
<1>2. /\ failovers' \subseteq AnyFailover
      /\ \A f, g \in failovers' : f.of = g.of /\ f.run = g.run => f = g
  BY <1>1
<1>3. \A f \in failovers' : f.run <= run'[f.of] /\ (docker'[f.of] = "running" => f.run < run'[f.of])
  BY <1>1 DEF Past
<1>4. \A i \in 1..Len(events') :
         events'[i].kind = "die" =>
            /\ events'[i].run <= run'[events'[i].of]
            /\ docker'[events'[i].of] = "running" => events'[i].run < run'[events'[i].of]
  BY <1>1 DEF Past
<1>5. \A i, l \in 1..Len(events') :
         events'[i].kind = "die" /\ events'[l].kind = "die" /\ events'[i].of = events'[l].of
             /\ events'[i].run = events'[l].run => i = l
  <2> SUFFICES ASSUME NEW i \in 1..Len(events'), NEW l \in 1..Len(events'),
                      events'[i].kind = "die", events'[l].kind = "die",
                      events'[i].of = events'[l].of, events'[i].run = events'[l].run
               PROVE  i = l
    OBVIOUS
  <2>1. /\ i + k \in 1..Len(events) /\ events'[i] = events[i + k]
        /\ l + k \in 1..Len(events) /\ events'[l] = events[l + k]
    OBVIOUS
  <2>2. i + k = l + k   BY <2>1 DEF Deaths
  <2> QED  BY <2>2
<1>6. \A i \in 1..Len(events'), f \in failovers' :
         events'[i].kind = "die" /\ events'[i].of = f.of => events'[i].run # f.run
  BY DEF Deaths
<1> QED  BY <1>2, <1>3, <1>4, <1>5, <1>6 DEF Deaths, Past

\* A run that ends is past, and its death is the only event that says so.
LEMMA EndIsOneDeath ==
    ASSUME ProtectionInv, Stores, Deaths, NEW c, NEW s, Ends(c, s)   PROVE Deaths'
<1>1. /\ \A f \in failovers : f.of \in Containers /\ f.run \in Nat
      /\ \A i \in 1..Len(events) : events[i].of \in Containers /\ events[i].run \in Nat
      /\ run \in [Containers -> Nat]
  <2>1. \A i \in 1..Len(events) : events[i] \in AnyEvent   BY DEF Stores
  <2> QED  BY <2>1 DEF Deaths, AnyEvent, AnyFailover, ProtectionInv, DockerOK
<1>2. /\ \A i \in 1..Len(events) : events'[i] = events[i] /\ i \in 1..Len(events')
      /\ \A i \in 1..Len(events') :
            \/ i \in 1..Len(events)
            \/ /\ i > Len(events) /\ events'[i].of = c /\ events'[i].kind # "start"
               /\ events'[i].run = run[c]
      /\ \A i, k \in 1..Len(events') :
            i > Len(events) /\ k > Len(events) /\ events'[i].kind = "die"
                /\ events'[k].kind = "die" => i = k
      /\ c \in Containers /\ docker[c] = "running" /\ docker'[c] = "exited"
      /\ run' = run /\ run[c] \in Nat
      /\ \A d \in Containers : d # c => docker'[d] = docker[d]
  BY EndEvents
<1>3. failovers' = failovers   BY DEF Ends
<1>4. \A f \in failovers : Past(f.of, f.run)   BY DEF Deaths
<1>5. \A f \in failovers' : f.run <= run'[f.of] /\ (docker'[f.of] = "running" => f.run < run'[f.of])
  BY <1>1, <1>2, <1>3, <1>4 DEF Past
<1>6. \A i \in 1..Len(events) : events[i].kind = "die" => Past(events[i].of, events[i].run)
  BY DEF Deaths
<1>7. \A i \in 1..Len(events') :
         events'[i].kind = "die" =>
            /\ events'[i].run <= run'[events'[i].of]
            /\ docker'[events'[i].of] = "running" => events'[i].run < run'[events'[i].of]
  <2> SUFFICES ASSUME NEW i \in 1..Len(events'), events'[i].kind = "die"
               PROVE  /\ events'[i].run <= run'[events'[i].of]
                      /\ docker'[events'[i].of] = "running" => events'[i].run < run'[events'[i].of]
    OBVIOUS
  <2>1. CASE i \in 1..Len(events)   BY <1>1, <1>2, <1>6, <2>1 DEF Past
  <2>2. CASE i \notin 1..Len(events)   BY <1>2, <2>2
  <2> QED  BY <2>1, <2>2
<1>8. \A i \in 1..Len(events) : events[i].kind = "die" /\ events[i].of = c => events[i].run # run[c]
  BY <1>1, <1>2, <1>6 DEF Past
<1>9. \A f \in failovers : f.of = c => f.run # run[c]
  BY <1>1, <1>2, <1>4 DEF Past
<1>10. \A i, k \in 1..Len(events') :
         events'[i].kind = "die" /\ events'[k].kind = "die" /\ events'[i].of = events'[k].of
             /\ events'[i].run = events'[k].run => i = k
  <2> SUFFICES ASSUME NEW i \in 1..Len(events'), NEW k \in 1..Len(events'),
                      events'[i].kind = "die", events'[k].kind = "die",
                      events'[i].of = events'[k].of, events'[i].run = events'[k].run
               PROVE  i = k
    OBVIOUS
  <2>1. CASE i \in 1..Len(events) /\ k \in 1..Len(events)   BY <1>2, <2>1 DEF Deaths
  <2>2. CASE i \in 1..Len(events) /\ k \notin 1..Len(events)   BY <1>2, <1>8, <2>2
  <2>3. CASE i \notin 1..Len(events) /\ k \in 1..Len(events)   BY <1>2, <1>8, <2>3
  <2>4. CASE i \notin 1..Len(events) /\ k \notin 1..Len(events)   BY <1>2, <2>4
  <2> QED  BY <2>1, <2>2, <2>3, <2>4
<1>11. \A i \in 1..Len(events'), f \in failovers' :
          events'[i].kind = "die" /\ events'[i].of = f.of => events'[i].run # f.run
  <2> SUFFICES ASSUME NEW i \in 1..Len(events'), NEW f \in failovers,
                      events'[i].kind = "die", events'[i].of = f.of
               PROVE  events'[i].run # f.run
    BY <1>3
  <2>1. CASE i \in 1..Len(events)   BY <1>2, <2>1 DEF Deaths
  <2>2. CASE i \notin 1..Len(events)   BY <1>2, <1>9, <2>2
  <2> QED  BY <2>1, <2>2
<1> QED  BY <1>3, <1>5, <1>7, <1>10, <1>11 DEF Deaths, Past

\* The death of a critical container gets its failover.
LEMMA DeathGetsFailover ==
    ASSUME ProtectionInv, Stores, Deaths, HandleDie   PROVE Deaths'
<1> DEFINE e == events[1]
           g == [of |-> e.of, run |-> e.run, replica |-> None, pc |-> "create", polls |-> 0]
           F == [f \in failovers |-> f]
<1>1. Take("die") /\ UNCHANGED <<docker, run>>   BY DEF HandleDie, dockerVars
<1>2. /\ Len(events) \in Nat /\ Len(events) >= 1 /\ Head(events) = e
      /\ e \in AnyEvent /\ e.kind = "die"
      /\ events' \in Seq(AnyEvent) /\ Len(events') = Len(events) - 1
      /\ \A i \in 1..Len(events') : /\ events'[i] = events[i + 1] /\ i + 1 \in 1..Len(events)
                                    /\ i + 1 # 1
  BY <1>1, Taken
<1>3. failovers' \in {failovers, failovers \cup {g}}   BY <1>2 DEF HandleDie
<1>4. \A d \in Containers, n \in Nat : Past(d, n) => Past(d, n)'   BY <1>1 DEF Past
<1>5. CASE failovers' = failovers
  <2>1. \A f \in failovers : F[f] \in AnyFailover /\ F[f].of = f.of /\ F[f].run = f.run
    BY DEF Deaths
  <2>2. failovers' \subseteq {F[f] : f \in failovers}   BY <1>5
  <2>3. 1 \in {0, 1}   OBVIOUS
  <2> HIDE DEF F, e, g
  <2> QED  BY <1>2, <1>4, <2>1, <2>2, <2>3, DeathsKept
<1>6. CASE failovers' = failovers \cup {g}
  <2>1. g \in AnyFailover /\ g.of = e.of /\ g.run = e.run
    BY <1>2 DEF AnyFailover, AnyEvent, None, Calls
  <2>2. 1 \in 1..Len(events)   BY <1>2
  <2>3. \A f \in failovers : ~ (f.of = e.of /\ f.run = e.run)   BY <1>2, <2>2 DEF Deaths
  <2>4. \A i \in 1..Len(events') :
           events'[i].kind = "die" /\ events'[i].of = e.of => events'[i].run # e.run
    BY <1>2, <2>2 DEF Deaths
  <2>5. Past(e.of, e.run)   BY <1>2, <2>2 DEF Deaths
  <2> HIDE DEF g, e
  <2>6. failovers' \subseteq AnyFailover   BY <1>6, <2>1 DEF Deaths
  <2>7. \A f, h \in failovers' : f.of = h.of /\ f.run = h.run => f = h
    BY <1>6, <2>1, <2>3 DEF Deaths
  <2>8. \A f \in failovers' : f.run <= run[f.of] /\ (docker[f.of] = "running" => f.run < run[f.of])
    BY <1>6, <2>1, <2>5 DEF Deaths, Past
  <2>9. \A i \in 1..Len(events') : events'[i].kind = "die" =>
           /\ events'[i].run <= run[events'[i].of]
           /\ docker[events'[i].of] = "running" => events'[i].run < run[events'[i].of]
    BY <1>2 DEF Deaths, Past
  <2>10. \A i, k \in 1..Len(events') :
            events'[i].kind = "die" /\ events'[k].kind = "die" /\ events'[i].of = events'[k].of
                /\ events'[i].run = events'[k].run => i = k
    <3>1. \A i, k \in 1..Len(events') : i + 1 = k + 1 => i = k   OBVIOUS
    <3> QED  BY <1>2, <3>1 DEF Deaths
  <2>11. \A i \in 1..Len(events'), f \in failovers' :
            events'[i].kind = "die" /\ events'[i].of = f.of => events'[i].run # f.run
    BY <1>2, <1>6, <2>1, <2>4 DEF Deaths
  <2> QED  BY <1>1, <2>6, <2>7, <2>8, <2>9, <2>10, <2>11 DEF Deaths, Past
<1> QED  BY <1>3, <1>5, <1>6

LEMMA DeathsStep == ProtectionInv /\ Stores /\ Deaths /\ [Next]_vars => Deaths'
<1> SUFFICES ASSUME ProtectionInv, Stores, Deaths, [Next]_vars PROVE Deaths'
  OBVIOUS
<1> DEFINE I == [f \in failovers |-> f]
<1>0. /\ \A f \in failovers : I[f] \in AnyFailover /\ I[f].of = f.of /\ I[f].run = f.run
      /\ \A S : S \subseteq failovers => S \subseteq {I[f] : f \in failovers}
      /\ events \in Seq(AnyEvent) /\ Len(events) \in Nat /\ 0 \in {0, 1} /\ 1 \in {0, 1}
  BY DEF Deaths, Stores
<1> HIDE DEF I
<1>1. ASSUME UNCHANGED <<docker, run, events>>, NEW F,
             \A f \in failovers : F[f] \in AnyFailover /\ F[f].of = f.of /\ F[f].run = f.run,
             failovers' \subseteq {F[f] : f \in failovers}
      PROVE  Deaths'
  <2>1. \A d \in Containers, n \in Nat : Past(d, n) => Past(d, n)'   BY <1>1 DEF Past
  <2>2. \A i \in 1..Len(events') : i + 0 \in 1..Len(events) /\ events'[i] = events[i + 0]
    BY <1>0, <1>1
  <2> QED  BY <1>0, <1>1, <2>1, <2>2, DeathsKept
<1>2. ASSUME UNCHANGED <<docker, run, events>>, failovers' \subseteq failovers PROVE Deaths'
  BY <1>0, <1>1, <1>2
<1>3. ASSUME NEW c, Starts(c), NEW F,
             \A f \in failovers : F[f] \in AnyFailover /\ F[f].of = f.of /\ F[f].run = f.run,
             failovers' \subseteq {F[f] : f \in failovers}
      PROVE  Deaths'
  <2>1. /\ events' \in Seq(AnyEvent)
        /\ \A i \in 1..Len(events) : events'[i] = events[i] /\ i \in 1..Len(events')
        /\ \A i \in 1..Len(events') : i \in 1..Len(events) \/ events'[i].kind = "start"
        /\ c \in Containers /\ docker[c] # "running" /\ docker'[c] = "running"
        /\ run'[c] = run[c] + 1 /\ run[c] \in Nat
        /\ \A d \in Containers : d # c => docker'[d] = docker[d] /\ run'[d] = run[d]
    BY <1>3, StartEvents
  <2>2. \A d \in Containers, n \in Nat : Past(d, n) => Past(d, n)'   BY <2>1 DEF Past
  <2>3. \A i \in 1..Len(events') : events'[i].kind = "die" =>
           i + 0 \in 1..Len(events) /\ events'[i] = events[i + 0]
    BY <2>1
  <2> QED  BY <1>0, <1>3, <2>1, <2>2, <2>3, DeathsKept
<1>4. CASE \E c \in Containers : UserStarts(c)
  <2>1. PICK c \in Containers : UserStarts(c)   BY <1>4
  <2>2. Starts(c) /\ failovers' \subseteq failovers   BY <2>1, StartsAndEnds DEF UserStarts
  <2> QED  BY <1>0, <1>3, <2>2
<1>5. CASE \E c \in Containers : ContainerDies(c) \/ UserStops(c)
  BY <1>5, StartsAndEnds, EndIsOneDeath
<1>6. CASE \E c \in Containers : UserSignals(c)
  <2>1. PICK c \in Containers : UserSignals(c)   BY <1>6
  <2>2. UNCHANGED <<docker, run>> /\ failovers' \subseteq failovers
    BY <2>1 DEF UserSignals, dockerVars
  <2>3. /\ events' \in Seq(AnyEvent)
        /\ \A i \in 1..Len(events) : events'[i] = events[i]
        /\ \A i \in 1..Len(events') : i \in 1..Len(events) \/ events'[i].kind = "kill"
    BY <2>1, SignalEvents
  <2>4. \A d \in Containers, n \in Nat : Past(d, n) => Past(d, n)'   BY <2>2 DEF Past
  <2>5. \A i \in 1..Len(events') : events'[i].kind = "die" =>
           i + 0 \in 1..Len(events) /\ events'[i] = events[i + 0]
    BY <2>3
  <2> QED  BY <1>0, <2>2, <2>3, <2>4, <2>5, DeathsKept
<1>7. CASE HandleStart \/ HandleStop
  <2>1. (\E kind : Take(kind)) /\ UNCHANGED <<docker, run>> /\ failovers' \subseteq failovers
    BY <1>7 DEF HandleStart, HandleStop, dockerVars
  <2>2. /\ events' \in Seq(AnyEvent)
        /\ \A i \in 1..Len(events') : i + 1 \in 1..Len(events) /\ events'[i] = events[i + 1]
    BY <2>1, Taken
  <2>3. \A d \in Containers, n \in Nat : Past(d, n) => Past(d, n)'   BY <2>1 DEF Past
  <2> QED  BY <1>0, <2>1, <2>2, <2>3, DeathsKept
<1>8. CASE HandleDie   BY <1>8, DeathGetsFailover
<1>9. ASSUME NEW f \in failovers, FailoverStep(f) PROVE Deaths'
  <2> DEFINE G(g) == [h \in failovers |-> IF h = f THEN g ELSE h]
  <2>0. f \in AnyFailover   BY DEF Deaths
  <2>1. ASSUME NEW g \in AnyFailover, g.of = f.of, g.run = f.run,
               failovers' = Replaced(failovers, f, g)
        PROVE  /\ \A h \in failovers : /\ G(g)[h] \in AnyFailover /\ G(g)[h].of = h.of
                                       /\ G(g)[h].run = h.run
               /\ failovers' \subseteq {G(g)[h] : h \in failovers}
    BY <2>1 DEF Deaths, Replaced
  <2> HIDE DEF G
  <2>2. CASE CreateFails(f) \/ StartFails(f) \/ ReloadBreaks(f) \/ Recovered(f)
    <3>1. failovers' \subseteq failovers
      BY <2>2 DEF CreateFails, StartFails, ReloadBreaks, Recovered
    <3> QED  BY <1>2, <2>2, <3>1, OthersKeepEvents
  <2>3. CASE StartReplica(f)
    <3> DEFINE g == [f EXCEPT !.pc = "sleep"]
    <3>1. g \in AnyFailover /\ g.of = f.of /\ g.run = f.run   BY <2>0 DEF AnyFailover
    <3>2. failovers' = Replaced(failovers, f, g)   BY <2>3 DEF StartReplica
    <3> HIDE DEF g
    <3>3. Starts(f.replica)   BY <2>3, StartsAndEnds
    <3> QED  BY <1>3, <2>1, <3>1, <3>2, <3>3
  <2>4. CASE Poll(f)
    <3> DEFINE g == [f EXCEPT !.pc = "reload", !.polls = @ + 1]
    <3>1. Shaped(f) /\ f.polls + 1 \in Nat
      BY <2>0 DEF ProtectionInv, FailoversOK, AnyFailover
    <3>2. Shaped(g) /\ g.of = f.of /\ g.run = f.run /\ g.replica = f.replica /\ g.pc = "reload"
          /\ g.polls = f.polls + 1
      BY <3>1 DEF Shaped
    <3> HIDE DEF g
    <3>3. g \in AnyFailover /\ g.of = f.of /\ g.run = f.run
      BY <2>0, <3>1, <3>2 DEF AnyFailover, Shaped, Calls
    <3>4. failovers' = Replaced(failovers, f, g)   BY <2>4 DEF Poll, g
    <3> QED  BY <1>1, <2>1, <2>4, <3>3, <3>4, OthersKeepEvents
  <2>5. CASE Reloaded(f) \/ ReloadFails(f)
    <3>1. PICK pc \in {"healthy", "sleep", "timeout"} :
             failovers' = Replaced(failovers, f, [f EXCEPT !.pc = pc])
      BY <2>5 DEF Reloaded, ReloadFails, Unconfirmed
    <3> DEFINE g == [f EXCEPT !.pc = pc]
    <3>2. g \in AnyFailover /\ g.of = f.of /\ g.run = f.run   BY <2>0 DEF AnyFailover
    <3>3. failovers' = Replaced(failovers, f, g)   BY <3>1
    <3> HIDE DEF g
    <3> QED  BY <1>1, <2>1, <2>5, <3>2, <3>3, OthersKeepEvents
  <2>6. CASE Create(f)
    <3>1. PICK r \in Fresh :
             /\ docker' = [docker EXCEPT ![r] = "created"]
             /\ failovers' = Replaced(failovers, f, [f EXCEPT !.pc = "start", !.replica = r])
      BY <2>6 DEF Create
    <3> DEFINE g == [f EXCEPT !.pc = "start", !.replica = r]
    <3>2. r \in Containers /\ UNCHANGED <<run, events>>   BY <2>6 DEF Fresh, Create
    <3>3. g \in AnyFailover /\ g.of = f.of /\ g.run = f.run
      BY <2>0, <3>2, Bounds DEF AnyFailover, Calls
    <3>4. failovers' = Replaced(failovers, f, g)   BY <3>1
    <3> HIDE DEF g
    <3>5. \A d \in Containers : docker'[d] = "running" => docker[d] = "running"
      BY <3>1 DEF ProtectionInv, DockerOK
    <3>6. \A d \in Containers, n \in Nat : Past(d, n) => Past(d, n)'   BY <3>2, <3>5 DEF Past
    <3>7. \A i \in 1..Len(events') : i + 0 \in 1..Len(events) /\ events'[i] = events[i + 0]
      BY <1>0, <3>2
    <3> QED  BY <1>0, <2>1, <3>2, <3>3, <3>4, <3>6, <3>7, DeathsKept
  <2> QED  BY <1>9, <2>2, <2>3, <2>4, <2>5, <2>6 DEF FailoverStep
<1>10. CASE \/ \E c \in Containers : MarkCritical(c)
            \/ Disconnect \/ Relisten
            \/ \E m \in monitors : MonitorStep(m)
            \/ \E j \in pool.busy : LogLine(j) \/ StreamDrops(j) \/ StreamEnds(j)
            \/ UNCHANGED vars
  <2>1. failovers' \subseteq failovers
    BY <1>10 DEF MarkCritical, Disconnect, Relisten, MonitorStep, Attach, AttachFails, NeverAttached,
                 MonitorEnds, LogLine, StreamDrops, StreamEnds, vars
  <2> QED  BY <1>2, <1>10, <2>1, OthersKeepEvents
<1> QED  BY <1>4, <1>5, <1>6, <1>7, <1>8, <1>9, <1>10 DEF Next, HandleEvent

-----------------------------------------------------------------------------
(* Jobs and threads.                                                       *)

\* A job stays backed while its failover goes on and no task takes its number.
LEMMA BackedStays ==
    ASSUME NEW j, Backed(j), Tasks,
           attached' \in [Containers -> Nat], \A c \in Containers : attached[c] <= attached'[c],
           \A m \in monitors' :
              m.pc = "new" => \/ \E n \in monitors : n.pc = "new" /\ n.of = m.of /\ n.no = m.no
                              \/ m.of \in Containers /\ attached[m.of] < m.no /\ m.no \in Nat,
           \A g \in failovers : FailoverJob(g) = j /\ g.pc \in Calls => g \in failovers',
           j \in AnyJob
    PROVE  Backed(j)'
<1>1. CASE j = Listen   BY <1>1 DEF Backed
<1>2. CASE j.kind = "next" /\ j.of \in Containers /\ j.no <= attached[j.of]
           /\ \A m \in monitors : m.of = j.of /\ m.no = j.no => m.pc # "new"
  <2>1. attached[j.of] \in Nat /\ attached'[j.of] \in Nat /\ j.no \in Nat
    BY <1>2 DEF Tasks, AnyJob
  <2>2. j.no <= attached'[j.of]   BY <1>2, <2>1
  <2>3. \A m \in monitors' : m.of = j.of /\ m.no = j.no => m.pc # "new"
    BY <1>2, <2>1
  <2> QED  BY <1>2, <2>2, <2>3 DEF Backed
<1>3. CASE j.kind \in Calls /\ \E f \in failovers : FailoverJob(f) = j
  BY <1>3 DEF Backed, FailoverJob, Job
<1> QED  BY <1>1, <1>2, <1>3 DEF Backed

\* Log tasks that go on do not become new again.
LEMMA BackedByFailovers ==
    ASSUME NEW j, Backed(j), Tasks, UNCHANGED <<monitors, attached>>, j \in AnyJob,
           \A g \in failovers : FailoverJob(g) = j /\ g.pc \in Calls => g \in failovers'
    PROVE  Backed(j)'
<1>1. attached' \in [Containers -> Nat] /\ \A c \in Containers : attached[c] <= attached'[c]
  BY DEF Tasks
<1> QED  BY <1>1, BackedStays

LEMMA PooledJobs == \A P : Sound(P) => Pooled(P) \subseteq AnyJob
BY DEF Sound, Single, Pooled

LEMMA Kinds ==
    /\ Listen \in AnyJob /\ Listen.kind = "listen"
    /\ \A f : FailoverJob(f).kind = f.pc /\ FailoverJob(f).of = f.of /\ FailoverJob(f).run = f.run
    /\ \A m : NextJob(m).kind = "next" /\ NextJob(m).of = m.of /\ NextJob(m).no = m.no
              /\ NextJob(m).run = m.run
    /\ \A k, c, n, r : Job(k, c, n, r).kind = k /\ Job(k, c, n, r).of = c
                       /\ Job(k, c, n, r).no = n /\ Job(k, c, n, r).run = r
    /\ \A k \in {"next"} \cup Calls, c \in Containers, n \in Nat, r \in Nat :
          Job(k, c, n, r) \in AnyJob
    /\ "listen" \notin Calls /\ "next" \notin Calls
BY Bounds DEF Listen, Job, FailoverJob, NextJob, AnyJob, Calls

\* Other jobs come and go: the stream is back when its job has a thread.
LEMMA OthersLetListen ==
    ASSUME Listening, Sound(pool), NEW P, Sound(P), SetPool(P), disconnects' = disconnects,
           Listen \in pool.busy => Listen \in P.busy,
           Listen \in Pooled(P) => Listen \in Pooled(pool)
    PROVE  Listening' /\ Sound(pool')
<1>1. pool' = P /\ listening' = IF Listen \in P.busy THEN "on" ELSE listening
  BY DEF SetPool
<1>2. listening' = "on" <=> Listen \in pool'.busy   BY <1>1 DEF Listening
<1>3. listening' \in {"on", "retry", "queued"} /\ (disconnects' = 0 => listening' = "on")
  BY <1>1 DEF Listening
<1>4. Listen \in Pooled(pool') => listening' # "retry"   BY <1>1 DEF Listening
<1> QED  BY <1>1, <1>2, <1>3, <1>4 DEF Listening

\* A job that is over, and is not the stream's.
LEMMA JobEnds ==
    ASSUME Listening, Threads, NEW j \in pool.busy, j.kind # "listen", SetPool(Done(pool, j)),
           disconnects' = disconnects, \A i \in Pooled(pool) : i # j => Backed(i)'
    PROVE  Listening' /\ Threads'
<1>1. /\ Sound(Done(pool, j)) /\ Pooled(Done(pool, j)) = Pooled(pool) \ {j}
      /\ pool.busy \ {j} \subseteq Done(pool, j).busy /\ Sound(pool)
  BY Finished DEF Threads
<1>2. j # Listen   BY Kinds
<1>3. Listening' /\ Sound(pool')   BY <1>1, <1>2, OthersLetListen
<1>4. pool' = Done(pool, j)   BY DEF SetPool
<1>5. \A i \in Pooled(pool') : Backed(i)'   BY <1>1, <1>4
<1> QED  BY <1>3, <1>5 DEF Threads, Pooled

\* A job that is submitted, to a pool that has changed already or not.
LEMMA JobComes ==
    ASSUME Listening, Threads, NEW P, Sound(P), NEW j \in AnyJob, j.kind # "listen",
           j \notin Pooled(P), SetPool(Submit(P, j)), disconnects' = disconnects,
           Listen \in pool.busy => Listen \in P.busy,
           Listen \in Pooled(P) => Listen \in Pooled(pool),
           Backed(j)', \A i \in Pooled(P) : Backed(i)'
    PROVE  Listening' /\ Threads'
<1>1. /\ Sound(Submit(P, j)) /\ Pooled(Submit(P, j)) = Pooled(P) \cup {j}
      /\ P.busy \subseteq Submit(P, j).busy /\ Sound(pool)
  BY Submitted DEF Threads
<1>2. j # Listen   BY Kinds
<1>3. Listening' /\ Sound(pool')   BY <1>1, <1>2, OthersLetListen
<1>4. pool' = Submit(P, j)   BY DEF SetPool
<1>5. \A i \in Pooled(pool') : Backed(i)'   BY <1>1, <1>4
<1> QED  BY <1>3, <1>5 DEF Threads, Pooled

\* Handlers of the events: what they submit is new, since each death is handled once.
LEMMA EventThreads ==
    ASSUME ProtectionInv, Stores, Tasks, Deaths, Threads, Listening, HandleEvent
    PROVE  Listening' /\ Threads'
<1>0. /\ Sound(pool) /\ \A j \in Pooled(pool) : Backed(j) /\ j \in AnyJob
      /\ Listen \in pool.busy => Listen \in Pooled(pool)
  BY PooledJobs DEF Threads, Pooled
<1>1. CASE HandleStart
  <2> DEFINE c == events[1].of
             m == [of |-> c, no |-> attached[c] + 1, run |-> 0, pc |-> "new", cancelled |-> FALSE]
  <2>1. Take("start") /\ UNCHANGED <<pool, listening, failovers, disconnects>>
    BY <1>1 DEF HandleStart, counters
  <2>2. Head(events) = events[1] /\ c \in Containers   BY <2>1, Taken DEF AnyEvent
  <2>3. attached[c] \in Nat   BY <2>2 DEF Tasks
  <2>4. \/ UNCHANGED <<monitors, attached>>
        \/ attached' = [attached EXCEPT ![c] = @ + 1] /\ monitors' = monitors \cup {m}
    BY <1>1, <2>2 DEF HandleStart, monitorVars
  <2>5. m.of = c /\ m.no = attached[c] + 1   OBVIOUS
  <2> HIDE DEF m
  <2>6. attached' \in [Containers -> Nat] /\ \A d \in Containers : attached[d] <= attached'[d]
    BY <2>2, <2>3, <2>4 DEF Tasks
  <2>7. \A n \in monitors' :
           n.pc = "new" => \/ \E o \in monitors : o.pc = "new" /\ o.of = n.of /\ o.no = n.no
                           \/ n.of \in Containers /\ attached[n.of] < n.no /\ n.no \in Nat
    BY <2>2, <2>3, <2>4, <2>5
  <2>8. \A j \in Pooled(pool) : Backed(j)'
    BY <1>0, <2>1, <2>6, <2>7, BackedStays
  <2>9. Pooled(pool') = Pooled(pool)   BY <2>1
  <2> QED  BY <1>0, <2>1, <2>8, <2>9 DEF Threads, Listening
<1>2. ASSUME NEW c \in Containers, StopMonitoring(c), failovers \subseteq failovers'
      PROVE  \A j \in Pooled(pool) : Backed(j)'
  <2>1. /\ attached' = attached
        /\ monitors' = {IF m.of = c /\ m.no = streams[c] THEN [m EXCEPT !.cancelled = TRUE] ELSE m :
                          m \in monitors}
    BY <1>2 DEF StopMonitoring
  <2>2. \A n \in monitors' :
           n.pc = "new" => \E o \in monitors : o.pc = "new" /\ o.of = n.of /\ o.no = n.no
    BY <2>1 DEF Tasks, AnyMonitor
  <2>3. attached' \in [Containers -> Nat] /\ \A d \in Containers : attached[d] <= attached'[d]
    BY <2>1 DEF Tasks
  <2> QED  BY <1>0, <1>2, <2>2, <2>3, BackedStays
<1>3. ASSUME NEW c \in Containers, StopMonitoring(c), failovers \subseteq failovers',
             SetPool(Unqueued(c)), disconnects' = disconnects
      PROVE  Listening' /\ Threads'
  <2>1. \A j \in Pooled(pool) : Backed(j)'   BY <1>2, <1>3
  <2>2. Sound(Unqueued(c)) /\ Pooled(Unqueued(c)) \subseteq Pooled(pool)
        /\ Unqueued(c).busy = pool.busy
    BY <1>0, Withdrawn
  <2>3. Listening' /\ Sound(pool')   BY <1>0, <1>3, <2>2, OthersLetListen
  <2>4. pool' = Unqueued(c)   BY <1>3 DEF SetPool
  <2>5. \A j \in Pooled(pool') : Backed(j)'   BY <2>1, <2>2, <2>4
  <2> QED  BY <2>3, <2>5 DEF Threads, Pooled
<1>4. CASE HandleStop
  <2>1. (\E kind : Take(kind)) /\ StopMonitoring(Head(events).of)
        /\ SetPool(Unqueued(Head(events).of)) /\ UNCHANGED <<failovers, disconnects>>
    BY <1>4 DEF HandleStop, counters
  <2>2. Head(events).of \in Containers   BY <2>1, Taken DEF AnyEvent
  <2> QED  BY <1>3, <2>1, <2>2
<1>5. CASE HandleDie
  <2> DEFINE c == Head(events).of
             n == Head(events).run
             g == [of |-> c, run |-> n, replica |-> None, pc |-> "create", polls |-> 0]
  <2>0. PICK J : J = Job("create", c, 0, n)   OBVIOUS
  <2>1. Take("die") /\ StopMonitoring(c) /\ UNCHANGED disconnects
    BY <1>5 DEF HandleDie, counters
  <2>2. c \in Containers /\ n \in Nat /\ events[1] = Head(events) /\ events[1].kind = "die"
        /\ 1 \in 1..Len(events)
    BY <2>1, Taken DEF AnyEvent
  <2>3. \/ failovers' = failovers /\ SetPool(Unqueued(c))
        \/ failovers' = failovers \cup {g} /\ SetPool(Submit(Unqueued(c), J))
    BY <1>5, <2>0 DEF HandleDie
  <2>4. CASE failovers' = failovers /\ SetPool(Unqueued(c))
    <3> HIDE DEF c
    <3> QED  BY <1>3, <2>1, <2>2, <2>4
  <2>5. CASE failovers' = failovers \cup {g} /\ SetPool(Submit(Unqueued(c), J))
    <3>1. J \in AnyJob /\ J.kind = "create" /\ J.of = c /\ J.run = n
      <4>1. "create" \in {"next"} \cup Calls /\ 0 \in Nat   BY DEF Calls
      <4> HIDE DEF c, n
      <4> QED  BY <2>0, <2>2, <4>1, Kinds
    <3>2. FailoverJob(g) = J   BY <2>0 DEF FailoverJob
    <3>3. \A f \in failovers : ~ (f.of = c /\ f.run = n)
      BY <2>2 DEF Deaths
    <3> HIDE DEF c, n, g
    <3>4. Sound(Unqueued(c)) /\ Pooled(Unqueued(c)) \subseteq Pooled(pool)
          /\ Unqueued(c).busy = pool.busy
      BY <1>0, Withdrawn
    <3>5. J \notin Pooled(pool)
      <4> SUFFICES ASSUME J \in Pooled(pool) PROVE FALSE
        OBVIOUS
      <4>1. Backed(J)   BY <1>0
      <4>2. \E f \in failovers : FailoverJob(f) = J   BY <3>1, <4>1, Kinds DEF Backed
      <4> QED  BY <3>1, <3>3, <4>2, Kinds
    <3>6. \A j \in Pooled(pool) : Backed(j)'   BY <1>2, <2>1, <2>2, <2>5
    <3>7. g \in failovers' /\ J.kind \in Calls   BY <2>5, <3>1 DEF Calls
    <3>8. Backed(J)'   BY <3>2, <3>7 DEF Backed, FailoverJob
    <3>9. \A j \in Pooled(Unqueued(c)) : Backed(j)'   BY <3>4, <3>6
    <3>10. J.kind # "listen" /\ J \notin Pooled(Unqueued(c))   BY <3>1, <3>4, <3>5
    <3> QED  BY <2>1, <2>5, <3>1, <3>4, <3>8, <3>9, <3>10, JobComes
  <2> QED  BY <2>3, <2>4, <2>5
<1> QED  BY <1>1, <1>4, <1>5 DEF HandleEvent

\* Log tasks: each waits for one line at a time.
LEMMA TaskThreads ==
    ASSUME ProtectionInv, Stores, Tasks, Deaths, Threads, Listening,
           \/ \E m \in monitors : MonitorStep(m)
           \/ \E j \in pool.busy : LogLine(j) \/ StreamDrops(j) \/ StreamEnds(j)
    PROVE  Listening' /\ Threads'
<1>0. /\ Sound(pool) /\ \A j \in Pooled(pool) : Backed(j) /\ j \in AnyJob
      /\ pool.busy \subseteq Pooled(pool)
  BY PooledJobs DEF Threads, Pooled
<1>1. ASSUME UNCHANGED <<attached, failovers>>,
             \A n \in monitors' :
                n.pc = "new" => \E o \in monitors : o.pc = "new" /\ o.of = n.of /\ o.no = n.no
      PROVE  \A j \in Pooled(pool) : Backed(j)'
  <2>1. attached' \in [Containers -> Nat] /\ \A d \in Containers : attached[d] <= attached'[d]
    BY <1>1 DEF Tasks
  <2> QED  BY <1>0, <1>1, <2>1, BackedStays
<1>2. ASSUME NEW m \in monitors, AttachFails(m) \/ NeverAttached(m) \/ MonitorEnds(m)
      PROVE  Listening' /\ Threads'
  <2>1. UNCHANGED <<attached, failovers, pool, listening, disconnects>> /\ monitors' \subseteq monitors
    BY <1>2 DEF AttachFails, NeverAttached, MonitorEnds, counters
  <2>2. \A j \in Pooled(pool) : Backed(j)'   BY <1>1, <2>1
  <2>3. Pooled(pool') = Pooled(pool)   BY <2>1
  <2> QED  BY <1>0, <2>1, <2>2, <2>3 DEF Threads, Listening
<1>3. ASSUME NEW m \in monitors, Attach(m) PROVE Listening' /\ Threads'
  <2> DEFINE r == [m EXCEPT !.pc = "reading", !.run = run[m.of]]
  <2>9. PICK J : J = NextJob(r)   OBVIOUS
  <2>0. m \in AnyMonitor /\ m.of \in Containers /\ run[m.of] \in Nat /\ m.pc = "new"
    BY <1>3 DEF Tasks, AnyMonitor, ProtectionInv, DockerOK, Attach
  <2>1. r \in AnyMonitor /\ r.of = m.of /\ r.no = m.no /\ r.pc = "reading"
    BY <2>0 DEF AnyMonitor
  <2>2. /\ monitors' = (monitors \ {m}) \cup {r} /\ UNCHANGED <<attached, failovers, disconnects>>
        /\ SetPool(Submit(pool, J))
    BY <1>3, <2>9 DEF Attach, Replaced, counters
  <2> HIDE DEF r
  <2>3. J.kind = "next" /\ J.of = m.of /\ J.no = m.no   BY <2>1, <2>9, Kinds
  <2>4. J \in AnyJob
    <3>1. r.of \in Containers /\ r.no \in Nat /\ r.run \in Nat   BY <2>1 DEF AnyMonitor
    <3> QED  BY <2>9, <3>1, Kinds DEF NextJob
  <2>5. \A j \in Pooled(pool) : Backed(j)'   BY <1>1, <2>1, <2>2
  <2>6. J \notin Pooled(pool)
    <3> SUFFICES ASSUME J \in Pooled(pool) PROVE FALSE
      OBVIOUS
    <3>1. Backed(J) /\ J # Listen /\ J.kind \notin Calls   BY <1>0, <2>3, Kinds
    <3>2. \A n \in monitors : n.of = J.of /\ n.no = J.no => n.pc # "new"   BY <3>1 DEF Backed
    <3> QED  BY <2>0, <2>3, <3>2
  <2>7. Backed(J)'
    <3>1. m.no <= attached'[m.of]   BY <2>2 DEF Tasks
    <3>2. \A n \in monitors' : n.of = m.of /\ n.no = m.no => n.pc # "new"
      <4>1. \A n \in monitors : n.of = m.of /\ n.no = m.no => n = m   BY DEF Tasks
      <4> QED  BY <2>1, <2>2, <4>1
    <3> QED  BY <2>0, <2>3, <3>1, <3>2 DEF Backed
  <2>8. J.kind # "listen"   BY <2>3
  <2> QED  BY <1>0, <2>2, <2>4, <2>5, <2>6, <2>7, <2>8, JobComes
<1>4. ASSUME NEW j \in pool.busy, StreamDrops(j) \/ StreamEnds(j) PROVE Listening' /\ Threads'
  <2>1. PICK mine \in SUBSET monitors :
           monitors' = (monitors \ mine) \cup {[m EXCEPT !.pc = "ended"] : m \in mine}
    BY <1>4, TasksEnd
  <2>2. /\ UNCHANGED <<attached, failovers, disconnects>>
        /\ j.kind = "next" /\ SetPool(Done(pool, j))
    BY <1>4 DEF StreamDrops, StreamEnds, counters
  <2>3. \A m \in mine : [m EXCEPT !.pc = "ended"].pc = "ended"   BY DEF Tasks, AnyMonitor
  <2>4. \A n \in monitors' : n.pc = "new" => n \in monitors   BY <2>1, <2>3
  <2>5. \A i \in Pooled(pool) : Backed(i)'   BY <1>1, <2>2, <2>4
  <2> QED  BY <2>2, <2>5, JobEnds
<1>5. ASSUME NEW j \in pool.busy, LogLine(j) PROVE Listening' /\ Threads'
  <2>1. /\ UNCHANGED <<monitors, attached, failovers, disconnects>> /\ j.kind = "next"
        /\ \/ SetPool(Submit(Done(pool, j), j))
           \/ SetPool(Done(pool, j))
    BY <1>5 DEF LogLine, monitorVars, counters
  <2>2. \A i \in Pooled(pool) : Backed(i)'   BY <1>1, <2>1
  <2>3. CASE SetPool(Done(pool, j))   BY <2>1, <2>2, <2>3, JobEnds
  <2>4. CASE SetPool(Submit(Done(pool, j), j))
    <3>1. /\ Sound(Done(pool, j)) /\ Pooled(Done(pool, j)) = Pooled(pool) \ {j}
          /\ pool.busy \ {j} \subseteq Done(pool, j).busy
      BY <1>0, Finished
    <3>2. j \in AnyJob /\ j # Listen /\ j.kind # "listen" /\ j \in Pooled(pool)
      BY <1>0, <2>1, Kinds
    <3>3. Backed(j)' /\ \A i \in Pooled(Done(pool, j)) : Backed(i)'   BY <2>2, <3>1, <3>2
    <3> DEFINE P == Done(pool, j)
    <3>4. /\ j \notin Pooled(P) /\ (Listen \in pool.busy => Listen \in P.busy)
          /\ (Listen \in Pooled(P) => Listen \in Pooled(pool))
      BY <3>1, <3>2
    <3> HIDE DEF P
    <3>5. Sound(P) /\ SetPool(Submit(P, j)) /\ \A i \in Pooled(P) : Backed(i)'
      BY <2>4, <3>1, <3>3 DEF P
    <3> QED  BY <2>1, <3>2, <3>3, <3>4, <3>5, JobComes
  <2> QED  BY <2>1, <2>3, <2>4
<1> QED  BY <1>2, <1>3, <1>4, <1>5 DEF MonitorStep

\* A failover has at most one call in the pool, which is the next one to make.
LEMMA FailoverThreads ==
    ASSUME ProtectionInv, Stores, Tasks, Deaths, Threads, Listening,
           NEW f \in failovers, FailoverStep(f)
    PROVE  Listening' /\ Threads'
<1>0. /\ Sound(pool) /\ \A j \in Pooled(pool) : Backed(j) /\ j \in AnyJob
      /\ pool.busy \subseteq Pooled(pool)
      /\ f \in AnyFailover /\ f.of \in Containers /\ f.run \in Nat
  BY PooledJobs DEF Threads, Pooled, Deaths, AnyFailover
<1> PICK J : J = FailoverJob(f)   OBVIOUS
<1>1. J.kind = f.pc /\ J.of = f.of /\ J.run = f.run   BY Kinds
<1>2. ASSUME UNCHANGED <<monitors, attached>>, failovers \ {f} \subseteq failovers'
      PROVE  \A j \in Pooled(pool) : j # J \/ f.pc \notin Calls => Backed(j)'
  <2> SUFFICES ASSUME NEW j \in Pooled(pool), j # J \/ f.pc \notin Calls   PROVE Backed(j)'
    OBVIOUS
  <2>1. \A g \in failovers : FailoverJob(g) = j /\ g.pc \in Calls => g \in failovers'
    BY <1>2
  <2> QED  BY <1>0, <1>2, <2>1, BackedByFailovers
<1>3. ASSUME NEW j \in Pooled(pool), j.of = f.of, j.run = f.run, j.kind \in Calls
      PROVE  j = J
  <2>1. \E g \in failovers : FailoverJob(g) = j   BY <1>0, <1>3, Kinds DEF Backed
  <2> QED  BY <1>3, <2>1, Kinds DEF Deaths
<1>4. ASSUME J \in pool.busy, f.pc \in Calls, SetPool(Done(pool, J)),
             UNCHANGED <<monitors, attached, disconnects>>, failovers \ {f} \subseteq failovers'
      PROVE  Listening' /\ Threads'
  <2>1. \A j \in Pooled(pool) : j # J => Backed(j)'   BY <1>2, <1>4
  <2>2. J.kind # "listen"   BY <1>1, <1>4, Kinds
  <2> QED  BY <1>4, <2>1, <2>2, JobEnds
<1>5. ASSUME NEW P, Sound(P), Pooled(P) \subseteq Pooled(pool), f.pc \in Calls => J \notin Pooled(P),
             Listen \in pool.busy => Listen \in P.busy,
             NEW g, g \in failovers', g.of = f.of, g.run = f.run, g.pc \in Calls, g.pc # f.pc,
             SetPool(Submit(P, Job(g.pc, f.of, 0, f.run))),
             UNCHANGED <<monitors, attached, disconnects>>, failovers \ {f} \subseteq failovers'
      PROVE  Listening' /\ Threads'
  <2>1. PICK N : N = Job(g.pc, f.of, 0, f.run)   OBVIOUS
  <2>2. N.kind = g.pc /\ N.of = f.of /\ N.run = f.run   BY <2>1, Kinds
  <2>3. N \in AnyJob
    <3>1. g.pc \in {"next"} \cup Calls /\ 0 \in Nat   BY <1>5
    <3> QED  BY <1>0, <2>1, <3>1, Kinds
  <2>4. N \notin Pooled(P)
    <3>1. N \in Pooled(P) => N = J   BY <1>3, <1>5, <2>2
    <3> QED  BY <1>1, <1>5, <2>2, <3>1
  <2>5. N.kind # "listen"   BY <1>5, <2>2, Kinds
  <2>6. \A j \in Pooled(P) : Backed(j)'   BY <1>2, <1>5
  <2>7. FailoverJob(g) = N   BY <1>5, <2>1 DEF FailoverJob
  <2>8. Backed(N)'
    <3>1. \E h \in failovers' : FailoverJob(h) = N   BY <1>5, <2>7
    <3> QED  BY <1>5, <2>2, <3>1 DEF Backed, FailoverJob
  <2>9. Listen \in Pooled(P) => Listen \in Pooled(pool)   BY <1>5
  <2>10. SetPool(Submit(P, N))   BY <1>5, <2>1
  <2> QED  BY <1>5, <2>3, <2>4, <2>5, <2>6, <2>8, <2>9, <2>10, JobComes
<1>6. CASE \/ CreateFails(f) \/ StartFails(f) \/ StartReplica(f)
           \/ Reloaded(f) \/ ReloadFails(f) \/ ReloadBreaks(f)
  <2>1. /\ f.pc \in Calls /\ J \in pool.busy /\ SetPool(Done(pool, J))
        /\ UNCHANGED <<monitors, attached, disconnects>> /\ failovers \ {f} \subseteq failovers'
    BY <1>6 DEF CreateFails, StartFails, StartReplica, Reloaded, ReloadFails, ReloadBreaks, Calls, monitorVars, counters,
                Replaced
  <2> QED  BY <1>4, <2>1
<1>7. CASE Create(f)
  <2>1. PICK r \in Fresh :
           failovers' = Replaced(failovers, f, [f EXCEPT !.pc = "start", !.replica = r])
    BY <1>7 DEF Create
  <2>2. PICK g : g = [f EXCEPT !.pc = "start", !.replica = r]   OBVIOUS
  <2>3. g.of = f.of /\ g.run = f.run /\ g.pc = "start"   BY <1>0, <2>2 DEF AnyFailover
  <2>4. g \in failovers' /\ failovers \ {f} \subseteq failovers'   BY <2>1, <2>2 DEF Replaced
  <2>5. /\ f.pc = "create" /\ J \in pool.busy
        /\ SetPool(Submit(Done(pool, J), Job("start", f.of, 0, f.run)))
        /\ UNCHANGED <<monitors, attached, disconnects>>
    BY <1>7 DEF Create, monitorVars, counters
  <2>6. /\ Sound(Done(pool, J)) /\ Pooled(Done(pool, J)) = Pooled(pool) \ {J}
        /\ pool.busy \ {J} \subseteq Done(pool, J).busy
    BY <1>0, <2>5, Finished
  <2>7. g.pc \in Calls /\ J # Listen   BY <1>1, <2>3, <2>5, Kinds DEF Calls
  <2> DEFINE P == Done(pool, J)
  <2>8. /\ Sound(P) /\ Pooled(P) \subseteq Pooled(pool) /\ J \notin Pooled(P)
        /\ Listen \in pool.busy => Listen \in P.busy
    BY <2>6, <2>7
  <2>9. SetPool(Submit(P, Job(g.pc, f.of, 0, f.run)))   BY <2>3, <2>5
  <2> HIDE DEF P
  <2> QED  BY <1>5, <2>3, <2>4, <2>5, <2>7, <2>8, <2>9
<1>8. CASE Poll(f)
  <2>1. PICK g : g = [f EXCEPT !.pc = "reload", !.polls = @ + 1]   OBVIOUS
  <2>2. g.of = f.of /\ g.run = f.run /\ g.pc = "reload"   BY <1>0, <2>1 DEF AnyFailover
  <2>3. /\ f.pc = "sleep" /\ SetPool(Submit(pool, Job("reload", f.of, 0, f.run)))
        /\ failovers' = (failovers \ {f}) \cup {g}
        /\ UNCHANGED <<monitors, attached, disconnects>>
    BY <1>8, <2>1 DEF Poll, Replaced, monitorVars, counters
  <2>4. g \in failovers' /\ failovers \ {f} \subseteq failovers'   BY <2>3
  <2>5. g.pc \in Calls /\ f.pc \notin Calls   BY <2>2, <2>3 DEF Calls
  <2> QED  BY <1>0, <1>5, <2>2, <2>3, <2>4, <2>5
<1>9. CASE Recovered(f)
  <2>1. /\ f.pc \notin Calls /\ UNCHANGED <<pool, listening, monitors, attached, disconnects>>
        /\ failovers' = failovers \ {f}
    BY <1>9 DEF Recovered, Calls, monitorVars, counters
  <2>2. \A j \in Pooled(pool) : Backed(j)'   BY <1>2, <2>1
  <2>3. Pooled(pool') = Pooled(pool)   BY <2>1
  <2> QED  BY <1>0, <2>1, <2>2, <2>3 DEF Threads, Listening
<1> QED  BY <1>6, <1>7, <1>8, <1>9 DEF FailoverStep

LEMMA ThreadsStep ==
    ProtectionInv /\ Stores /\ Tasks /\ Deaths /\ Threads /\ Listening /\ [Next]_vars
        => Listening' /\ Threads'
<1> SUFFICES ASSUME ProtectionInv, Stores, Tasks, Deaths, Threads, Listening, [Next]_vars
             PROVE  Listening' /\ Threads'
  OBVIOUS
<1>0. /\ Sound(pool) /\ \A j \in Pooled(pool) : Backed(j) /\ j \in AnyJob
      /\ pool.busy \subseteq Pooled(pool)
  BY PooledJobs DEF Threads, Pooled
<1>1. ASSUME UNCHANGED <<monitors, attached, failovers>>
      PROVE  \A j \in Pooled(pool) : Backed(j)'
  BY <1>0, <1>1, BackedByFailovers
<1>2. ASSUME UNCHANGED <<pool, listening, disconnects, monitors, attached, failovers>>
      PROVE  Listening' /\ Threads'
  <2>1. \A j \in Pooled(pool) : Backed(j)'   BY <1>1, <1>2
  <2>2. Pooled(pool') = Pooled(pool)   BY <1>2
  <2> QED  BY <1>0, <1>2, <2>1, <2>2 DEF Threads, Listening
<1>3. CASE \E c \in Containers : \/ UserStarts(c) \/ ContainerDies(c) \/ UserStops(c)
                                  \/ UserSignals(c) \/ MarkCritical(c)
  <2>1. UNCHANGED <<pool, listening, disconnects, monitors, attached, failovers>>
    BY <1>3 DEF UserStarts, ContainerDies, UserStops, UserSignals, MarkCritical, monitorVars,
                counters
  <2> QED  BY <1>2, <2>1
<1>4. CASE UNCHANGED vars   BY <1>2, <1>4 DEF vars, monitorVars, counters
<1>5. CASE Disconnect
  <2>1. /\ listening = "on" /\ pool' = Done(pool, Listen) /\ listening' = "retry"
        /\ disconnects' = disconnects + 1 /\ UNCHANGED <<monitors, attached, failovers>>
    BY <1>5 DEF Disconnect, monitorVars
  <2>2. Listen \in pool.busy   BY <2>1 DEF Listening
  <2>3. Sound(pool') /\ Pooled(pool') = Pooled(pool) \ {Listen}
    BY <1>0, <2>1, <2>2, Finished
  <2>4. \A j \in Pooled(pool) : Backed(j)'   BY <1>1, <2>1
  <2>5. Threads'   BY <2>3, <2>4 DEF Threads
  <2>6. disconnects' # 0   BY <2>1 DEF Stores
  <2>7. Listen \notin pool'.busy   BY <2>3 DEF Pooled
  <2> QED  BY <2>1, <2>3, <2>5, <2>6, <2>7 DEF Listening
<1>6. CASE Relisten
  <2>1. /\ listening = "retry" /\ pool' = Submit(pool, Listen)
        /\ listening' = IF Listen \in pool'.busy THEN "on" ELSE "queued"
        /\ UNCHANGED <<monitors, attached, failovers, disconnects>>
    BY <1>6 DEF Relisten, monitorVars, counters
  <2>2. Listen \notin Pooled(pool) /\ Listen \in AnyJob   BY <2>1, Kinds DEF Listening
  <2>3. Sound(pool') /\ Pooled(pool') = Pooled(pool) \cup {Listen}
    BY <1>0, <2>1, <2>2, Submitted
  <2>4. \A j \in Pooled(pool) : Backed(j)'   BY <1>1, <2>1
  <2>5. Backed(Listen)'   BY DEF Backed, Listen, Job, None
  <2>6. Threads'   BY <2>3, <2>4, <2>5 DEF Threads
  <2>7. disconnects' # 0   BY <2>1 DEF Listening
  <2> QED  BY <2>1, <2>6, <2>7 DEF Listening
<1> QED
  BY <1>3, <1>4, <1>5, <1>6, EventThreads, TaskThreads, FailoverThreads DEF Next

\* What ended by an exception is not forgotten.
LEMMA EndingsStep ==
    ASSUME ProtectionInv, Tasks, Threads, Endings, [Next]_vars
    PROVE  Endings' /\ dropped \subseteq dropped'
<1>1. CASE UNCHANGED <<abandoned, dropped>>   BY <1>1 DEF Endings
<1>2. CASE \E m \in monitors : AttachFails(m)
  <2>1. PICK m \in monitors : AttachFails(m)   BY <1>2
  <2>2. m.of \in Containers /\ run[m.of] \in Nat
    BY DEF Tasks, AnyMonitor, ProtectionInv, DockerOK
  <2> QED  BY <2>1, <2>2 DEF AttachFails, storeVars, Endings
<1>3. CASE \E j \in pool.busy : StreamDrops(j)
  <2>1. PICK j \in pool.busy : StreamDrops(j)   BY <1>3
  <2>2. \E m \in monitors : NextJob(m) = j   BY <2>1 DEF StreamDrops
  <2>3. j.of \in Containers /\ j.run \in Nat   BY <2>2, Kinds DEF Tasks, AnyMonitor
  <2> QED  BY <2>1, <2>3 DEF StreamDrops, storeVars, Endings
<1>4. CASE \E f \in failovers : ReloadBreaks(f)
  <2>1. PICK f \in failovers : ReloadBreaks(f)   BY <1>4
  <2>2. f.replica \in Containers   BY <2>1 DEF ReloadBreaks, ProtectionInv, FailoversOK
  <2> QED  BY <2>1, <2>2 DEF ReloadBreaks, monitorVars, Endings
<1>5. CASE \/ \E c \in Containers : \/ UserStarts(c) \/ ContainerDies(c) \/ UserStops(c)
                                      \/ UserSignals(c) \/ MarkCritical(c)
           \/ Disconnect \/ Relisten \/ UNCHANGED vars
  <2>1. UNCHANGED <<abandoned, dropped>>
    BY <1>5 DEF UserStarts, ContainerDies, UserStops, UserSignals, MarkCritical, Disconnect,
                Relisten, vars, storeVars, monitorVars
  <2> QED  BY <1>1, <2>1
<1>6. CASE HandleEvent
  <2>1. UNCHANGED <<abandoned, dropped>>
    BY <1>6 DEF HandleEvent, HandleStart, HandleStop, HandleDie, StopMonitoring, monitorVars
  <2> QED  BY <1>1, <2>1
<1>7. CASE \/ \E m \in monitors : Attach(m) \/ NeverAttached(m) \/ MonitorEnds(m)
           \/ \E j \in pool.busy : LogLine(j) \/ StreamEnds(j)
  <2>1. UNCHANGED <<abandoned, dropped>>
    BY <1>7 DEF Attach, NeverAttached, MonitorEnds, LogLine, StreamEnds, storeVars, monitorVars
  <2> QED  BY <1>1, <2>1
<1>8. ASSUME NEW f \in failovers, FailoverStep(f), ~ ReloadBreaks(f)
      PROVE  UNCHANGED <<abandoned, dropped>>
  BY <1>8 DEF FailoverStep, CreateFails, Create, StartFails, StartReplica, Poll, Reloaded,
              ReloadFails, Recovered, storeVars, monitorVars
<1> QED  BY <1>1, <1>2, <1>3, <1>4, <1>5, <1>6, <1>7, <1>8 DEF Next, MonitorStep

LEMMA ContainersStep == ContainersInv /\ [Next]_vars => ContainersInv'
BY ProtectionStep, StoresStep, TasksStep, DeathsStep, ThreadsStep, EndingsStep DEF ContainersInv

LEMMA ContainersInit == Init => ContainersInv
<1> SUFFICES ASSUME Init PROVE ContainersInv
  OBVIOUS
<1>1. ProtectionInv
  BY DEF Init, ProtectionInv, DockerOK, FailoversOK, OwnReplica, ReplicaProtected
<1>2. Stores   BY Bounds DEF Init, Stores
<1>3. Tasks   BY Bounds DEF Init, Tasks, None
<1>4. Deaths   BY DEF Init, Deaths
<1>5. /\ pool = [busy |-> {Listen}, backlog |-> << >>] /\ pool.busy = {Listen}
      /\ pool.backlog = << >> /\ listening = "on" /\ Listen \in AnyJob
  BY Kinds DEF Init
<1>6. IsFiniteSet({Listen}) /\ Cardinality({Listen}) = 1   BY FS_Singleton
<1>7. Sound(pool)
  <2>1. PoolSize >= 1   BY ContainersAssumption
  <2>2. << >> \in Seq(AnyJob) /\ Len(<< >>) = 0   OBVIOUS
  <2> QED  BY <1>5, <1>6, <2>1, <2>2 DEF Sound, Single
<1>8. Pooled(pool) = {Listen}   BY <1>5 DEF Pooled
<1>9. Threads   BY <1>7, <1>8 DEF Threads, Backed
<1>10. Listening   BY <1>5 DEF Listening
<1>11. Endings   BY DEF Init, Endings
<1> QED  BY <1>1, <1>2, <1>3, <1>4, <1>9, <1>10, <1>11 DEF ContainersInv

(***************************************************************************)
(* The stores of docker_listener.py, log_monitor.py and state_store.py     *)
(* have their shapes, and the default executor has never more threads busy *)
(* than it has, and none idle while a job waits -- with jobs that are      *)
(* submitted, repeated, cancelled and abandoned in any order.              *)
(***************************************************************************)
THEOREM TypesHold == Spec => []TypeOK
<1>1. ContainersInv => TypeOK
  <2> SUFFICES ASSUME ContainersInv PROVE TypeOK
    OBVIOUS
  <2>1. run \in [Containers -> 0..MaxRuns]
    <3>1. run \in [Containers -> Nat] /\ \A c \in Containers : run[c] <= MaxRuns
      BY DEF ContainersInv, ProtectionInv, DockerOK, Stores
    <3>2. \A c \in Containers : run[c] \in 0..MaxRuns   BY <3>1, Bounds
    <3> QED  BY <3>1, <3>2
  <2>2. \A c \in Containers : streams[c] \in 0..attached[c]
    BY DEF ContainersInv, Tasks
  <2>3. /\ Cardinality(pool.busy) <= PoolSize
        /\ pool.backlog # << >> => Cardinality(pool.busy) = PoolSize
    BY DEF ContainersInv, Threads, Sound, Single
  <2>4. listening = "on" <=> Listen \in pool.busy   BY DEF ContainersInv, Listening
  <2>5. /\ docker \in [Containers -> {"none", "created", "running", "exited"}]
        /\ parent \in [Containers -> 0..MaxContainers]
        /\ listening \in {"on", "retry", "queued"}
        /\ status \in [Containers -> {"none", "running", "stopped", "dead", "unknown"}]
        /\ critical \subseteq Containers /\ Endings
    BY DEF ContainersInv, ProtectionInv, DockerOK, Stores, Listening
  <2> QED  BY <2>1, <2>2, <2>3, <2>4, <2>5 DEF TypeOK, Endings
<1> QED  BY <1>1, ContainersInit, ContainersStep, PTL DEF Spec

\* A death has one failover, and what it replaces is a run that is over: the container
\* is down, or has been started anew.
FailoversFollowDeaths ==
    /\ \A f, g \in failovers : f.of = g.of /\ f.run = g.run => f = g
    /\ \A f \in failovers : \/ f.run < run[f.of]
                            \/ f.run = run[f.of] /\ docker[f.of] # "running"

(***************************************************************************)
(* resilience.py:26, docker_listener.py:215: however late the die event of *)
(* a container is handled, and however often the container is started      *)
(* again meanwhile, no run of it has two failovers under way, and none has *)
(* one before it has ended.                                                *)
(***************************************************************************)
THEOREM FailoversAreNotRepeated == Spec => []FailoversFollowDeaths
<1>1. ContainersInv => FailoversFollowDeaths
  <2> SUFFICES ASSUME ContainersInv PROVE FailoversFollowDeaths
    OBVIOUS
  <2>1. \A f \in failovers : f.of \in Containers /\ f.run \in Nat
    BY DEF ContainersInv, Deaths, AnyFailover
  <2>2. run \in [Containers -> Nat]   BY DEF ContainersInv, ProtectionInv, DockerOK
  <2>3. \A f \in failovers : Past(f.of, f.run)   BY DEF ContainersInv, Deaths
  <2>4. \A f, g \in failovers : f.of = g.of /\ f.run = g.run => f = g
    BY DEF ContainersInv, Deaths
  <2>5. ASSUME NEW f \in failovers
        PROVE  \/ f.run < run[f.of]
               \/ f.run = run[f.of] /\ docker[f.of] # "running"
    <3>1. f.run \in Nat /\ run[f.of] \in Nat   BY <2>1, <2>2
    <3>2. f.run <= run[f.of] /\ (docker[f.of] = "running" => f.run < run[f.of])
      BY <2>3 DEF Past
    <3> QED  BY <3>1, <3>2
  <2> QED  BY <2>4, <2>5 DEF FailoversFollowDeaths
<1> QED  BY <1>1, ContainersInit, ContainersStep, PTL DEF Spec

-----------------------------------------------------------------------------
(* A running container is monitored.                                       *)

(***************************************************************************)
(* The places in the queue of events at which c is started: those of its   *)
(* start events; the place of the next event, while c does not run; and    *)
(* the place before the queue, while a task is registered for c.           *)
(***************************************************************************)
StartPoint(c, i) ==
    \/ i = 0 /\ streams[c] # None
    \/ i \in 1..Len(events) /\ events[i].of = c /\ events[i].kind = "start"
    \/ i = Len(events) + 1 /\ docker[c] # "running"

\* Between two of them comes an event that stops the monitoring of c.  So the task
\* that a start finds registered is never that of an earlier run.
StopBetween(c, i, k) ==
    \E j \in 1..Len(events) : /\ i < j /\ j < k
                              /\ events[j].of = c /\ events[j].kind # "start"
Alternating ==
    \A c \in Containers : \A i, k \in 0..(Len(events) + 1) :
        StartPoint(c, i) /\ StartPoint(c, k) /\ i < k => StopBetween(c, i, k)

\* A task that waits for the lines of the present run, or will.
Follows(m, c) ==
    /\ m.of = c /\ ~ m.cancelled /\ m.pc # "ended"
    /\ m.pc = "reading" => m.run = run[c]

\* Its last start is in the queue, and no event of c behind it.
StartQueued(c) ==
    \E i \in 1..Len(events) : /\ events[i].of = c /\ events[i].kind = "start"
                              /\ \A k \in 1..Len(events) : i < k => events[k].of # c

\* All the events of c are handled, and a task follows it.
Followed(c) ==
    /\ \E m \in monitors : Follows(m, c)
    /\ \A i \in 1..Len(events) : events[i].of # c

\* The task of the present run ended by an exception.
Dropped(c) == <<c, run[c]>> \in dropped

Watched ==
    \A c \in Containers :
        docker[c] = "running" /\ ~ Dropped(c) => Followed(c) \/ StartQueued(c)

WatchInv ==
    /\ disconnects = 0 => Alternating
    /\ disconnects = 0 /\ signals = 0 => Watched

\* Nothing happens to the events, and no container is started or ends.
LEMMA AlternatingStays ==
    ASSUME Alternating, UNCHANGED events,
           \A c \in Containers : streams'[c] \in {None, streams[c]},
           \A c \in Containers : docker'[c] # "running" => docker[c] # "running"
    PROVE  Alternating'
BY DEF Alternating, StartPoint, StopBetween

\* Something happens that concerns the container c: e is its first event.
LEMMA AlternatingGrows ==
    ASSUME Alternating, Stores, NEW c \in Containers, Len(events') \in Nat,
           \A i \in 1..Len(events) : events'[i] = events[i] /\ i \in 1..Len(events'),
           \A i \in 1..Len(events') : i \in 1..Len(events) \/ events'[i].of = c,
           Len(events) + 1 \in 1..Len(events'), UNCHANGED streams,
           \A d \in Containers : d # c => (docker'[d] = "running" <=> docker[d] = "running"),
           \/ /\ docker[c] # "running" /\ docker'[c] = "running"
              /\ Len(events') = Len(events) + 1
           \/ \A i \in 1..Len(events') : i \in 1..Len(events) \/ events'[i].kind # "start"
    PROVE  Alternating'
<1>0. Len(events) \in Nat   BY DEF Stores
<1> SUFFICES ASSUME NEW d \in Containers, NEW i \in 0..(Len(events') + 1),
                    NEW k \in 0..(Len(events') + 1), StartPoint(d, i)', StartPoint(d, k)', i < k
             PROVE  StopBetween(d, i, k)'
  BY DEF Alternating
<1>1. ASSUME NEW l \in 0..(Len(events) + 1), l <= k, StartPoint(d, i), StartPoint(d, l), i < l,
             i \in 0..(Len(events) + 1)
      PROVE  StopBetween(d, i, k)'
  <2>1. StopBetween(d, i, l)   BY <1>1 DEF Alternating
  <2>2. PICK j \in 1..Len(events) :
           i < j /\ j < l /\ events[j].of = d /\ events[j].kind # "start"
    BY <2>1 DEF StopBetween
  <2>3. j < k   BY <1>1, <2>2
  <2> QED  BY <2>2, <2>3 DEF StopBetween
<1>2. ASSUME i \in 1..Len(events), events'[i].of = d, events'[i].kind = "start"
      PROVE  StartPoint(d, i)
  BY <1>2 DEF StartPoint
<1>3. i = 0 => StartPoint(d, i)   BY <1>0 DEF StartPoint
<1>4. CASE k \in 0..Len(events)
  <2>1. StartPoint(d, k)   BY <1>0, <1>4 DEF StartPoint
  <2>2. i \in 0..Len(events)   BY <1>0, <1>4
  <2>3. StartPoint(d, i)   BY <1>0, <2>2 DEF StartPoint
  <2> QED  BY <1>0, <1>1, <1>4, <2>1, <2>2, <2>3
<1>5. CASE k \notin 0..Len(events) /\ i \in 0..Len(events)
  <2>1. StartPoint(d, i)   BY <1>0, <1>5 DEF StartPoint
  <2>2. Len(events) + 1 <= k   BY <1>0, <1>5
  <2>3. CASE docker[d] # "running"
    <3>1. StartPoint(d, Len(events) + 1)   BY <1>0, <2>3 DEF StartPoint
    <3> QED  BY <1>0, <1>1, <1>5, <2>1, <2>2, <3>1
  <2>4. CASE docker[d] = "running"
    <3>1. d = c
      <4>1. CASE k \in 1..Len(events')   BY <1>5, <4>1 DEF StartPoint
      <4>2. CASE k = Len(events') + 1   BY <2>4, <4>2 DEF StartPoint
      <4> QED  BY <4>1, <4>2
    <3>2. \A n \in 1..Len(events') : n \in 1..Len(events) \/ events'[n].kind # "start"
      BY <2>4, <3>1
    <3>3. k \notin 1..Len(events')   BY <1>0, <1>5, <3>2 DEF StartPoint
    <3>4. k = Len(events') + 1   BY <3>3
    <3>5. Len(events) + 1 \notin 1..Len(events)   BY <1>0
    <3>6. events'[Len(events) + 1].of = d /\ events'[Len(events) + 1].kind # "start"
      BY <3>1, <3>2, <3>5
    <3>7. i < Len(events) + 1 /\ Len(events) + 1 < k   BY <1>0, <1>5, <3>4
    <3> QED  BY <3>6, <3>7 DEF StopBetween
  <2> QED  BY <2>3, <2>4
<1>6. CASE i \notin 0..Len(events)
  <2>1. i > Len(events) /\ i # 0 /\ i # Len(events') + 1   BY <1>0, <1>6
  <2>2. i \in 1..Len(events') /\ events'[i].of = d /\ events'[i].kind = "start"
    BY <2>1 DEF StartPoint
  <2>3. d = c /\ docker'[c] = "running" /\ Len(events') = Len(events) + 1
    BY <1>6, <2>2
  <2>4. k = Len(events') + 1   BY <1>0, <2>1, <2>3
  <2>5. docker'[d] # "running"   BY <2>3, <2>4 DEF StartPoint
  <2> QED  BY <2>3, <2>5
<1> QED  BY <1>4, <1>5, <1>6

\* An event is handled: a start registers a task, the others drop it.
LEMMA AlternatingShifts ==
    ASSUME Alternating, Stores, NEW kind, Take(kind), UNCHANGED docker,
           \A c \in Containers :
              streams'[c] # None =>
                 \/ streams[c] # None /\ c # events[1].of
                 \/ kind = "start" /\ c = events[1].of
    PROVE  Alternating'
<1>0. /\ Len(events) \in Nat /\ Len(events) >= 1
      /\ events[1].kind = kind /\ Len(events') = Len(events) - 1
      /\ \A i \in 1..Len(events') : /\ events'[i] = events[i + 1] /\ i + 1 \in 1..Len(events)
                                    /\ i + 1 # 1
  BY Taken
<1> SUFFICES ASSUME NEW d \in Containers, NEW i \in 0..(Len(events') + 1),
                    NEW k \in 0..(Len(events') + 1), StartPoint(d, i)', StartPoint(d, k)', i < k
             PROVE  StopBetween(d, i, k)'
  BY DEF Alternating
<1>1. /\ i \in 0..(Len(events) + 1) /\ i + 1 \in 0..(Len(events) + 1)
      /\ k + 1 \in 0..(Len(events) + 1) /\ i + 1 < k + 1 /\ k # 0
  BY <1>0
<1>2. StartPoint(d, k + 1)
  <2>1. CASE k \in 1..Len(events') /\ events'[k].of = d /\ events'[k].kind = "start"
    BY <1>0, <2>1 DEF StartPoint
  <2>2. CASE k = Len(events') + 1 /\ docker'[d] # "running"
    <3>1. k + 1 = Len(events) + 1   BY <1>0, <2>2
    <3> QED  BY <2>2, <3>1 DEF StartPoint
  <2> QED  BY <1>1, <2>1, <2>2 DEF StartPoint
<1>3. ASSUME NEW l \in {i, i + 1}, StartPoint(d, l), l = i + 1 \/ (i = 0 /\ d # events[1].of)
      PROVE  StopBetween(d, i, k)'
  <2>1. StopBetween(d, l, k + 1)   BY <1>1, <1>2, <1>3 DEF Alternating
  <2>2. PICK j \in 1..Len(events) :
           l < j /\ j < k + 1 /\ events[j].of = d /\ events[j].kind # "start"
    BY <2>1 DEF StopBetween
  <2>3. i < j - 1 /\ j - 1 \in 1..Len(events') /\ j - 1 < k /\ (j - 1) + 1 = j
    <3>1. j # 1   BY <1>0, <1>1, <1>3, <2>2
    <3>2. CASE l = i + 1   BY <1>0, <1>1, <2>2, <3>1, <3>2
    <3>3. CASE i = 0   BY <1>0, <1>1, <2>2, <3>1, <3>3
    <3> QED  BY <1>3, <3>2, <3>3
  <2>4. events'[j - 1] = events[j]   BY <1>0, <2>3
  <2> QED  BY <2>2, <2>3, <2>4 DEF StopBetween
<1>4. CASE i # 0
  <2>1. StartPoint(d, i + 1)   BY <1>0, <1>1, <1>4 DEF StartPoint
  <2> QED  BY <1>3, <2>1
<1>5. CASE i = 0
  <2>1. streams'[d] # None   BY <1>0, <1>5 DEF StartPoint
  <2>2. CASE streams[d] # None /\ d # events[1].of
    <3>1. StartPoint(d, i)   BY <1>5, <2>2 DEF StartPoint
    <3> QED  BY <1>3, <1>5, <2>2, <3>1
  <2>3. CASE kind = "start" /\ d = events[1].of
    <3>1. StartPoint(d, i + 1)   BY <1>0, <1>5, <2>3 DEF StartPoint
    <3> QED  BY <1>3, <3>1
  <2> QED  BY <2>1, <2>2, <2>3
<1> QED  BY <1>4, <1>5

LEMMA AlternatingStep ==
    ContainersInv /\ [Next]_vars /\ disconnects = 0 /\ Alternating => Alternating'
<1> SUFFICES ASSUME ContainersInv, [Next]_vars, disconnects = 0, Alternating
             PROVE  Alternating'
  OBVIOUS
<1>0. /\ listening = "on" /\ ProtectionInv /\ Stores /\ Len(events) \in Nat
      /\ streams \in [Containers -> Nat] /\ monitors \subseteq AnyMonitor
  BY DEF ContainersInv, Listening, Stores, Tasks
<1>1. ASSUME NEW c, Starts(c), UNCHANGED streams PROVE Alternating'
  <2>1. /\ Len(events') \in Nat /\ c \in Containers
        /\ \A i \in 1..Len(events) : events'[i] = events[i] /\ i \in 1..Len(events')
        /\ \A i \in 1..Len(events') : i \in 1..Len(events) \/ events'[i].of = c
        /\ Len(events') = Len(events) + 1 /\ Len(events) + 1 \in 1..Len(events')
        /\ docker[c] # "running" /\ docker'[c] = "running"
        /\ \A d \in Containers : d # c => docker'[d] = docker[d]
    BY <1>0, <1>1, StartEvents
  <2> QED  BY <1>0, <1>1, <2>1, AlternatingGrows
<1>2. ASSUME NEW c, NEW s, Ends(c, s), UNCHANGED streams PROVE Alternating'
  <2>1. /\ Len(events') \in Nat /\ c \in Containers
        /\ \A i \in 1..Len(events) : events'[i] = events[i] /\ i \in 1..Len(events')
        /\ \A i \in 1..Len(events') :
              i \in 1..Len(events) \/ (events'[i].of = c /\ events'[i].kind # "start")
        /\ Len(events) + 1 \in 1..Len(events')
        /\ \A d \in Containers : d # c => docker'[d] = docker[d]
    BY <1>0, <1>2, EndEvents
  <2> QED  BY <1>0, <1>2, <2>1, AlternatingGrows
<1>3. CASE \E c \in Containers : UserStarts(c) \/ ContainerDies(c) \/ UserStops(c)
  <2>1. PICK c \in Containers : UserStarts(c) \/ ContainerDies(c) \/ UserStops(c)   BY <1>3
  <2>2. UNCHANGED streams   BY <2>1 DEF UserStarts, ContainerDies, UserStops, monitorVars
  <2> QED  BY <1>0, <1>1, <1>2, <2>1, <2>2, StartsAndEnds
<1>4. CASE \E c \in Containers : UserSignals(c)
  <2>1. PICK c \in Containers : UserSignals(c)   BY <1>4
  <2>2. UNCHANGED <<streams, docker>> /\ events' = events \o <<Event("kill", c)>>
    BY <1>0, <2>1 DEF UserSignals, monitorVars, dockerVars, Emit
  <2>3. /\ Len(events') = Len(events) + 1
        /\ \A i \in 1..Len(events') : i \notin 1..Len(events) => events'[i] = Event("kill", c)
    <3> DEFINE s == <<Event("kill", c)>>
    <3>1. Event("kill", c) \in AnyEvent
      BY <1>0, <2>1 DEF Event, AnyEvent, UserSignals, dockerVars, ProtectionInv, DockerOK
    <3>2. s \in Seq(AnyEvent) /\ Len(s) = 1 /\ s[1] = Event("kill", c) /\ s # << >> /\ Emit(s)
      BY <2>1, <3>1 DEF UserSignals
    <3> HIDE DEF s
    <3>3. \A k \in 1..Len(s) : k = 1   BY <3>2
    <3> QED  BY <1>0, <3>2, <3>3, Emitted
  <2>4. Event("kill", c).of = c /\ Event("kill", c).kind # "start"   BY DEF Event
  <2>5. Len(events) + 1 \in 1..Len(events')   BY <1>0, <2>3
  <2>6. \A i \in 1..Len(events) : events'[i] = events[i] /\ i \in 1..Len(events')
    BY <1>0, <2>1, SignalEvents
  <2> QED  BY <1>0, <2>2, <2>3, <2>4, <2>5, <2>6, AlternatingGrows
<1>5. CASE HandleStart
  <2>1. Take("start") /\ UNCHANGED docker   BY <1>5 DEF HandleStart, dockerVars
  <2>2. Head(events) = events[1]   BY <1>0, <2>1, Taken
  <2>3. \A c \in Containers : c # events[1].of => streams'[c] = streams[c]
    BY <1>0, <1>5, <2>2 DEF HandleStart, monitorVars
  <2> QED  BY <1>0, <2>1, <2>3, AlternatingShifts
<1>6. CASE HandleStop \/ HandleDie
  <2>1. PICK kind : Take(kind)   BY <1>6 DEF HandleStop, HandleDie
  <2>2. Head(events) = events[1] /\ events[1].of \in Containers   BY <1>0, <2>1, Taken DEF AnyEvent
  <2>3. UNCHANGED docker /\ streams' = [streams EXCEPT ![events[1].of] = None]
    BY <1>6, <2>2 DEF HandleStop, HandleDie, StopMonitoring, dockerVars
  <2>4. \A c \in Containers : streams'[c] # None => streams[c] # None /\ c # events[1].of
    BY <1>0, <2>2, <2>3
  <2> QED  BY <1>0, <2>1, <2>3, <2>4, AlternatingShifts
<1>7. ASSUME NEW f \in failovers, FailoverStep(f) PROVE Alternating'
  <2>1. UNCHANGED streams
    BY <1>7 DEF FailoverStep, CreateFails, Create, StartFails, StartReplica, Poll, Reloaded, ReloadFails, ReloadBreaks,
                Recovered, monitorVars
  <2>2. CASE StartReplica(f)   BY <1>0, <1>1, <2>1, <2>2, StartsAndEnds
  <2>3. CASE Create(f)
    <3>1. PICK r \in Fresh : docker' = [docker EXCEPT ![r] = "created"]   BY <2>3 DEF Create
    <3>2. \A c \in Containers : docker'[c] # "running" => docker[c] # "running"
      BY <1>0, <3>1 DEF Fresh, ProtectionInv, DockerOK
    <3>3. UNCHANGED events   BY <2>3 DEF Create
    <3> QED  BY <2>1, <3>2, <3>3, AlternatingStays
  <2>4. CASE ~ StartReplica(f) /\ ~ Create(f)
    <3>1. UNCHANGED <<docker, events>>   BY <1>7, <2>4, OthersKeepEvents DEF FailoverStep
    <3> QED  BY <2>1, <3>1, AlternatingStays
  <2> QED  BY <2>2, <2>3, <2>4
<1>8. CASE \/ \E c \in Containers : MarkCritical(c)
           \/ Disconnect \/ Relisten
           \/ \E m \in monitors : MonitorStep(m)
           \/ \E j \in pool.busy : LogLine(j) \/ StreamDrops(j) \/ StreamEnds(j)
           \/ UNCHANGED vars
  <2>1. UNCHANGED <<docker, events>>   BY <1>8, OthersKeepEvents
  <2>2. \A c \in Containers : streams'[c] \in {None, streams[c]}
    <3>1. CASE UNCHANGED streams   BY <3>1
    <3>2. CASE \E m \in monitors : AttachFails(m) \/ MonitorEnds(m)
      <4>1. PICK m \in monitors : streams' = [streams EXCEPT ![m.of] = None]
        BY <3>2 DEF AttachFails, MonitorEnds
      <4> QED  BY <1>0, <4>1
    <3> QED
      BY <1>8, <3>1, <3>2
      DEF MarkCritical, Disconnect, Relisten, MonitorStep, Attach, NeverAttached, LogLine, StreamDrops,
          StreamEnds, vars, monitorVars
  <2> QED  BY <2>1, <2>2, AlternatingStays
<1> QED  BY <1>3, <1>4, <1>5, <1>6, <1>7, <1>8 DEF Next, HandleEvent

\* The queue moves on by k events; nothing is said of c.
LEMMA QueuedStays ==
    ASSUME Stores, NEW c, NEW k \in {0, 1}, Len(events') \in Nat, StartQueued(c),
           k = 0 \/ events[1].of # c \/ events[1].kind # "start",
           \A i \in 1..Len(events') :
              \/ i + k \in 1..Len(events) /\ events'[i] = events[i + k]
              \/ events'[i].of # c,
           \A i \in 1..Len(events) :
              i > k => i - k \in 1..Len(events') /\ events'[i - k] = events[i]
    PROVE  StartQueued(c)'
<1>0. Len(events) \in Nat   BY DEF Stores
<1>1. PICK i \in 1..Len(events) :
         /\ events[i].of = c /\ events[i].kind = "start"
         /\ \A l \in 1..Len(events) : i < l => events[l].of # c
  BY DEF StartQueued
<1>2. i > k   BY <1>0, <1>1
<1>3. i - k \in 1..Len(events') /\ events'[i - k] = events[i]   BY <1>2
<1>4. ASSUME NEW l \in 1..Len(events'), i - k < l PROVE events'[l].of # c
  <2>1. i < l + k   BY <1>0, <1>4
  <2> QED  BY <1>1, <2>1
<1> QED  BY <1>1, <1>3, <1>4 DEF StartQueued

LEMMA FollowedStays ==
    ASSUME Stores, NEW c, Followed(c), Len(events') \in Nat,
           \A m \in monitors : Follows(m, c) => \E n \in monitors' : Follows(n, c)',
           NEW k \in {0, 1},
           \A i \in 1..Len(events') :
              \/ i + k \in 1..Len(events) /\ events'[i] = events[i + k]
              \/ events'[i].of # c
    PROVE  Followed(c)'
BY DEF Followed

\* Tasks of c survive with their run.
LEMMA FollowersKept ==
    ASSUME NEW c \in Containers, run'[c] = run[c],
           \A m \in monitors : Follows(m, c) => m \in monitors'
    PROVE  \A m \in monitors : Follows(m, c) => \E n \in monitors' : Follows(n, c)'
BY DEF Follows

\* A step that changes no events, starts nothing and takes no follower away.
LEMMA WatchedQuietly ==
    ASSUME Watched, Stores, UNCHANGED <<events, run>>, dropped \subseteq dropped',
           \A c \in Containers : docker'[c] = "running" => docker[c] = "running",
           \A c \in Containers : docker[c] = "running" /\ ~ Dropped(c)' =>
              \A m \in monitors : Follows(m, c) => \E n \in monitors' : Follows(n, c)'
    PROVE  Watched'
<1> SUFFICES ASSUME NEW c \in Containers, docker'[c] = "running", ~ Dropped(c)'
             PROVE  Followed(c)' \/ StartQueued(c)'
  BY DEF Watched
<1>1. /\ Len(events') = Len(events) /\ Len(events) \in Nat /\ docker[c] = "running"
      /\ \A i \in 1..Len(events) : events'[i] = events[i]
  BY DEF Stores
<1>2. Followed(c) \/ StartQueued(c)   BY <1>1 DEF Watched, Dropped
<1>3. StartQueued(c) => StartQueued(c)'   BY <1>1 DEF StartQueued
<1>4. Followed(c) => Followed(c)'   BY <1>1 DEF Followed
<1> QED  BY <1>2, <1>3, <1>4

LEMMA WatchedStart ==
    ASSUME Watched, ProtectionInv, Stores, listening = "on", NEW c, Starts(c), UNCHANGED monitors,
           dropped \subseteq dropped'
    PROVE  Watched'
<1>1. /\ Len(events) \in Nat /\ Len(events') \in Nat /\ c \in Containers
      /\ \A i \in 1..Len(events) : events'[i] = events[i] /\ i \in 1..Len(events')
      /\ \A i \in 1..Len(events') :
            i \in 1..Len(events) \/ /\ i = Len(events) + 1 /\ events'[i].of = c
                                    /\ events'[i].kind = "start"
      /\ Len(events') = Len(events) + 1 /\ Len(events) + 1 \in 1..Len(events')
      /\ \A d \in Containers : d # c => docker'[d] = docker[d] /\ run'[d] = run[d]
  BY StartEvents
<1>2. StartQueued(c)'
  <2>1. events'[Len(events) + 1].of = c /\ events'[Len(events) + 1].kind = "start"
    <3>1. Len(events) + 1 \notin 1..Len(events)   BY <1>1
    <3> QED  BY <1>1, <3>1
  <2>2. \A l \in 1..Len(events') : ~ (Len(events) + 1 < l)   BY <1>1
  <2> QED  BY <1>1, <2>1, <2>2 DEF StartQueued
<1>3. ASSUME NEW d \in Containers, d # c, docker'[d] = "running", ~ Dropped(d)'
      PROVE  Followed(d)' \/ StartQueued(d)'
  <2>1. docker[d] = "running" /\ run'[d] = run[d]   BY <1>1, <1>3
  <2>2. Followed(d) \/ StartQueued(d)   BY <1>3, <2>1 DEF Watched, Dropped
  <2>3. \A i \in 1..Len(events') :
           \/ i + 0 \in 1..Len(events) /\ events'[i] = events[i + 0]
           \/ events'[i].of # d
    BY <1>1, <1>3
  <2>4. \A i \in 1..Len(events) :
           i > 0 => i - 0 \in 1..Len(events') /\ events'[i - 0] = events[i]
    BY <1>1
  <2>5. \A m \in monitors : Follows(m, d) => \E n \in monitors' : Follows(n, d)'
    BY <2>1, FollowersKept
  <2>6. 0 \in {0, 1}   OBVIOUS
  <2>7. StartQueued(d) => StartQueued(d)'   BY ONLY <1>1, <2>3, <2>4, <2>6, QueuedStays, Stores
  <2>8. Followed(d) => Followed(d)'   BY ONLY <1>1, <2>3, <2>5, <2>6, FollowedStays, Stores
  <2> QED  BY <2>2, <2>7, <2>8
<1> QED  BY <1>2, <1>3 DEF Watched

LEMMA WatchedEnd ==
    ASSUME Watched, ProtectionInv, Stores, NEW c, NEW s, Ends(c, s), UNCHANGED monitors,
           dropped \subseteq dropped'
    PROVE  Watched'
<1>1. /\ Len(events) \in Nat /\ Len(events') \in Nat
      /\ \A i \in 1..Len(events) : events'[i] = events[i] /\ i \in 1..Len(events')
      /\ \A i \in 1..Len(events') : i \in 1..Len(events) \/ events'[i].of = c
  BY EndEvents
<1>2. c \in Containers /\ docker' = [docker EXCEPT ![c] = "exited"] /\ run' = run
  BY DEF Ends
<1>3. ASSUME NEW d \in Containers, docker'[d] = "running", ~ Dropped(d)'
      PROVE  Followed(d)' \/ StartQueued(d)'
  <2>1. d # c /\ docker[d] = "running" /\ run'[d] = run[d]
    BY <1>2, <1>3 DEF ProtectionInv, DockerOK
  <2>2. Followed(d) \/ StartQueued(d)   BY <1>3, <2>1 DEF Watched, Dropped
  <2>3. \A i \in 1..Len(events') :
           \/ i + 0 \in 1..Len(events) /\ events'[i] = events[i + 0]
           \/ events'[i].of # d
    BY <1>1, <2>1
  <2>4. \A i \in 1..Len(events) :
           i > 0 => i - 0 \in 1..Len(events') /\ events'[i - 0] = events[i]
    BY <1>1
  <2>5. \A m \in monitors : Follows(m, d) => \E n \in monitors' : Follows(n, d)'
    BY <2>1, FollowersKept
  <2>6. 0 \in {0, 1}   OBVIOUS
  <2>7. StartQueued(d) => StartQueued(d)'   BY ONLY <1>1, <2>3, <2>4, <2>6, QueuedStays, Stores
  <2>8. Followed(d) => Followed(d)'   BY ONLY <1>1, <2>3, <2>5, <2>6, FollowedStays, Stores
  <2> QED  BY <2>2, <2>7, <2>8
<1> QED  BY <1>3 DEF Watched

\* An event of another container is handled, or one that is not the last start of c.
LEMMA WatchedShift ==
    ASSUME Stores, NEW kind, Take(kind), NEW c \in Containers, run'[c] = run[c],
           Followed(c) \/ StartQueued(c), kind # "start" \/ events[1].of # c,
           events[1].of # c => \A m \in monitors : m.of = c => m \in monitors'
    PROVE  Followed(c)' \/ StartQueued(c)'
<1>1. /\ Len(events) \in Nat /\ Len(events) >= 1 /\ events[1].kind = kind
      /\ Len(events') = Len(events) - 1
      /\ \A i \in 1..Len(events') : /\ events'[i] = events[i + 1] /\ i + 1 \in 1..Len(events)
  BY Taken
<1>2. \A i \in 1..Len(events') :
         \/ i + 1 \in 1..Len(events) /\ events'[i] = events[i + 1]
         \/ events'[i].of # c
  BY <1>1
<1>3. \A i \in 1..Len(events) : i > 1 => i - 1 \in 1..Len(events') /\ events'[i - 1] = events[i]
  <2> SUFFICES ASSUME NEW i \in 1..Len(events), i > 1
               PROVE  i - 1 \in 1..Len(events') /\ events'[i - 1] = events[i]
    OBVIOUS
  <2>1. i - 1 \in 1..Len(events') /\ (i - 1) + 1 = i   BY <1>1
  <2>2. events'[i - 1] = events[(i - 1) + 1]   BY <1>1, <2>1
  <2> QED  BY <2>1, <2>2
<1>4. 1 \in {0, 1} /\ Len(events') \in Nat   BY <1>1
<1>5. CASE StartQueued(c)
  <2>1. StartQueued(c)'   BY ONLY <1>1, <1>2, <1>3, <1>4, <1>5, QueuedStays, Stores,
                                  kind # "start" \/ events[1].of # c
  <2> QED  BY <2>1
<1>6. CASE Followed(c)
  <2>1. events[1].of # c   BY <1>1, <1>6 DEF Followed
  <2>2. \A m \in monitors : Follows(m, c) => m \in monitors'   BY <2>1 DEF Follows
  <2>3. \A m \in monitors : Follows(m, c) => \E n \in monitors' : Follows(n, c)'
    BY <2>2, FollowersKept
  <2>4. Followed(c)'   BY ONLY <1>2, <1>4, <1>6, <2>3, FollowedStays, Stores
  <2> QED  BY <2>4
<1> QED  BY <1>5, <1>6

\* The start that is handled is the last thing said of c: nothing is registered for
\* it then, so it gets a task of its own.
LEMMA WatchedByStart ==
    ASSUME ContainersInv, Alternating, Watched, HandleStart   PROVE Watched'
<1>0. Stores /\ Tasks /\ Take("start") /\ UNCHANGED <<docker, run>>
  BY DEF ContainersInv, HandleStart, dockerVars
<1>1. /\ Len(events) \in Nat /\ Len(events) >= 1 /\ Head(events) = events[1]
      /\ events[1] \in AnyEvent /\ events[1].kind = "start" /\ Len(events') = Len(events) - 1
      /\ \A i \in 1..Len(events') : /\ events'[i] = events[i + 1] /\ i + 1 \in 1..Len(events)
                                    /\ i + 1 # 1
  BY <1>0, Taken
<1> PICK h : h = events[1].of   OBVIOUS
<1>2. h \in Containers   BY <1>1 DEF AnyEvent
<1>3. monitors \subseteq monitors'   BY DEF HandleStart, monitorVars
<1> SUFFICES ASSUME NEW c \in Containers, docker'[c] = "running", ~ Dropped(c)'
             PROVE  Followed(c)' \/ StartQueued(c)'
  BY DEF Watched
<1>4. docker[c] = "running" /\ run'[c] = run[c] /\ ~ Dropped(c)
  BY <1>0 DEF HandleStart, monitorVars, Dropped
<1>5. Followed(c) \/ StartQueued(c)   BY <1>4 DEF Watched
<1>6. CASE c # h
  <2>1. events[1].of # c   BY <1>6
  <2> QED  BY <1>0, <1>3, <1>4, <1>5, <2>1, WatchedShift
<1>7. CASE c = h
  <2>1. 1 \in 1..Len(events) /\ events[1].of = c   BY <1>1, <1>7
  <2>2. ~ Followed(c)   BY <2>1 DEF Followed
  <2>3. PICK i \in 1..Len(events) :
           /\ events[i].of = c /\ events[i].kind = "start"
           /\ \A k \in 1..Len(events) : i < k => events[k].of # c
    BY <1>5, <2>2 DEF StartQueued
  <2>4. CASE i # 1
    <3>1. i - 1 \in 1..Len(events') /\ (i - 1) + 1 = i   BY <1>1, <2>4
    <3>2. events'[i - 1] = events[i]   BY <1>1, <3>1
    <3>3. \A k \in 1..Len(events') : i - 1 < k => events'[k].of # c
      <4> SUFFICES ASSUME NEW k \in 1..Len(events'), i - 1 < k PROVE events'[k].of # c
        OBVIOUS
      <4>1. i < k + 1   BY <1>1, <3>1
      <4> QED  BY <1>1, <2>3, <4>1
    <3> QED  BY <2>3, <3>1, <3>2, <3>3 DEF StartQueued
  <2>5. CASE i = 1
    <3>1. streams[c] = None
      <4>1. StartPoint(c, 1)   BY <1>1, <2>1 DEF StartPoint
      <4>2. ASSUME streams[c] # None PROVE FALSE
        <5>1. StartPoint(c, 0)   BY <4>2 DEF StartPoint
        <5>2. 0 \in 0..(Len(events) + 1) /\ 1 \in 0..(Len(events) + 1) /\ 0 < 1   BY <1>1
        <5>3. StopBetween(c, 0, 1)   BY <4>1, <5>1, <5>2 DEF Alternating
        <5>4. \A j \in 1..Len(events) : ~ (0 < j /\ j < 1)   BY <1>1
        <5> QED  BY <5>3, <5>4 DEF StopBetween
      <4> QED  BY <4>2
    <3> PICK m : m = [of |-> c, no |-> attached[c] + 1, run |-> 0, pc |-> "new",
                      cancelled |-> FALSE]
      OBVIOUS
    <3>2. m \in monitors'   BY <1>1, <1>7, <3>1 DEF HandleStart
    <3>3. Follows(m, c)'   BY DEF Follows
    <3>4. \A k \in 1..Len(events') : events'[k].of # c
      <4> SUFFICES ASSUME NEW k \in 1..Len(events') PROVE events'[k].of # c
        OBVIOUS
      <4>1. 1 < k + 1   BY <1>1
      <4> QED  BY <1>1, <2>3, <2>5, <4>1
    <3> QED  BY <3>2, <3>3, <3>4 DEF Followed
  <2> QED  BY <2>4, <2>5
<1> QED  BY <1>6, <1>7

LEMMA WatchedByStop ==
    ASSUME ContainersInv, Watched, HandleStop \/ HandleDie   PROVE Watched'
<1>0. Stores /\ Tasks /\ UNCHANGED <<docker, run>>
  BY DEF ContainersInv, HandleStop, HandleDie, dockerVars
<1>1. PICK kind : Take(kind) /\ kind # "start"   BY DEF HandleStop, HandleDie
<1>2. Head(events) = events[1]   BY <1>0, <1>1, Taken
<1> PICK h : h = events[1].of   OBVIOUS
<1>3. StopMonitoring(h)   BY <1>2 DEF HandleStop, HandleDie
<1>4. \A m \in monitors : m.of # h => m \in monitors'   BY <1>3 DEF StopMonitoring
<1> SUFFICES ASSUME NEW c \in Containers, docker'[c] = "running", ~ Dropped(c)'
             PROVE  Followed(c)' \/ StartQueued(c)'
  BY DEF Watched
<1>5. docker[c] = "running" /\ run'[c] = run[c] /\ ~ Dropped(c)
  BY <1>0, <1>3 DEF StopMonitoring, Dropped
<1>6. Followed(c) \/ StartQueued(c)   BY <1>5 DEF Watched
<1>7. events[1].of # c => \A m \in monitors : m.of = c => m \in monitors'   BY <1>4
<1> QED  BY <1>0, <1>1, <1>5, <1>6, <1>7, WatchedShift

\* A task that follows its container does not end but by an exception, and attaches to
\* the present run.
LEMMA WatchedByTasks ==
    ASSUME ContainersInv, Watched,
           \/ \E m \in monitors : MonitorStep(m)
           \/ \E j \in pool.busy : StreamDrops(j) \/ StreamEnds(j)
    PROVE  Watched'
<1>0. Stores /\ Tasks /\ UNCHANGED <<docker, run, events>> /\ dropped \subseteq dropped'
  BY OthersKeepEvents, EndingsStep DEF ContainersInv, Next
<1>1. SUFFICES ASSUME NEW c \in Containers, docker[c] = "running", ~ Dropped(c)',
                      NEW n \in monitors, Follows(n, c)
               PROVE  \E o \in monitors' : Follows(o, c)'
  BY <1>0, WatchedQuietly
<1>2. n \in AnyMonitor /\ run'[c] = run[c]   BY <1>0 DEF Tasks
<1>3. n \in monitors' => \E o \in monitors' : Follows(o, c)'   BY <1>1, <1>2 DEF Follows
<1>4. ASSUME NEW m \in monitors, MonitorStep(m) PROVE \E o \in monitors' : Follows(o, c)'
  <2>1. CASE Attach(m)
    <3>1. PICK r : r = [m EXCEPT !.pc = "reading", !.run = run[m.of]]   OBVIOUS
    <3>2. monitors' = (monitors \ {m}) \cup {r}   BY <2>1, <3>1 DEF Attach, Replaced
    <3>3. n = m => Follows(r, c)'
      <4>1. r.of = m.of /\ r.cancelled = m.cancelled /\ r.pc = "reading" /\ r.run = run[m.of]
        <5>1. m \in AnyMonitor   BY <1>0 DEF Tasks
        <5> QED  BY <3>1, <5>1 DEF AnyMonitor
      <4> QED  BY <1>1, <1>2, <4>1 DEF Follows
    <3> QED  BY <1>3, <3>2, <3>3
  <2>3. CASE AttachFails(m)
    <3>1. monitors' = monitors \ {m} /\ <<m.of, run[m.of]>> \in dropped'
      BY <2>3 DEF AttachFails
    <3>2. n # m   BY <1>1, <1>2, <3>1 DEF Follows, Dropped
    <3> QED  BY <1>3, <3>1, <3>2
  <2>2. CASE NeverAttached(m) \/ MonitorEnds(m)
    <3>1. monitors' = monitors \ {m} /\ (m.cancelled \/ m.pc = "ended")
      BY <2>2 DEF NeverAttached, MonitorEnds
    <3>2. n # m   BY <1>1, <3>1 DEF Follows
    <3> QED  BY <1>3, <3>1, <3>2
  <2> QED  BY <1>4, <2>1, <2>2, <2>3 DEF MonitorStep
<1>5. ASSUME NEW j \in pool.busy, StreamEnds(j) PROVE \E o \in monitors' : Follows(o, c)'
  <2>1. n \in monitors' \/ (n.pc = "reading" /\ NextJob(n) = j)   BY <1>5 DEF StreamEnds
  <2>2. docker[j.of] # "running" \/ run[j.of] > j.run   BY <1>5 DEF StreamEnds
  <2>3. ASSUME n.pc = "reading", NextJob(n) = j PROVE FALSE
    <3>1. j.of = n.of /\ j.run = n.run   BY <2>3, Kinds
    <3>2. n.of = c /\ n.run = run[c]   BY <1>1, <2>3 DEF Follows
    <3>3. run[c] \in Nat   BY DEF ContainersInv, ProtectionInv, DockerOK
    <3> QED  BY <1>1, <2>2, <3>1, <3>2, <3>3
  <2> QED  BY <1>3, <2>1, <2>3
<1>6. ASSUME NEW j \in pool.busy, StreamDrops(j) PROVE \E o \in monitors' : Follows(o, c)'
  <2>1. n \in monitors' \/ (n.pc = "reading" /\ NextJob(n) = j)
    BY <1>6 DEF StreamDrops, Replaced
  <2>2. <<j.of, j.run>> \in dropped'   BY <1>6 DEF StreamDrops
  <2>3. ASSUME n.pc = "reading", NextJob(n) = j PROVE FALSE
    <3>1. j.of = n.of /\ j.run = n.run   BY <2>3, Kinds
    <3>2. n.of = c /\ n.run = run'[c]   BY <1>1, <1>2, <2>3 DEF Follows
    <3> QED  BY <1>1, <2>2, <3>1, <3>2 DEF Dropped
  <2> QED  BY <1>3, <2>1, <2>3
<1> QED  BY <1>4, <1>5, <1>6

LEMMA WatchedStep ==
    ContainersInv /\ [Next]_vars /\ disconnects = 0 /\ signals = 0 /\ signals' = 0
        /\ Alternating /\ Watched => Watched'
<1> SUFFICES ASSUME ContainersInv, [Next]_vars, disconnects = 0, signals = 0, signals' = 0,
                    Alternating, Watched
             PROVE  Watched'
  OBVIOUS
<1>0. listening = "on" /\ ProtectionInv /\ Stores /\ dropped \subseteq dropped'
  BY EndingsStep DEF ContainersInv, Listening
<1>1. CASE \E c \in Containers : UserStarts(c) \/ ContainerDies(c) \/ UserStops(c)
  <2>1. PICK c \in Containers : UserStarts(c) \/ ContainerDies(c) \/ UserStops(c)   BY <1>1
  <2>2. UNCHANGED monitors   BY <2>1 DEF UserStarts, ContainerDies, UserStops, monitorVars
  <2> QED  BY <1>0, <2>1, <2>2, StartsAndEnds, WatchedStart, WatchedEnd
<1>2. ASSUME NEW c \in Containers, UserSignals(c) PROVE FALSE   BY <1>2 DEF UserSignals
<1>3. CASE HandleEvent   BY <1>3, WatchedByStart, WatchedByStop DEF HandleEvent
<1>4. CASE \/ \E m \in monitors : MonitorStep(m)
           \/ \E j \in pool.busy : StreamDrops(j) \/ StreamEnds(j)
  BY <1>4, WatchedByTasks
<1>5. ASSUME UNCHANGED <<events, run, monitors>>,
             \A c \in Containers : docker'[c] = "running" => docker[c] = "running"
      PROVE  Watched'
  <2>1. \A c \in Containers : \A m \in monitors : Follows(m, c) => \E n \in monitors' : Follows(n, c)'
    BY <1>5, FollowersKept
  <2> QED  BY <1>0, <1>5, <2>1, WatchedQuietly
<1>6. ASSUME NEW f \in failovers, FailoverStep(f) PROVE Watched'
  <2>1. UNCHANGED monitors
    BY <1>6 DEF FailoverStep, CreateFails, Create, StartFails, StartReplica, Poll, Reloaded, ReloadFails, ReloadBreaks,
                Recovered, monitorVars
  <2>2. CASE StartReplica(f)   BY <1>0, <2>1, <2>2, StartsAndEnds, WatchedStart
  <2>3. CASE Create(f)
    <3>1. PICK r \in Fresh : docker' = [docker EXCEPT ![r] = "created"]   BY <2>3 DEF Create
    <3>2. \A c \in Containers : docker'[c] = "running" => docker[c] = "running"
      BY <1>0, <3>1 DEF Fresh, ProtectionInv, DockerOK
    <3>3. UNCHANGED <<events, run>>   BY <2>3 DEF Create
    <3> QED  BY <1>5, <2>1, <3>2, <3>3
  <2>4. CASE ~ StartReplica(f) /\ ~ Create(f)
    <3>1. UNCHANGED <<docker, events, run>>   BY <1>6, <2>4, OthersKeepEvents DEF FailoverStep
    <3> QED  BY <1>5, <2>1, <3>1
  <2> QED  BY <2>2, <2>3, <2>4
<1>7. CASE \/ \E c \in Containers : MarkCritical(c)
           \/ Disconnect \/ Relisten \/ UNCHANGED vars
           \/ \E j \in pool.busy : LogLine(j)
  <2>1. UNCHANGED <<docker, events, run>>   BY <1>7, OthersKeepEvents
  <2>2. UNCHANGED monitors
    BY <1>7 DEF MarkCritical, Disconnect, Relisten, LogLine, vars, monitorVars
  <2> QED  BY <1>5, <2>1, <2>2
<1> QED  BY <1>1, <1>2, <1>3, <1>4, <1>6, <1>7 DEF Next

(***************************************************************************)
(* A container that runs has its log read once the events of its start are *)
(* handled, as README.md:527 has it, for every number of containers, runs, *)
(* deaths and stops, and every order in which cancelled tasks end and the  *)
(* handlers take their turns (docker_listener.py:101, 212;                 *)
(* log_monitor.py:77-82): unless the event stream broke, a container got a *)
(* signal it survived, or the task of this run ended by an exception.      *)
(***************************************************************************)
THEOREM RunningContainersAreWatched == Spec => []RunningIsMonitored
<1>1. Init => WatchInv
  <2> SUFFICES ASSUME Init PROVE WatchInv
    OBVIOUS
  <2>1. Len(events) = 0 /\ Len(events) + 1 = 1   BY DEF Init
  <2>2. \A c \in Containers : ~ StartPoint(c, 0)   BY <2>1 DEF Init, StartPoint, None
  <2>3. Alternating
    <3> SUFFICES ASSUME NEW c \in Containers, NEW i \in 0..1, NEW k \in 0..1, i < k,
                        StartPoint(c, i)
                 PROVE  FALSE
      BY <2>1 DEF Alternating
    <3>1. i = 0   OBVIOUS
    <3> QED  BY <2>2, <3>1
  <2>4. Watched   BY DEF Init, Watched
  <2> QED  BY <2>3, <2>4 DEF WatchInv
<1>2. ContainersInv /\ WatchInv /\ [Next]_vars => WatchInv'
  <2> SUFFICES ASSUME ContainersInv, WatchInv, [Next]_vars PROVE WatchInv'
    OBVIOUS
  <2>1. disconnects \in Nat /\ signals \in Nat   BY DEF ContainersInv, Stores
  <2>2. (disconnects' = 0 => disconnects = 0) /\ (signals' = 0 => signals = 0)
    BY <2>1, CountersGrow
  <2>3. disconnects' = 0 => Alternating'   BY <2>2, AlternatingStep DEF WatchInv
  <2>4. disconnects' = 0 /\ signals' = 0 => Watched'   BY <2>2, WatchedStep DEF WatchInv
  <2> QED  BY <2>3, <2>4 DEF WatchInv
<1>3. WatchInv => RunningIsMonitored
  <2> SUFFICES ASSUME WatchInv, events = << >>, disconnects = 0, signals = 0,
                      NEW c \in Containers, docker[c] = "running",
                      <<c, run[c]>> \notin dropped
               PROVE  Monitored(c)
    BY DEF RunningIsMonitored
  <2>1. Followed(c) \/ StartQueued(c)   BY DEF WatchInv, Watched, Dropped
  <2>2. ~ StartQueued(c)   BY DEF StartQueued
  <2> QED  BY <2>1, <2>2 DEF Followed, Follows, Monitored
<1> QED  BY <1>1, <1>2, <1>3, ContainersInit, ContainersStep, PTL DEF Spec
=============================================================================
