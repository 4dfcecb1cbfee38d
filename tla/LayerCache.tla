----------------------------- MODULE LayerCache -----------------------------
(***************************************************************************)
(* The two-level cache of scan results: LayerScanCache and LRUCache of     *)
(* cache/cache_common.py behind the endpoints of cache/cache_node.py.      *)
(*                                                                         *)
(* The endpoints are plain functions, so FastAPI runs each request in a    *)
(* thread of its pool: only one LRUCache method (its lock) or one Redis    *)
(* command is atomic, and between two of them other requests run.  All the *)
(* nodes use the same Redis and the same keys.                             *)
(***************************************************************************)
EXTENDS Naturals, SequencesExt, FiniteSets

CONSTANTS
    Nodes,       \* cache nodes
    Threads,     \* request threads of all the nodes together
    Keys,        \* layer hashes
    None,        \* no node, key or entry
    Capacity,    \* CACHE_CAPACITY
    TTL,         \* CACHE_TTL_SECONDS, in ticks of the clock
    MaxTime,     \* bound: ticks of the clock
    MaxPuts,     \* bound: POST /cache requests
    MaxDeletes,  \* bound: DELETE /cache requests
    MaxRestarts, \* bound: stops of nodes
    MaxOutages   \* bound: times Redis becomes unreachable

ASSUME CacheAssumption ==
    /\ {Capacity, TTL, MaxTime, MaxPuts, MaxDeletes, MaxRestarts, MaxOutages} \subseteq Nat
    /\ Capacity > 0
    /\ None \notin Nodes \cup Keys

VARIABLES
    lru,        \* the OrderedDict of each node, least recently used first
    redis,      \* the entries stored under rcsce:cache:*, one per key at most
    up,         \* Redis is reachable
    now,        \* time.time()
    node,       \* what each node is doing: "down", "warming" or "serving"
    connected,  \* the node found Redis when it started: self._redis
    warm,       \* _warm_from_redis: keys still to read, its `now`, the expired key
    thread,     \* what each request thread is doing
    finished,   \* history: per key, the last PUT that was answered; 0 before the first
    safe,       \* history: per key, the entry of a PUT that had no rival (see below)
    puts, deletes, restarts, outages

nodeVars == <<node, connected, warm>>
counters == <<puts, deletes, restarts, outages>>
vars == <<lru, redis, up, now, nodeVars, thread, finished, safe, counters>>

\* A payload; data identifies the PUT that stored it.  created_at is a clock of its own,
\* which nobody reads, and is left out; made is a history, the time from which the TTL runs.
Entry == [key: Keys, data: 1..MaxPuts, made: 0..MaxTime, expires_at: 0..(MaxTime + TTL)]
Pc == {"idle", "lookup", "expired", "purge", "fallback", "rehydrate", "cleanup",
       "store", "setex", "unevict", "delete"}
\* asked is a history: when the GET came.
Idle == [pc |-> "idle", node |-> None, key |-> None, entry |-> None, evicted |-> None,
         asked |-> 0]
Cold == [keys |-> {}, at |-> 0, expired |-> None]

Expired(e) == now > e.expires_at

-----------------------------------------------------------------------------
(* LRUCache                                                                *)

InLru(L, k) == \E i \in DOMAIN L : L[i].key = k
LruFind(L, k) == CHOOSE i \in DOMAIN L : L[i].key = k  \* the position of the key
LruDelete(L, k) == IF InLru(L, k) THEN RemoveAt(L, LruFind(L, k)) ELSE L
LruTouch(L, k) == IF InLru(L, k) THEN Append(LruDelete(L, k), L[LruFind(L, k)]) ELSE L

\* Mutant of LruPut: the capacity is not checked.
LruPutUnbounded(L, e) == <<LruDelete(L, e.key) \o <<e>>, None>>

\* put() is <<what the dictionary becomes, the key it evicted>>.
LruPut(L, e) ==
    LET M == LruDelete(L, e.key) \o <<e>>
    IN  IF Len(M) > Capacity THEN <<Tail(M), Head(M).key>> ELSE <<M, None>>

-----------------------------------------------------------------------------
(* Redis: one command each.                                                *)

RedisFind(k) == {e \in redis : e.key = k}             \* at most one entry
RedisDelete(k) == redis' = IF up THEN redis \ RedisFind(k) ELSE redis

\* Mutant of RedisSetex: SET ... NX, an entry that is stored already wins.
RedisSetnx(e) ==
    redis' = IF up /\ RedisFind(e.key) = {} THEN redis \cup {e} ELSE redis

RedisSetex(e) == redis' = IF up THEN (redis \ RedisFind(e.key)) \cup {e} ELSE redis

\* SETEX runs after the payload took its time, so its time to live ends after
\* expires_at, when no reader would take the entry any more.
RedisExpires ==
    /\ \E e \in redis : Expired(e) /\ redis' = redis \ {e}
    /\ UNCHANGED <<lru, up, now, nodeVars, thread, finished, safe, counters>>

-----------------------------------------------------------------------------
(* The request threads.                                                    *)

Goto(t, pc) == thread' = [thread EXCEPT ![t].pc = pc]
Return(t) == thread' = [thread EXCEPT ![t] = Idle]
threadOnly == <<up, now, nodeVars, finished, safe, counters>>

GetCache(t) ==
    /\ \E n \in Nodes, k \in Keys :
          /\ thread[t].pc = "idle" /\ node[n] = "serving"
          /\ thread' = [thread EXCEPT ![t] = [Idle EXCEPT !.pc = "lookup", !.node = n, !.key = k,
                                                            !.asked = now]]
    /\ UNCHANGED <<lru, redis, threadOnly>>

\* Mutant of Lookup: an expired entry of the LRU is a hit.
LookupUnchecked(t) ==
    LET r == thread[t]  L == lru[r.node]
    IN  /\ r.pc = "lookup"
        /\ lru' = [lru EXCEPT ![r.node] = LruTouch(@, r.key)]
        /\ IF InLru(L, r.key) THEN Return(t) ELSE Goto(t, "fallback")
        /\ UNCHANGED <<redis, threadOnly>>

\* lru.get: the entry is touched even if it has expired.
Lookup(t) ==
    LET r == thread[t]  L == lru[r.node]
    IN  /\ r.pc = "lookup"
        /\ lru' = [lru EXCEPT ![r.node] = LruTouch(@, r.key)]
        /\ IF ~InLru(L, r.key) THEN Goto(t, "fallback")
           ELSE IF Expired(L[LruFind(L, r.key)]) THEN Goto(t, "expired") ELSE Return(t)
        /\ UNCHANGED <<redis, threadOnly>>

\* "clean up both layers": lru.delete ...
ExpiredInLru(t) ==
    /\ thread[t].pc = "expired"
    /\ lru' = [lru EXCEPT ![thread[t].node] = LruDelete(@, thread[t].key)]
    /\ Goto(t, "purge")
    /\ UNCHANGED <<redis, threadOnly>>

\* ... then _delete_from_redis
PurgeRedis(t) ==
    /\ thread[t].pc = "purge"
    /\ IF connected[thread[t].node] THEN RedisDelete(thread[t].key) ELSE UNCHANGED redis
    /\ Goto(t, "fallback")
    /\ UNCHANGED <<lru, threadOnly>>

Fallback(t) ==
    LET found == IF up /\ connected[thread[t].node] THEN RedisFind(thread[t].key) ELSE {}
    IN  /\ thread[t].pc = "fallback"
        /\ \/ found = {} /\ Return(t)
           \/ \E e \in found : \/ Expired(e) /\ Goto(t, "cleanup")
                               \/ /\ ~Expired(e)
                                  /\ thread' = [thread EXCEPT ![t].pc = "rehydrate", ![t].entry = e]
        /\ UNCHANGED <<lru, redis, threadOnly>>

\* "Expired in Redis — clean up"
CleanUp(t) ==
    /\ thread[t].pc = "cleanup"
    /\ RedisDelete(thread[t].key)
    /\ Return(t)
    /\ UNCHANGED <<lru, threadOnly>>

\* Mutant of Rehydrate: what the put evicts is removed from Redis too.
RehydrateEvicts(t) ==
    LET put == LruPut(lru[thread[t].node], thread[t].entry)
    IN  /\ thread[t].pc = "rehydrate"
        /\ lru' = [lru EXCEPT ![thread[t].node] = put[1]]
        /\ RedisDelete(put[2])
        /\ Return(t)
        /\ UNCHANGED threadOnly

\* What the put evicts here stays in Redis.
Rehydrate(t) ==
    /\ thread[t].pc = "rehydrate"
    /\ lru' = [lru EXCEPT ![thread[t].node] = LruPut(@, thread[t].entry)[1]]
    /\ Return(t)
    /\ UNCHANGED <<redis, threadOnly>>

PutCache(t) ==
    /\ puts < MaxPuts /\ puts' = puts + 1
    /\ \E n \in Nodes, k \in Keys :
          /\ thread[t].pc = "idle" /\ node[n] = "serving"
          /\ thread' = [thread EXCEPT ![t] = [Idle EXCEPT
                !.pc = "store", !.node = n, !.key = k,
                !.entry = [key |-> k, data |-> puts + 1, made |-> now, expires_at |-> now + TTL]]]
    /\ UNCHANGED <<lru, redis, up, now, nodeVars, finished, safe, deletes, restarts, outages>>

\* lru.put; a node without Redis is finished with it.  What it evicts is to be deleted
\* from Redis.
Store(t) ==
    LET r == thread[t]  put == LruPut(lru[r.node], r.entry)
    IN  /\ r.pc = "store"
        /\ lru' = [lru EXCEPT ![r.node] = put[1]]
        /\ IF connected[r.node]
           THEN /\ thread' = [thread EXCEPT ![t].pc = "setex", ![t].evicted = put[2]]
                /\ safe' = [k \in Keys |-> IF k = put[2] THEN None ELSE safe[k]]
                /\ UNCHANGED finished
           ELSE /\ Return(t) /\ finished' = [finished EXCEPT ![r.key] = r.entry.data]
                /\ UNCHANGED safe
        /\ UNCHANGED <<redis, up, now, nodeVars, counters>>

\* Nobody else has to do with the key: no other request and no deletion of it is under
\* way, and no node holds an older entry of it, whose end would delete it by its key.
Unrivalled(t) ==
    LET k == thread[t].key
    IN  /\ \A u \in Threads \ {t} : thread[u].key # k /\ thread[u].evicted # k
        /\ \A n \in Nodes : /\ warm[n].expired # k
                             /\ \A e \in ToSet(lru[n]) :
                                   e.key = k => e.data >= thread[t].entry.data

WriteThrough(t) ==
    LET r == thread[t]
    IN  /\ r.pc = "setex"
        /\ RedisSetex(r.entry)
        /\ safe' = IF up /\ Unrivalled(t) THEN [safe EXCEPT ![r.key] = r.entry] ELSE safe
        /\ IF r.evicted # None THEN Goto(t, "unevict") /\ UNCHANGED finished
           ELSE Return(t) /\ finished' = [finished EXCEPT ![r.key] = r.entry.data]
        /\ UNCHANGED <<lru, up, now, nodeVars, counters>>

\* "If LRU evicted an entry, remove it from Redis too"
UnEvict(t) ==
    LET r == thread[t]
    IN  /\ r.pc = "unevict"
        /\ RedisDelete(r.evicted)
        /\ Return(t) /\ finished' = [finished EXCEPT ![r.key] = r.entry.data]
        /\ UNCHANGED <<lru, up, now, nodeVars, safe, counters>>

\* The endpoint deletes from the LRU only, not with LayerScanCache.delete.
DeleteCache(t) ==
    /\ deletes < MaxDeletes /\ deletes' = deletes + 1
    /\ \E n \in Nodes, k \in Keys :
          /\ thread[t].pc = "idle" /\ node[n] = "serving"
          /\ lru' = [lru EXCEPT ![n] = LruDelete(@, k)]
    /\ UNCHANGED <<redis, up, now, nodeVars, thread, finished, safe, puts, restarts, outages>>

-----------------------------------------------------------------------------
(* Start of a node, restarts, outages, the clock.                          *)

\* _make_redis, then the KEYS of _warm_from_redis
Boot(n) ==
    /\ node[n] = "down"
    /\ connected' = [connected EXCEPT ![n] = up]
    /\ node' = [node EXCEPT ![n] = IF up /\ redis # {} THEN "warming" ELSE "serving"]
    /\ warm' = [warm EXCEPT ![n] = IF up THEN [keys |-> {e.key : e \in redis}, at |-> now,
                                               expired |-> None] ELSE Cold]
    /\ UNCHANGED <<lru, redis, up, now, thread, finished, safe, counters>>

\* GET of the next key; a key that is gone, or an error, is passed over.
WarmRead(n) ==
    LET found(k) == IF up THEN RedisFind(k) ELSE {}
    IN  /\ node[n] = "warming" /\ warm[n].expired = None
        /\ \E k \in warm[n].keys :
              LET stale == {e \in found(k) : warm[n].at > e.expires_at}
              IN  /\ warm' = [warm EXCEPT ![n].keys = @ \ {k},
                                          ![n].expired = IF stale = {} THEN None ELSE k]
                  /\ \/ \E e \in found(k) \ stale : lru' = [lru EXCEPT ![n] = LruPut(@, e)[1]]
                     \/ found(k) \ stale = {} /\ UNCHANGED lru
        /\ UNCHANGED <<redis, up, now, node, connected, thread, finished, safe, counters>>

\* "Already expired — skip"
WarmDelete(n) ==
    /\ node[n] = "warming" /\ warm[n].expired # None
    /\ RedisDelete(warm[n].expired)
    /\ warm' = [warm EXCEPT ![n].expired = None]
    /\ UNCHANGED <<lru, up, now, node, connected, thread, finished, safe, counters>>

Warmed(n) ==
    /\ node[n] = "warming" /\ warm[n].keys = {} /\ warm[n].expired = None
    /\ node' = [node EXCEPT ![n] = "serving"] /\ warm' = [warm EXCEPT ![n] = Cold]
    /\ UNCHANGED <<lru, redis, up, now, connected, thread, finished, safe, counters>>

\* The process ends: its LRU and its requests are gone.
Stop(n) ==
    /\ node[n] # "down" /\ restarts < MaxRestarts /\ restarts' = restarts + 1
    /\ node' = [node EXCEPT ![n] = "down"] /\ warm' = [warm EXCEPT ![n] = Cold]
    /\ connected' = [connected EXCEPT ![n] = FALSE]
    /\ lru' = [lru EXCEPT ![n] = << >>]
    /\ thread' = [t \in Threads |-> IF thread[t].node = n THEN Idle ELSE thread[t]]
    /\ UNCHANGED <<redis, up, now, finished, safe, puts, deletes, outages>>

Outage ==
    /\ up /\ outages < MaxOutages
    /\ up' = FALSE /\ outages' = outages + 1
    /\ UNCHANGED <<lru, redis, now, nodeVars, thread, finished, safe, puts, deletes, restarts>>

Recovery ==
    /\ ~up /\ up' = TRUE
    /\ UNCHANGED <<lru, redis, now, nodeVars, thread, finished, safe, counters>>

Tick ==
    /\ now < MaxTime /\ now' = now + 1
    /\ UNCHANGED <<lru, redis, up, nodeVars, thread, finished, safe, counters>>

-----------------------------------------------------------------------------
Init ==
    /\ lru = [n \in Nodes |-> << >>] /\ redis = {} /\ up = TRUE /\ now = 0
    /\ node = [n \in Nodes |-> "down"] /\ connected = [n \in Nodes |-> FALSE]
    /\ warm = [n \in Nodes |-> Cold] /\ thread = [t \in Threads |-> Idle]
    /\ finished = [k \in Keys |-> 0] /\ safe = [k \in Keys |-> None]
    /\ puts = 0 /\ deletes = 0 /\ restarts = 0 /\ outages = 0

Next ==
    \/ \E t \in Threads :
        \/ GetCache(t) \/ Lookup(t) \/ ExpiredInLru(t) \/ PurgeRedis(t) \/ Fallback(t)
        \/ CleanUp(t) \/ Rehydrate(t)
        \/ PutCache(t) \/ Store(t) \/ WriteThrough(t) \/ UnEvict(t)
        \/ DeleteCache(t)
    \/ \E n \in Nodes : Boot(n) \/ WarmRead(n) \/ WarmDelete(n) \/ Warmed(n) \/ Stop(n)
    \/ RedisExpires \/ Outage \/ Recovery \/ Tick

Spec == Init /\ [][Next]_vars

-----------------------------------------------------------------------------
(* Properties.                                                             *)

Stored == redis \cup UNION {ToSet(lru[n]) : n \in Nodes}

(***************************************************************************)
(* Every variable has its type; an LRU never exceeds its capacity, and     *)
(* neither level ever holds two entries for one key.                       *)
(***************************************************************************)
TypeOK ==
    /\ \A n \in Nodes : /\ ToSet(lru[n]) \subseteq Entry /\ Len(lru[n]) <= Capacity
                        /\ \A i, j \in DOMAIN lru[n] : lru[n][i].key = lru[n][j].key => i = j
    /\ redis \subseteq Entry /\ \A d, e \in redis : d.key = e.key => d = e
    /\ up \in BOOLEAN /\ now \in 0..MaxTime
    /\ node \in [Nodes -> {"down", "warming", "serving"}] /\ connected \in [Nodes -> BOOLEAN]
    /\ warm \in [Nodes -> [keys: SUBSET Keys, at: 0..MaxTime, expired: Keys \cup {None}]]
    /\ thread \in [Threads -> [pc: Pc, node: Nodes \cup {None}, key: Keys \cup {None},
                               entry: Entry \cup {None}, evicted: Keys \cup {None},
                               asked: 0..MaxTime]]
    /\ finished \in [Keys -> 0..MaxPuts] /\ safe \in [Keys -> Entry \cup {None}]
    /\ puts \in 0..MaxPuts /\ deletes \in 0..MaxDeletes
    /\ restarts \in 0..MaxRestarts /\ outages \in 0..MaxOutages

(***************************************************************************)
(* cache_common.py:159, 174: a GET never answers with a result whose TTL   *)
(* had passed when it was asked, whether the entry was in the LRU all the  *)
(* time, was rehydrated while it expired, was loaded at a restart or came  *)
(* back by a race: it is late at most by the time the request itself took. *)
(***************************************************************************)
Answer(t) ==
    IF thread[t].pc = "rehydrate" THEN thread[t].entry
    ELSE lru[thread[t].node][LruFind(lru[thread[t].node], thread[t].key)]
Answers(t) == Rehydrate(t) \/ (Lookup(t) /\ thread'[t] = Idle)

AnswersAreCurrent ==
    [][\A t \in Threads : Answers(t) => Answer(t).made + TTL >= thread[t].asked]_vars

Quiet == \A t \in Threads : thread[t].pc = "idle"

(***************************************************************************)
(* When one node serves its requests one by one and Redis stays up, the    *)
(* two levels agree between requests: an unexpired entry of the LRU is in  *)
(* Redis too, so a restart does not lose it, and no level holds a result   *)
(* older than the last PUT that was answered.                              *)
(***************************************************************************)
Coherent ==
    Quiet /\ outages = 0 =>
        /\ \A n \in Nodes : \A e \in ToSet(lru[n]) : Expired(e) \/ e \in redis
        /\ \A e \in Stored : e.data >= finished[e.key]

(***************************************************************************)
(* cache_common.py:106-117, 217: a result that was written through while   *)
(* nobody else had to do with its key stays in Redis until its TTL passes  *)
(* or a PUT evicts the key, and no node holds an older one -- whatever     *)
(* requests, evictions, clean-ups of other entries, deletes, restarts,     *)
(* warm-ups and outages follow, on any node and in any order.              *)
(***************************************************************************)
SafeResultStays ==
    \A k \in Keys : safe[k] # None /\ ~Expired(safe[k]) =>
        /\ \E e \in RedisFind(k) : e.data >= safe[k].data
        /\ \A e \in Stored : e.key = k => e.data >= safe[k].data

=============================================================================
