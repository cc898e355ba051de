-------------------------- MODULE MetricsRefresher --------------------------
(***************************************************************************)
(* src/src/services/metrics-refresher.ts: the nodes of a cluster keep one  *)
(* cached copy of the system metrics in Redis.  Every node runs the same   *)
(* loop: it tries to take a lock that only time releases, computes and     *)
(* stores the metrics if it got it, copies the cached ones if it did not,  *)
(* and sleeps.  Clients are served from Redis or from the node's memory,   *)
(* never from the database.                                                *)
(*                                                                         *)
(* Time is counted in ticks.  A timer that is due, or a query that is at   *)
(* the end of its time, goes first: time does not pass it by.  An answer   *)
(* of Redis takes less than a tick, unless it overruns.                    *)
(***************************************************************************)
EXTENDS Integers

CONSTANTS
    Nodes,
    LOCK_TTL,           \* LOCK_TTL_MS, in ticks
    CACHE_TTL,          \* CACHE_TTL_SEC
    REFRESH_INTERVAL,   \* REFRESH_INTERVAL_MS
    MaxQuery,           \* what getSystemMetrics and the SET take together at most ...
    LongQuery,          \* ... and what they take at most when they overrun
    Budget              \* how many errors, overruns and crashes there may be

ASSUME RefresherAssumption ==
    /\ {LOCK_TTL, CACHE_TTL, REFRESH_INTERVAL, MaxQuery} \subseteq Nat \ {0}
    /\ LongQuery \in Nat
    /\ MaxQuery <= LongQuery
    /\ Budget \in Nat
    /\ LOCK_TTL <= 2 * REFRESH_INTERVAL
    /\ 2 * REFRESH_INTERVAL + MaxQuery < CACHE_TTL

VARIABLES
    lock,     \* ticks until the lock expires, 0 if it is free
    cache,    \* ticks until the cached metrics expire, 0 if there are none
    age,      \* ticks since the computedAt of the cached metrics
    pc,       \* per node: what it is doing
    timer,    \* per node: ticks to sleep, or ticks that it has taken to compute and store
    payload,  \* per node: ticks since the computedAt of the metrics that it stores
    landed,   \* the nodes whose SET has taken effect and is not answered yet
    memory,   \* per node: ticks since the computedAt of lastKnownGoodMetrics
    slow,     \* the nodes whose query or SET overruns
    left      \* how much of the budget is left

nodeVars == <<pc, timer, payload, landed, slow>>
vars     == <<lock, cache, age, memory, left, nodeVars>>

\* There are no such metrics.
NoData == -1

\* Ages are not told apart beyond this one.
MaxAge == CACHE_TTL + REFRESH_INTERVAL + MaxQuery + LongQuery

\* Nodes whose server listens, and nodes in computeAndStoreMetrics.
Listening(n) == pc[n] \in {"sleeping", "leading"}

Computing(n) == pc[n] \in {"prewarming", "leading"}

TypeOK ==
    /\ lock \in 0..LOCK_TTL
    /\ cache \in 0..CACHE_TTL
    /\ IF cache = 0 THEN age = NoData ELSE age \in 0..(CACHE_TTL + LongQuery - cache)
    /\ pc \in [Nodes -> {"down", "prewarming", "sleeping", "leading"}]
    /\ timer \in [Nodes -> Nat]
    /\ \A n \in Nodes : timer[n] <= IF pc[n] = "sleeping" THEN REFRESH_INTERVAL ELSE LongQuery
    /\ payload \in [Nodes -> {NoData} \cup Nat]
    /\ \A n \in Nodes : payload[n] # NoData => Computing(n) /\ payload[n] <= timer[n]
    /\ landed \subseteq {n \in Nodes : payload[n] # NoData}
    /\ memory \in [Nodes -> {NoData} \cup 0..MaxAge]
    /\ slow \subseteq Nodes
    /\ left \in 0..Budget

Init ==
    /\ lock = 0
    /\ cache = 0
    /\ age = NoData
    /\ pc = [n \in Nodes |-> "down"]
    /\ timer = [n \in Nodes |-> 0]
    /\ payload = [n \in Nodes |-> NoData]
    /\ landed = {}
    /\ memory = [n \in Nodes |-> NoData]
    /\ slow = {}
    /\ left = Budget

-----------------------------------------------------------------------------

\* A node begins to do something else: of its metrics it keeps what is in memory.
Goto(n, where, ticks) ==
    /\ pc' = [pc EXCEPT ![n] = where]
    /\ timer' = [timer EXCEPT ![n] = ticks]
    /\ payload' = [payload EXCEPT ![n] = NoData]
    /\ landed' = landed \ {n}
    /\ slow' = slow \ {n}

Sleep(n) == Goto(n, "sleeping", REFRESH_INTERVAL)

Remember(n, ticks) == memory' = [memory EXCEPT ![n] = ticks]

Spend == left > 0 /\ left' = left - 1

\* bootstrap: the cache is looked up before the server listens, and computed
\* if it is cold.  This does not take the lock.
Boot(n) ==
    /\ pc[n] = "down"
    /\ \/ /\ cache > 0
          /\ Remember(n, age)
          /\ Sleep(n)
       \/ /\ cache = 0
          /\ Goto(n, "prewarming", 0)
          /\ UNCHANGED memory
    /\ UNCHANGED <<lock, cache, age, left>>

\* The lookup fails.  The error is swallowed and the server listens anyway.
BootFails(n) ==
    /\ pc[n] = "down"
    /\ Spend
    /\ Sleep(n)
    /\ UNCHANGED <<lock, cache, age, memory>>

\* computeAndStoreMetrics: getSystemMetrics answers, and computedAt is now.
Compute(n) ==
    /\ Computing(n) /\ payload[n] = NoData
    /\ payload' = [payload EXCEPT ![n] = 0]
    /\ UNCHANGED <<lock, cache, age, memory, left, pc, timer, landed, slow>>

\* The SET takes effect, whatever the cache has by now.
Overwrite(n) ==
    /\ payload[n] # NoData /\ n \notin landed
    /\ cache' = CACHE_TTL
    /\ age' = payload[n]

\* Mutant of Land: the metrics expire with the lock.
LandBriefly(n) ==
    /\ payload[n] # NoData /\ n \notin landed
    /\ cache' = LOCK_TTL
    /\ age' = payload[n]
    /\ landed' = landed \cup {n}
    /\ UNCHANGED <<lock, memory, left, pc, timer, payload, slow>>

Land(n) ==
    /\ Overwrite(n)
    /\ landed' = landed \cup {n}
    /\ UNCHANGED <<lock, memory, left, pc, timer, payload, slow>>

\* The answer to the SET: memory is updated, and the node sleeps.  It does not
\* release the lock.
Store(n) ==
    /\ n \in landed
    /\ Remember(n, payload[n])
    /\ Sleep(n)
    /\ UNCHANGED <<lock, cache, age, left>>

\* The query or the SET fails, the latter perhaps after it took effect.
StoreFails(n) ==
    /\ Computing(n)
    /\ Spend
    /\ Overwrite(n) \/ UNCHANGED <<cache, age>>
    /\ Sleep(n)
    /\ UNCHANGED <<lock, memory>>

\* Mutant of Cycle: SET without NX.
CycleAlways(n) ==
    /\ pc[n] = "sleeping" /\ timer[n] = 0
    /\ lock' = LOCK_TTL
    /\ Goto(n, "leading", 0)
    /\ UNCHANGED <<cache, age, memory, left>>

\* Mutant of Cycle: the loser does not look at the cache.
CycleBlindly(n) ==
    /\ pc[n] = "sleeping" /\ timer[n] = 0
    /\ \/ /\ lock = 0
          /\ lock' = LOCK_TTL
          /\ Goto(n, "leading", 0)
       \/ /\ lock > 0
          /\ Sleep(n)
          /\ UNCHANGED lock
    /\ UNCHANGED <<cache, age, memory, left>>

\* refreshMetricsCycle up to the query: the winner computes, a loser copies
\* what the cache has and sleeps again.
Cycle(n) ==
    /\ pc[n] = "sleeping" /\ timer[n] = 0
    /\ \/ /\ lock = 0
          /\ lock' = LOCK_TTL
          /\ Goto(n, "leading", 0)
          /\ UNCHANGED memory
       \/ /\ lock > 0
          /\ Sleep(n)
          /\ IF cache > 0 THEN Remember(n, age) ELSE UNCHANGED memory
          /\ UNCHANGED lock
    /\ UNCHANGED <<cache, age, left>>

\* A Redis call of the cycle fails, the SET perhaps after it took effect: then
\* the node sleeps, and nobody leads until the lock expires.
CycleFails(n) ==
    /\ pc[n] = "sleeping" /\ timer[n] = 0
    /\ Spend
    /\ \/ UNCHANGED lock
       \/ lock = 0 /\ lock' = LOCK_TTL
    /\ Sleep(n)
    /\ UNCHANGED <<cache, age, memory>>

\* getCachedSystemMetrics finds the metrics in Redis.  Without them, or without
\* an answer within 500 ms, it serves the node's memory and changes nothing.
ClientRead(n) ==
    /\ Listening(n)
    /\ cache > 0
    /\ Remember(n, age)
    /\ UNCHANGED <<lock, cache, age, left, nodeVars>>

\* Nothing answers in time:  the query, or the SET, or only its answer.  Nothing
\* cancels it.
Overrun(n) ==
    /\ Computing(n) /\ n \notin slow
    /\ timer[n] = MaxQuery \/ n \in landed
    /\ Spend
    /\ slow' = slow \cup {n}
    /\ UNCHANGED <<lock, cache, age, memory, pc, timer, payload, landed>>

\* The process dies, and loses its memory.  A SET that it has sent may still
\* take effect.
Crash(n) ==
    /\ pc[n] # "down"
    /\ Spend
    /\ Overwrite(n) \/ UNCHANGED <<cache, age>>
    /\ Goto(n, "down", 0)
    /\ Remember(n, NoData)
    /\ UNCHANGED lock

\* Nothing of node n is due.
Waits(n) ==
    \/ pc[n] = "down"
    \/ pc[n] = "sleeping" /\ timer[n] > 0
    \/ Computing(n) /\ IF n \in slow THEN timer[n] < LongQuery
                       ELSE n \notin landed /\ timer[n] < MaxQuery

Less(ticks) == IF ticks > 0 THEN ticks - 1 ELSE 0

Older(ticks) == IF ticks \in {NoData, MaxAge} THEN ticks ELSE ticks + 1

Elapse(n) ==
    CASE pc[n] = "down"     -> timer[n]
      [] pc[n] = "sleeping" -> timer[n] - 1
      [] Computing(n)       -> timer[n] + 1

GrowOlder ==
    /\ age' = IF cache > 1 THEN age + 1 ELSE NoData
    /\ payload' = [n \in Nodes |-> Older(payload[n])]
    /\ memory' = [n \in Nodes |-> Older(memory[n])]

\* Mutant of Tick: the lock has no expiry.
TickWithoutExpiry ==
    /\ \A n \in Nodes : Waits(n)
    /\ cache' = Less(cache)
    /\ timer' = [n \in Nodes |-> Elapse(n)]
    /\ GrowOlder
    /\ UNCHANGED <<lock, pc, landed, slow, left>>

\* Mutant of Tick: expiry times that nobody looks at go on falling.
TickBelowZero ==
    /\ \A n \in Nodes : Waits(n)
    /\ lock' = Less(lock)
    /\ cache' = cache - 1
    /\ timer' = [n \in Nodes |-> Elapse(n)]
    /\ GrowOlder
    /\ UNCHANGED <<pc, landed, slow, left>>

Tick ==
    /\ \A n \in Nodes : Waits(n)
    /\ lock' = Less(lock)
    /\ cache' = Less(cache)
    /\ timer' = [n \in Nodes |-> Elapse(n)]
    /\ GrowOlder
    /\ UNCHANGED <<pc, landed, slow, left>>

-----------------------------------------------------------------------------

Next ==
    \/ Tick
    \/ \E n \in Nodes :
          \/ Boot(n) \/ BootFails(n)
          \/ Compute(n) \/ Land(n) \/ Store(n) \/ StoreFails(n)
          \/ Cycle(n) \/ CycleFails(n) \/ ClientRead(n) \/ Overrun(n) \/ Crash(n)

Spec == Init /\ [][Next]_vars

\* Time passes, event loops run, docker restarts a node.  No client has to read.
Fairness ==
    /\ WF_vars(Tick)
    /\ \A n \in Nodes :
          /\ WF_vars(Boot(n)) /\ WF_vars(Cycle(n))
          /\ WF_vars(Compute(n)) /\ WF_vars(Land(n)) /\ WF_vars(Store(n))

FairSpec == Spec /\ Fairness

-----------------------------------------------------------------------------

\* Nothing has failed so far.
Undisturbed == left = Budget

\* Two nodes compute the metrics at once only if the query of one of them has
\* outlived the lock: nobody renews it, and nobody checks that it still holds.
OneLeader ==
    \A a, b \in Nodes :
        a # b /\ pc[a] = "leading" /\ pc[b] = "leading"
            => timer[a] >= LOCK_TTL \/ timer[b] >= LOCK_TTL

\* From the moment a server listens the cache is warm, as long as nothing fails
\* (learnings.md: "100% cache hit rate from the very first incoming HTTP
\* request"): a node that finds the lock taken, and be it by itself, sleeps
\* once more, and still the next query is done before the metrics expire.
CacheStaysWarm ==
    Undisturbed /\ (\E n \in Nodes : Listening(n)) => cache > 0

\* A node that loses every election still has a recent copy to fall back on:
\* what it copies may have waited for its SET, and be about to expire, but the
\* node copies again soon.
FallbackIsRecent ==
    Undisturbed =>
        \A n \in Nodes :
            Listening(n) =>
                memory[n] \in 0..(CACHE_TTL + REFRESH_INTERVAL + 2 * MaxQuery - 1)

\* Errors, overruns and crashes leave no lasting damage: the cache is warm again
\* in the end, and every node has a copy, also one that started cold.
MetricsRecover ==
    <>[](cache > 0 /\ \A n \in Nodes : memory[n] # NoData)

=============================================================================
