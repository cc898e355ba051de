----------------------- MODULE MetricsRefresherProofs -----------------------
(***************************************************************************)
(* Proofs about MetricsRefresher, for any cluster and for all times that   *)
(* satisfy RefresherAssumption: two intervals and a query fit into the     *)
(* life of the cached metrics, and a lock does not outlive two intervals.  *)
(***************************************************************************)
EXTENDS MetricsRefresher, TLAPS

-----------------------------------------------------------------------------
(* Type correctness.                                                       *)

LEMMA TypeStep == TypeOK /\ [Next]_vars => TypeOK'
<1> SUFFICES ASSUME TypeOK, [Next]_vars PROVE TypeOK'
  OBVIOUS
<1> USE RefresherAssumption DEF TypeOK, NoData, MaxAge, Computing
<1>1. CASE UNCHANGED vars
  BY <1>1 DEF vars, nodeVars
<1>2. CASE Tick
  <2>1. /\ lock' \in 0..LOCK_TTL /\ cache' \in 0..CACHE_TTL
        /\ pc' = pc /\ landed' = landed /\ slow' = slow /\ left' = left
    BY <1>2 DEF Tick, Less
  <2>2. IF cache' = 0 THEN age' = NoData ELSE age' \in 0..(CACHE_TTL + LongQuery - cache')
    BY <1>2 DEF Tick, Less, GrowOlder
  <2>3. \A n \in Nodes : memory'[n] \in {NoData} \cup 0..MaxAge
    BY <1>2 DEF Tick, GrowOlder, Older
  <2>4. memory' \in [Nodes -> {NoData} \cup 0..MaxAge]
    BY <1>2, <2>3 DEF Tick, GrowOlder
  <2>5. \A n \in Nodes :
          /\ timer'[n] \in Nat
          /\ timer'[n] <= IF pc[n] = "sleeping" THEN REFRESH_INTERVAL ELSE LongQuery
          /\ Computing(n) => timer'[n] = timer[n] + 1
    BY <1>2 DEF Tick, Elapse, Waits
  <2>6. timer' \in [Nodes -> Nat]
    BY <1>2, <2>5 DEF Tick
  <2>7. \A n \in Nodes :
          payload'[n] = IF payload[n] = NoData THEN NoData ELSE payload[n] + 1
    BY <1>2 DEF Tick, GrowOlder, Older
  <2>8. payload' \in [Nodes -> {NoData} \cup Nat]
    BY <1>2, <2>7 DEF Tick, GrowOlder
  <2>9. \A n \in Nodes : payload'[n] # NoData => Computing(n)' /\ payload'[n] <= timer'[n]
    BY <2>1, <2>5, <2>7
  <2>10. landed' \subseteq {n \in Nodes : payload'[n] # NoData}
    BY <2>1, <2>7
  <2> QED
    BY <2>1, <2>2, <2>4, <2>5, <2>6, <2>8, <2>9, <2>10
<1>3. ASSUME NEW n \in Nodes,
             \/ Boot(n) \/ BootFails(n)
             \/ Compute(n) \/ Land(n) \/ Store(n) \/ StoreFails(n)
             \/ Cycle(n) \/ CycleFails(n) \/ ClientRead(n) \/ Overrun(n) \/ Crash(n)
      PROVE  TypeOK'
  <2> USE DEF Goto, Sleep, Remember, Spend, nodeVars
  <2>1. CASE Boot(n)
    BY <2>1 DEF Boot
  <2>2. CASE BootFails(n)
    BY <2>2 DEF BootFails
  <2>3. CASE Store(n)
    BY <2>3 DEF Store
  <2>4. CASE StoreFails(n)
    BY <2>4 DEF StoreFails, Overwrite
  <2>5. CASE Cycle(n)
    BY <2>5 DEF Cycle
  <2>6. CASE CycleFails(n)
    BY <2>6 DEF CycleFails
  <2>7. CASE ClientRead(n)
    BY <2>7 DEF ClientRead
  <2>8. CASE Overrun(n)
    BY <2>8 DEF Overrun
  <2>9. CASE Crash(n)
    BY <2>9 DEF Crash, Overwrite
  <2>10. CASE Compute(n)
    BY <2>10 DEF Compute
  <2>11. CASE Land(n)
    BY <2>11 DEF Land, Overwrite
  <2> QED
    BY <1>3, <2>1, <2>2, <2>3, <2>4, <2>5, <2>6, <2>7, <2>8, <2>9, <2>10, <2>11
<1> QED
  BY <1>1, <1>2, <1>3 DEF Next

LEMMA TypeInit == Init => TypeOK
  BY RefresherAssumption DEF Init, TypeOK, NoData, Computing

\* Expiry times, timers and ages stay in their ranges, in a cluster of any size.
THEOREM RefresherTypeCorrect == Spec => []TypeOK
  BY TypeInit, TypeStep, PTL DEF Spec

-----------------------------------------------------------------------------
(* The lock.                                                               *)

\* A leader's lock is younger than its query.
LockInv ==
    \A n \in Nodes : pc[n] = "leading" => lock + timer[n] >= LOCK_TTL

LEMMA LockStep == TypeOK /\ LockInv /\ OneLeader /\ [Next]_vars => LockInv' /\ OneLeader'
<1> SUFFICES ASSUME TypeOK, LockInv, OneLeader, [Next]_vars PROVE LockInv' /\ OneLeader'
  OBVIOUS
<1> USE RefresherAssumption DEF TypeOK, LockInv, OneLeader
<1>1. CASE UNCHANGED vars
  BY <1>1 DEF vars, nodeVars
<1>2. CASE Tick
  <2>1. pc' = pc /\ \A n \in Nodes : pc[n] = "leading" => timer'[n] = timer[n] + 1
    BY <1>2 DEF Tick, Elapse, Computing
  <2>2. lock' \in Nat /\ lock' >= lock - 1
    BY <1>2 DEF Tick, Less
  <2> QED
    BY <2>1, <2>2
<1>3. ASSUME NEW n \in Nodes,
             \/ Boot(n) \/ BootFails(n)
             \/ Compute(n) \/ Land(n) \/ Store(n) \/ StoreFails(n)
             \/ CycleFails(n) \/ ClientRead(n) \/ Overrun(n) \/ Crash(n)
      PROVE  LockInv' /\ OneLeader'
  <2>1. lock' \in Nat /\ lock' >= lock
    BY <1>3 DEF Boot, BootFails, Compute, Land, Store, StoreFails, CycleFails, ClientRead,
                Overrun, Crash
  <2>2. \A m \in Nodes : pc'[m] = "leading" => pc[m] = "leading" /\ timer'[m] = timer[m]
    BY <1>3 DEF Boot, BootFails, Compute, Land, Store, StoreFails, CycleFails, ClientRead,
                Overrun, Crash, Goto, Sleep, nodeVars
  <2> QED
    BY <2>1, <2>2
<1>4. ASSUME NEW n \in Nodes, Cycle(n)
      PROVE  LockInv' /\ OneLeader'
  <2>1. \A m \in Nodes \ {n} : pc'[m] = pc[m] /\ timer'[m] = timer[m]
    BY <1>4 DEF Cycle, Goto, Sleep
  <2>2. CASE lock = 0
    <3>1. lock' = LOCK_TTL /\ timer'[n] = 0
      BY <1>4, <2>2 DEF Cycle, Goto
    <3>2. \A m \in Nodes \ {n} : pc[m] = "leading" => timer[m] >= LOCK_TTL
      BY <2>2
    <3> QED
      BY <2>1, <3>1, <3>2
  <2>3. CASE lock > 0
    <3>1. lock' = lock /\ pc'[n] = "sleeping"
      BY <1>4, <2>3 DEF Cycle, Goto, Sleep
    <3> QED
      BY <2>1, <3>1
  <2> QED
    BY <2>2, <2>3
<1> QED
  BY <1>1, <1>2, <1>3, <1>4 DEF Next

\* Whatever fails, two nodes lead at once only behind a query that has outlived
\* the lock.
THEOREM OneLeaderTheorem == Spec => []OneLeader
<1>1. Init => LockInv /\ OneLeader
  BY DEF Init, LockInv, OneLeader
<1> QED
  BY <1>1, TypeInit, TypeStep, LockStep, PTL DEF Spec

-----------------------------------------------------------------------------
(* Without failures.                                                       *)

\* Queries keep to their time, and the answer to a SET comes at once.
OnTime ==
    Undisturbed =>
        /\ slow = {}
        /\ \A n \in Nodes : Computing(n) => timer[n] <= MaxQuery
        /\ landed # {} => cache = CACHE_TTL

\* The next SET that is certain comes before the metrics expire: that of a query
\* that is under way, or that of a sleeping node, which gets the lock when it
\* wakes up or, at the latest, one interval later.  One that has just been has
\* not been answered yet.
EndsInTime(n) == pc[n] = "leading" /\ n \notin landed /\ MaxQuery - timer[n] < cache

WakesInTime(n, due) ==
    /\ pc[n] = "sleeping"
    /\ due \in {timer[n], timer[n] + REFRESH_INTERVAL}
    /\ lock <= due
    /\ due + MaxQuery < cache

StaysWarm(n) == n \in landed \/ EndsInTime(n) \/ \E due \in Nat : WakesInTime(n, due)

Warm == \E n \in Nodes : StaysWarm(n)

WarmInv ==
    Undisturbed /\ (cache > 0 \/ \E n \in Nodes : Listening(n)) => Warm

\* The cached metrics have waited for their SET for the time of a query at most,
\* and what a node remembers is refreshed, or read again, before it is too old.
CacheAgeInv == Undisturbed /\ cache > 0 => age + cache <= CACHE_TTL + MaxQuery

AgeInv ==
    Undisturbed =>
        \A n \in Nodes :
            /\ Listening(n) => memory[n] \in Nat
            /\ pc[n] = "sleeping" =>
                  memory[n] + timer[n] < CACHE_TTL + REFRESH_INTERVAL + MaxQuery
            /\ pc[n] = "leading" =>
                  memory[n] - timer[n] < CACHE_TTL + REFRESH_INTERVAL + MaxQuery

\* The budget of failures only shrinks, and every failure takes of it.
LEMMA CalmBefore == TypeOK /\ [Next]_vars /\ Undisturbed' => Undisturbed
<1> SUFFICES ASSUME TypeOK, [Next]_vars, Undisturbed' PROVE Undisturbed
  OBVIOUS
<1> QED
  BY DEF TypeOK, Undisturbed, vars, Next, Tick, Boot, BootFails, Compute, Land, Store,
         StoreFails, Cycle, CycleFails, ClientRead, Overrun, Crash, Spend

\* So only these steps are left.
LEMMA CalmSteps ==
    ASSUME TypeOK, [Next]_vars, Undisturbed'
    PROVE  \/ UNCHANGED vars
           \/ Tick
           \/ \E n \in Nodes :
                 Boot(n) \/ Compute(n) \/ Land(n) \/ Store(n) \/ Cycle(n) \/ ClientRead(n)
<1>1. \A n \in Nodes :
        ~(BootFails(n) \/ StoreFails(n) \/ CycleFails(n) \/ Overrun(n) \/ Crash(n))
  BY DEF TypeOK, Undisturbed, BootFails, StoreFails, CycleFails, Overrun, Crash, Spend
<1> QED
  BY <1>1 DEF Next

LEMMA OnTimeStep == TypeOK /\ OnTime /\ [Next]_vars => OnTime'
<1> SUFFICES ASSUME TypeOK, OnTime, [Next]_vars, Undisturbed'
             PROVE  /\ slow' = {}
                    /\ \A n \in Nodes : Computing(n)' => timer'[n] <= MaxQuery
                    /\ landed' # {} => cache' = CACHE_TTL
  BY DEF OnTime
<1> USE RefresherAssumption DEF TypeOK, OnTime, Computing
<1>1. Undisturbed
  BY CalmBefore
<1>2. CASE UNCHANGED vars
  BY <1>1, <1>2 DEF vars, nodeVars
<1>3. CASE Tick
  <2>1. slow' = {} /\ pc' = pc /\ landed' = {}
    BY <1>1, <1>3 DEF Tick, Waits
  <2>2. \A n \in Nodes : Computing(n) => timer[n] < MaxQuery /\ timer'[n] = timer[n] + 1
    BY <1>1, <1>3 DEF Tick, Waits, Elapse
  <2> QED
    BY <2>1, <2>2
<1>4. ASSUME NEW n \in Nodes,
             Boot(n) \/ Compute(n) \/ Land(n) \/ Store(n) \/ Cycle(n) \/ ClientRead(n)
      PROVE  /\ slow' = {}
             /\ \A m \in Nodes : Computing(m)' => timer'[m] <= MaxQuery
             /\ landed' # {} => cache' = CACHE_TTL
  <2>1. slow' = {}
    BY <1>1, <1>4 DEF Boot, Compute, Land, Store, Cycle, ClientRead, Goto, Sleep, nodeVars
  <2>2. \A m \in Nodes :
          Computing(m)' => timer'[m] = 0 \/ (pc'[m] = pc[m] /\ timer'[m] = timer[m])
    BY <1>4 DEF Boot, Compute, Land, Store, Cycle, ClientRead, Goto, Sleep, nodeVars
  <2>3. (landed' \subseteq landed /\ cache' = cache) \/ cache' = CACHE_TTL
    BY <1>4 DEF Boot, Compute, Land, Overwrite, Store, Cycle, ClientRead, Goto, Sleep, nodeVars
  <2> QED
    BY <1>1, <2>1, <2>2, <2>3
<1> QED
  BY <1>2, <1>3, <1>4, CalmSteps

\* The heart of the matter: the certain query stays certain, until it is
\* replaced by another one.
LEMMA WarmStep == TypeOK /\ OnTime /\ LockInv /\ WarmInv /\ [Next]_vars => WarmInv'
<1> SUFFICES ASSUME TypeOK, OnTime, LockInv, WarmInv, [Next]_vars, Undisturbed',
                    cache' > 0 \/ \E n \in Nodes : Listening(n)'
             PROVE  Warm'
  BY DEF WarmInv
<1> USE RefresherAssumption DEF TypeOK, Warm, StaysWarm
<1>1. Undisturbed
  BY CalmBefore
<1>2. CASE UNCHANGED vars
  <2>1. Warm
    BY <1>1, <1>2 DEF vars, nodeVars, WarmInv, Listening
  <2> QED
    BY <1>2, <2>1 DEF vars, nodeVars, EndsInTime, WakesInTime
<1>3. CASE Tick
  <2>1. Warm
    BY <1>1, <1>3 DEF Tick, Less, WarmInv, Listening
  <2>2. PICK n \in Nodes : EndsInTime(n) \/ \E due \in Nat : WakesInTime(n, due)
    BY <1>1, <1>3, <2>1 DEF Tick, Waits, Computing, OnTime
  <2>3. CASE EndsInTime(n)
    <3>1. timer[n] < MaxQuery /\ timer'[n] = timer[n] + 1 /\ pc' = pc /\ landed' = landed
      BY <1>1, <1>3, <2>3 DEF Tick, Waits, Elapse, Computing, EndsInTime, OnTime
    <3>2. cache' = cache - 1
      BY <1>3, <2>3, <3>1 DEF Tick, Less, EndsInTime
    <3>3. EndsInTime(n)'
      BY <2>3, <3>1, <3>2 DEF EndsInTime
    <3> QED
      BY <3>3
  <2>4. ASSUME NEW due \in Nat, WakesInTime(n, due)
        PROVE  Warm'
    <3>1. timer[n] > 0 /\ timer'[n] = timer[n] - 1 /\ pc' = pc
      BY <1>3, <2>4 DEF Tick, Waits, Elapse, Computing, WakesInTime
    <3>2. due - 1 \in Nat /\ cache' = cache - 1 /\ lock' <= due - 1
      BY <1>3, <2>4, <3>1 DEF Tick, Less, WakesInTime
    <3>3. WakesInTime(n, due - 1)'
      BY <2>4, <3>1, <3>2 DEF WakesInTime
    <3> QED
      BY <3>2, <3>3
  <2> QED
    BY <2>2, <2>3, <2>4
<1>4. ASSUME NEW m \in Nodes, Store(m)
      PROVE  Warm'
  <2>1. /\ pc'[m] = "sleeping" /\ timer'[m] = REFRESH_INTERVAL
        /\ cache' = CACHE_TTL /\ lock' = lock
    BY <1>1, <1>4 DEF Store, Sleep, Goto, OnTime
  <2>2. WakesInTime(m, 2 * REFRESH_INTERVAL)'
    BY <2>1 DEF WakesInTime
  <2> QED
    BY <2>2
<1>5. ASSUME NEW m \in Nodes, Boot(m)
      PROVE  Warm'
  <2>1. cache' = cache /\ lock' = lock /\ pc[m] = "down"
    BY <1>5 DEF Boot
  <2>2. \A n \in Nodes \ {m} :
          pc'[n] = pc[n] /\ timer'[n] = timer[n] /\ (n \in landed' <=> n \in landed)
    BY <1>5 DEF Boot, Sleep, Goto
  <2>3. CASE cache > 0 \/ \E n \in Nodes : Listening(n)
    <3>1. PICK n \in Nodes : StaysWarm(n)
      BY <1>1, <2>3 DEF WarmInv
    <3>2. n # m
      BY <2>1, <3>1 DEF EndsInTime, WakesInTime, Computing
    <3> QED
      BY <2>1, <2>2, <3>1, <3>2 DEF EndsInTime, WakesInTime
  <2>4. CASE ~(cache > 0 \/ \E n \in Nodes : Listening(n))
    <3>1. pc'[m] = "prewarming"
      BY <1>5, <2>4 DEF Boot, Sleep, Goto
    <3> QED
      BY <2>1, <2>2, <2>4, <3>1 DEF Listening
  <2> QED
    BY <2>3, <2>4
<1>6. ASSUME NEW m \in Nodes, ClientRead(m)
      PROVE  Warm'
  <2>1. Warm
    BY <1>1, <1>6 DEF ClientRead, WarmInv
  <2> QED
    BY <1>6, <2>1 DEF ClientRead, nodeVars, EndsInTime, WakesInTime
<1>7. ASSUME NEW m \in Nodes, Cycle(m)
      PROVE  Warm'
  <2>1. PICK n \in Nodes : StaysWarm(n)
    BY <1>1, <1>7 DEF Cycle, WarmInv, Listening
  <2>2. cache' = cache /\ pc[m] = "sleeping" /\ timer[m] = 0
    BY <1>7 DEF Cycle
  <2>3. \A k \in Nodes \ {m} :
          pc'[k] = pc[k] /\ timer'[k] = timer[k] /\ (k \in landed' <=> k \in landed)
    BY <1>7 DEF Cycle, Sleep, Goto
  <2>4. CASE n \in landed \/ EndsInTime(n)
    <3>1. n # m
      BY <2>2, <2>4 DEF EndsInTime, Computing
    <3> QED
      BY <2>2, <2>3, <2>4, <3>1 DEF EndsInTime
  <2>5. ASSUME NEW due \in Nat, WakesInTime(n, due), lock = 0
        PROVE  Warm'
    <3>1. pc'[m] = "leading" /\ timer'[m] = 0 /\ m \notin landed'
      BY <1>7, <2>5 DEF Cycle, Goto
    <3>2. EndsInTime(m)'
      BY <2>2, <2>5, <3>1 DEF EndsInTime, WakesInTime
    <3> QED
      BY <3>2
  <2>6. ASSUME NEW due \in Nat, WakesInTime(n, due), lock > 0
        PROVE  Warm'
    <3>1. lock' = lock /\ pc'[m] = "sleeping" /\ timer'[m] = REFRESH_INTERVAL
      BY <1>7, <2>6 DEF Cycle, Sleep, Goto
    <3>2. n = m => due = REFRESH_INTERVAL
      BY <2>2, <2>6 DEF WakesInTime
    <3>3. WakesInTime(n, due)'
      BY <2>2, <2>3, <2>6, <3>1, <3>2 DEF WakesInTime
    <3> QED
      BY <3>3
  <2> QED
    BY <2>1, <2>4, <2>5, <2>6
<1>8. ASSUME NEW m \in Nodes, Compute(m)
      PROVE  Warm'
  <2>1. Warm
    BY <1>1, <1>8 DEF Compute, WarmInv, Listening
  <2> QED
    BY <1>8, <2>1 DEF Compute, EndsInTime, WakesInTime
<1>9. ASSUME NEW m \in Nodes, Land(m)
      PROVE  Warm'
  BY <1>9 DEF Land
<1> QED
  BY <1>2, <1>3, <1>4, <1>5, <1>6, <1>7, <1>8, <1>9, CalmSteps

LEMMA WarmMeansCached == TypeOK /\ OnTime /\ WarmInv => CacheStaysWarm
  BY RefresherAssumption
  DEF TypeOK, OnTime, WarmInv, Warm, StaysWarm, EndsInTime, WakesInTime, CacheStaysWarm, Computing

\* The cache is warm whenever a server listens, for as long as nothing fails.
\* The invariant behind it names the query that is certain to end in time.
THEOREM CacheStaysWarmTheorem == Spec => []CacheStaysWarm
<1> DEFINE Inv == TypeOK /\ OnTime /\ LockInv /\ OneLeader /\ WarmInv
<1>1. Init => Inv
  BY TypeInit DEF Init, OnTime, LockInv, OneLeader, WarmInv, Computing, Listening
<1>2. Inv /\ [Next]_vars => Inv'
  BY TypeStep, OnTimeStep, LockStep, WarmStep
<1>3. Inv => CacheStaysWarm
  BY WarmMeansCached
<1> HIDE DEF Inv
<1> QED
  BY <1>1, <1>2, <1>3, PTL DEF Spec

-----------------------------------------------------------------------------

\* The most that metrics wait between their computedAt and their SET.
Lag == IF Undisturbed THEN MaxQuery ELSE LongQuery

LEMMA PayloadLag == TypeOK /\ OnTime => \A n \in Nodes : payload[n] # NoData => payload[n] <= Lag
  BY RefresherAssumption DEF TypeOK, OnTime, Lag, Computing, NoData

LEMMA CacheAgeStep == TypeOK /\ OnTime /\ CacheAgeInv /\ [Next]_vars => CacheAgeInv'
<1> SUFFICES ASSUME TypeOK, OnTime, CacheAgeInv, [Next]_vars, Undisturbed', cache' > 0
             PROVE  age' + cache' <= CACHE_TTL + MaxQuery
  BY DEF CacheAgeInv
<1> USE RefresherAssumption DEF TypeOK, CacheAgeInv
<1>1. Undisturbed
  BY CalmBefore
<1>2. CASE Tick
  BY <1>1, <1>2 DEF Tick, Less, GrowOlder
<1>3. ASSUME NEW n \in Nodes, Land(n)
      PROVE  age' + cache' <= CACHE_TTL + MaxQuery
  BY <1>1, <1>3, PayloadLag DEF Land, Overwrite, Lag, NoData
<1>4. ASSUME NEW n \in Nodes, Boot(n) \/ Compute(n) \/ Store(n) \/ Cycle(n) \/ ClientRead(n)
      PROVE  age' + cache' <= CACHE_TTL + MaxQuery
  BY <1>1, <1>4 DEF Boot, Compute, Store, Cycle, ClientRead
<1>5. CASE UNCHANGED vars
  BY <1>1, <1>5 DEF vars
<1> QED
  BY <1>2, <1>3, <1>4, <1>5, CalmSteps

LEMMA AgeStep ==
    TypeOK /\ OnTime /\ CacheStaysWarm /\ CacheAgeInv /\ AgeInv /\ [Next]_vars => AgeInv'
<1> DEFINE Limit == CACHE_TTL + REFRESH_INTERVAL + MaxQuery
<1> SUFFICES ASSUME TypeOK, OnTime, CacheStaysWarm, CacheAgeInv, AgeInv, [Next]_vars, Undisturbed',
                    NEW n \in Nodes
             PROVE  /\ Listening(n)' => memory'[n] \in Nat
                    /\ pc'[n] = "sleeping" => memory'[n] + timer'[n] < Limit
                    /\ pc'[n] = "leading" => memory'[n] - timer'[n] < Limit
  BY DEF AgeInv
<1> USE RefresherAssumption DEF TypeOK, AgeInv, Listening
<1>1. Undisturbed
  BY CalmBefore
<1>2. CASE UNCHANGED vars
  BY <1>1, <1>2 DEF vars, nodeVars
<1>3. CASE Tick
  <2>1. pc' = pc /\ memory'[n] = Older(memory[n]) /\ timer'[n] = Elapse(n)
    BY <1>3 DEF Tick, GrowOlder
  <2>2. CASE pc[n] = "sleeping"
    BY <1>1, <2>1, <2>2 DEF Older, Elapse, NoData, MaxAge, Computing
  <2>3. CASE pc[n] = "leading"
    BY <1>1, <2>1, <2>3 DEF Older, Elapse, NoData, MaxAge, Computing, OnTime
  <2> QED
    BY <2>1, <2>2, <2>3
<1>4. ASSUME NEW m \in Nodes,
             Boot(m) \/ Compute(m) \/ Land(m) \/ Store(m) \/ Cycle(m) \/ ClientRead(m)
      PROVE  /\ Listening(n)' => memory'[n] \in Nat
             /\ pc'[n] = "sleeping" => memory'[n] + timer'[n] < Limit
             /\ pc'[n] = "leading" => memory'[n] - timer'[n] < Limit
  <2>0. cache > 0 => age \in Nat /\ age < CACHE_TTL + MaxQuery
    BY <1>1 DEF CacheAgeInv
  <2>1. CASE n # m \/ Compute(m) \/ Land(m)
    <3>1. pc'[n] = pc[n] /\ timer'[n] = timer[n] /\ memory'[n] = memory[n]
      BY <1>4, <2>1 DEF Boot, Compute, Land, Store, Cycle, ClientRead, Goto, Sleep, Remember,
                        nodeVars
    <3> QED
      BY <1>1, <3>1
  <2>2. CASE n = m /\ Boot(n)
    BY <2>0, <2>2 DEF Boot, Goto, Sleep, Remember
  <2>3. CASE n = m /\ Store(n)
    BY <1>1, <2>3, PayloadLag DEF Store, Goto, Sleep, Remember, Lag, NoData
  <2>4. CASE n = m /\ Cycle(n)
    <3>1. cache > 0
      BY <1>1, <2>4 DEF CacheStaysWarm, Cycle
    <3> QED
      BY <1>1, <2>0, <2>4, <3>1 DEF Cycle, Goto, Sleep, Remember
  <2>5. CASE n = m /\ ClientRead(n)
    BY <1>1, <2>0, <2>5 DEF ClientRead, Remember, nodeVars
  <2> QED
    BY <1>4, <2>1, <2>2, <2>3, <2>4, <2>5
<1> QED
  BY <1>2, <1>3, <1>4, CalmSteps

LEMMA OnTimeAlways == Spec => [](TypeOK /\ OnTime)
<1>1. Init => OnTime
  BY DEF Init, OnTime, Computing
<1> QED
  BY <1>1, TypeInit, TypeStep, OnTimeStep, PTL DEF Spec

\* What a node falls back on is never older than cached metrics can be, plus one
\* interval and the next query, for as long as nothing fails.
THEOREM FallbackIsRecentTheorem == Spec => []FallbackIsRecent
<1>1. Init => CacheAgeInv /\ AgeInv
  BY DEF Init, CacheAgeInv, AgeInv, Listening
<1>2. Spec => []AgeInv
  BY <1>1, OnTimeAlways, CacheAgeStep, AgeStep, CacheStaysWarmTheorem, PTL DEF Spec
<1>3. TypeOK /\ OnTime /\ AgeInv => FallbackIsRecent
  BY RefresherAssumption
  DEF TypeOK, OnTime, AgeInv, FallbackIsRecent, MaxAge, Listening, Computing
<1> QED
  BY <1>2, <1>3, OnTimeAlways, PTL

-----------------------------------------------------------------------------
(* What a node serves.  It is what its memory holds: every answer from Redis *)
(* is copied there first.  It can go back: the SET of a leader that has lost *)
(* its lock, or of one of two nodes that prewarm at once, overwrites metrics *)
(* that were computed after its own.                                         *)

\* The cached metrics were computed before those that a node remembers, or is
\* about to, by no more than a query and a SET can take.
CacheLagsLittle ==
    cache > 0 =>
        /\ \A n \in Nodes : memory[n] # NoData => age <= memory[n] + Lag
        /\ \A n \in landed : age <= payload[n] + Lag

\* A step that is not the clock's replaces what a node serves by metrics that
\* are older by no more than that.
GoesBackLittle ==
    \A n \in Nodes :
        memory[n] # NoData /\ memory'[n] # NoData =>
            memory'[n] <= memory[n] + IF Tick THEN 1 ELSE Lag

LEMMA LagStep ==
    TypeOK /\ OnTime /\ CacheLagsLittle /\ [Next]_vars => CacheLagsLittle' /\ GoesBackLittle
<1> DEFINE Back == \A n \in Nodes : memory[n] # NoData /\ memory'[n] # NoData
                                       => memory'[n] <= memory[n] + Lag
           Lags == \A n \in Nodes : memory[n] # NoData => age <= memory[n] + Lag
           Nears == \A n \in landed : age <= payload[n] + Lag
<1> SUFFICES ASSUME TypeOK, OnTime, CacheLagsLittle, [Next]_vars
             PROVE  CacheLagsLittle' /\ GoesBackLittle
  OBVIOUS
<1> USE DEF CacheLagsLittle, NoData
<1>1. Lag \in Nat \ {0} /\ Lag' \in Nat \ {0} /\ Lag <= Lag'
  BY RefresherAssumption, CalmBefore DEF Lag
<1>2. /\ cache \in Nat
      /\ cache > 0 => age \in Nat /\ age <= MaxAge
      /\ MaxAge \in Nat
      /\ \A n \in Nodes : memory[n] \in {NoData} \cup 0..MaxAge
      /\ landed \subseteq Nodes
      /\ \A n \in landed : payload[n] \in Nat /\ payload[n] < MaxAge
  BY RefresherAssumption DEF TypeOK, MaxAge, Computing
<1>3. cache' > 0 => age' \in Nat
  <2>1. TypeOK'
    BY TypeStep
  <2> QED
    BY <2>1, RefresherAssumption DEF TypeOK
<1>4. CASE Tick
  <2>1. /\ Lag' = Lag /\ landed' = landed /\ cache' = Less(cache)
        /\ age' = IF cache > 1 THEN age + 1 ELSE NoData
        /\ \A n \in Nodes : memory'[n] = Older(memory[n]) /\ payload'[n] = Older(payload[n])
    BY <1>4 DEF Tick, GrowOlder, Lag, Undisturbed
  <2>2. \A n \in Nodes : memory[n] # NoData => memory'[n] \in {memory[n], memory[n] + 1}
    BY <2>1 DEF Older
  <2>3. cache' > 0 => cache > 1 /\ age' = age + 1 /\ Lags /\ Nears
    BY <1>2, <2>1 DEF Less
  <2>4. ASSUME cache' > 0, NEW n \in Nodes, memory'[n] # NoData
        PROVE  age' <= memory'[n] + Lag'
    <3>1. memory'[n] = Older(memory[n]) /\ memory[n] \in {NoData} \cup 0..MaxAge
      BY <1>2, <2>1
    <3>2. age' = age + 1 /\ (memory[n] # NoData => age <= memory[n] + Lag) /\ age <= MaxAge
      BY <1>2, <2>3, <2>4
    <3> QED
      BY <1>1, <1>2, <2>1, <2>3, <2>4, <3>1, <3>2 DEF Older
  <2>5. ASSUME cache' > 0, NEW n \in landed'
        PROVE  age' <= payload'[n] + Lag'
    <3>1. n \in Nodes /\ payload[n] \in Nat /\ payload[n] < MaxAge /\ payload'[n] = Older(payload[n])
      BY <1>2, <2>1
    <3>2. payload'[n] = payload[n] + 1
      BY <1>2, <3>1 DEF Older
    <3>3. age' = age + 1 /\ age <= payload[n] + Lag
      BY <2>1, <2>3, <2>5
    <3> QED
      BY <1>1, <1>2, <2>1, <2>3, <2>5, <3>1, <3>2, <3>3
  <2>6. \A n \in Nodes : memory[n] # NoData => memory'[n] <= memory[n] + 1
    BY <1>2, <2>2
  <2>7. GoesBackLittle
    BY <1>4, <2>6 DEF GoesBackLittle
  <2> QED
    BY <2>4, <2>5, <2>7
<1>5. ASSUME Back, ~Tick
      PROVE  GoesBackLittle
  BY <1>5 DEF GoesBackLittle
<1>6. ASSUME NEW m \in Nodes, ~Tick,
             \/ Boot(m) \/ BootFails(m) \/ Compute(m) \/ Cycle(m) \/ CycleFails(m)
             \/ ClientRead(m) \/ Overrun(m)
      PROVE  CacheLagsLittle' /\ Back
  <2>1. UNCHANGED <<cache, age>> /\ landed' \subseteq landed
    BY <1>6 DEF Boot, BootFails, Compute, Cycle, CycleFails, ClientRead, Overrun, Goto, Sleep,
                nodeVars
  <2>2. \A n \in Nodes : memory'[n] = memory[n] \/ (cache > 0 /\ memory'[n] = age)
    BY <1>6 DEF Boot, BootFails, Compute, Cycle, CycleFails, ClientRead, Overrun, Remember,
                nodeVars, TypeOK
  <2>3. \A n \in landed' : payload'[n] = payload[n]
    BY <1>6 DEF Boot, BootFails, Compute, Cycle, CycleFails, ClientRead, Overrun, Goto, Sleep,
                nodeVars, Computing, TypeOK
  <2>4. Back
    BY <1>1, <1>2, <2>2
  <2>5. ASSUME cache' > 0, NEW n \in Nodes, memory'[n] # NoData
        PROVE  age' <= memory'[n] + Lag'
    BY <1>1, <1>2, <2>1, <2>2, <2>5
  <2>6. ASSUME cache' > 0, NEW n \in landed'
        PROVE  age' <= payload'[n] + Lag'
    BY <1>1, <1>2, <2>1, <2>3, <2>6
  <2> QED
    BY <2>4, <2>5, <2>6
<1>7. ASSUME NEW m \in Nodes, Land(m) \/ StoreFails(m) \/ Crash(m)
      PROVE  CacheLagsLittle' /\ Back
  <2>1. \A n \in Nodes : memory'[n] \in {memory[n], NoData}
    BY <1>7 DEF Land, StoreFails, Crash, Remember, TypeOK
  <2>2. \A n \in landed' : n \in Nodes /\ payload'[n] = payload[n] /\ payload[n] \in Nat
    BY <1>7 DEF Land, Overwrite, StoreFails, Crash, Goto, Sleep, TypeOK
  <2>3. Back
    BY <1>1, <1>2, <2>1
  <2>4. CASE UNCHANGED <<cache, age>> /\ ~Land(m)
    <3>1. landed' \subseteq landed
      BY <1>7, <2>4 DEF StoreFails, Crash, Goto, Sleep
    <3>2. ASSUME cache' > 0, NEW n \in Nodes, memory'[n] # NoData
          PROVE  age' <= memory'[n] + Lag'
      BY <1>1, <1>2, <2>1, <2>4, <3>2
    <3>3. ASSUME cache' > 0, NEW n \in landed'
          PROVE  age' <= payload'[n] + Lag'
      BY <1>1, <1>2, <2>2, <2>4, <3>1, <3>3
    <3> QED
      BY <2>3, <3>2, <3>3
  <2>5. CASE Overwrite(m)
    <3>1. age' \in Nat /\ age' <= Lag
      BY <2>5, PayloadLag DEF Overwrite, TypeOK
    <3>2. ASSUME cache' > 0, NEW n \in Nodes, memory'[n] # NoData
          PROVE  age' <= memory'[n] + Lag'
      BY <1>1, <1>2, <2>1, <3>1, <3>2
    <3>3. ASSUME cache' > 0, NEW n \in landed'
          PROVE  age' <= payload'[n] + Lag'
      BY <1>1, <2>2, <3>1, <3>3
    <3> QED
      BY <2>3, <3>2, <3>3
  <2> QED
    BY <1>7, <2>4, <2>5 DEF Land, StoreFails, Crash
<1>8. ASSUME NEW m \in Nodes, Store(m)
      PROVE  CacheLagsLittle' /\ Back
  <2>1. /\ UNCHANGED <<cache, age>> /\ Lag' = Lag /\ m \in landed
        /\ landed' \subseteq landed \ {m}
        /\ \A n \in Nodes \ {m} : payload'[n] = payload[n] /\ memory'[n] = memory[n]
        /\ memory'[m] = payload[m]
    BY <1>8 DEF Store, Goto, Sleep, Remember, Lag, Undisturbed, TypeOK
  <2>2. payload[m] \in Nat /\ payload[m] <= Lag
    BY <1>2, <2>1, PayloadLag
  <2>3. Back
    BY <1>1, <1>2, <2>1, <2>2
  <2>4. ASSUME cache' > 0, NEW n \in Nodes, memory'[n] # NoData
        PROVE  age' <= memory'[n] + Lag'
    BY <1>1, <1>2, <2>1, <2>4
  <2>5. ASSUME cache' > 0, NEW n \in landed'
        PROVE  age' <= payload'[n] + Lag'
    BY <1>1, <1>2, <2>1, <2>5
  <2> QED
    BY <2>3, <2>4, <2>5
<1>9. CASE UNCHANGED vars
  <2>1. UNCHANGED <<cache, age, memory, payload, landed>> /\ Lag' = Lag
    BY <1>9 DEF vars, nodeVars, Lag, Undisturbed
  <2>2. CacheLagsLittle'
    BY <2>1
  <2>3. CASE Tick
    BY <1>4, <2>3
  <2>4. CASE ~Tick
    BY <1>1, <1>2, <1>5, <2>1, <2>2, <2>4
  <2> QED
    BY <2>3, <2>4
<1> HIDE DEF Back, Lags, Nears
<1>10. CASE Tick \/ UNCHANGED vars
  BY <1>4, <1>9, <1>10
<1>11. ASSUME NEW m \in Nodes, ~Tick,
              \/ Boot(m) \/ BootFails(m) \/ Compute(m) \/ Cycle(m) \/ CycleFails(m)
              \/ ClientRead(m) \/ Overrun(m) \/ Land(m) \/ StoreFails(m) \/ Crash(m) \/ Store(m)
       PROVE  CacheLagsLittle' /\ GoesBackLittle
  BY <1>5, <1>6, <1>7, <1>8, <1>11
<1> QED
  BY <1>10, <1>11 DEF Next

\* Whoever computes, and whatever fails, the metrics that a client sees on one
\* node go back by no more than a query and a SET take: MaxQuery as long as
\* nothing has failed, and otherwise as long as the slowest leader was late.
THEOREM MetricsGoBackLittle == Spec => []CacheLagsLittle /\ [][GoesBackLittle]_vars
<1>1. Init => CacheLagsLittle
  BY DEF Init, CacheLagsLittle
<1>2. TypeOK /\ OnTime /\ CacheLagsLittle /\ [Next]_vars => CacheLagsLittle' /\ [GoesBackLittle]_vars
  BY LagStep
<1> QED
  BY <1>1, <1>2, OnTimeAlways, PTL DEF Spec

-----------------------------------------------------------------------------
(* After failures.  MetricsRecover itself is liveness, but how long it takes *)
(* is not: once nothing fails any more, time cannot pass a deadline that the *)
(* state names, unless the metrics have been stored by then.                 *)

\* Unless something fails, the SET of node n takes effect before d ticks are
\* over: that of the query under way, or that of the next one, when the node
\* wakes up, at the latest for the third time, and finds the lock free.  A query
\* that overruns, or a SET whose answer does, only delays the sleep.
LandsBy(n, d) ==
    /\ Computing(n) /\ n \notin slow \cup landed
    /\ MaxQuery <= timer[n] + d

WakesBy(n, d) ==
    /\ pc[n] = "sleeping"
    /\ \E due \in {timer[n], timer[n] + REFRESH_INTERVAL, timer[n] + 2 * REFRESH_INTERVAL} :
          lock <= due /\ due + MaxQuery <= d

Rest(n) == IF n \in slow THEN LongQuery - timer[n] ELSE 0

RepliesBy(n, d) ==
    /\ Computing(n) /\ n \in slow \cup landed
    /\ \E due \in {REFRESH_INTERVAL, 2 * REFRESH_INTERVAL} :
          lock <= due /\ Rest(n) + due + MaxQuery <= d

StoresBy(n, d) == LandsBy(n, d) \/ WakesBy(n, d) \/ RepliesBy(n, d)

StoredWithin(d) == \E n \in Nodes : StoresBy(n, d)

\* The cached metrics live until the next ones are stored.
SafelyWarm == \E d \in Nat : d < cache /\ StoredWithin(d)

\* How long it takes at most, from the moment one node is up.
RecoveryTime == LongQuery + LOCK_TTL + REFRESH_INTERVAL + MaxQuery

DeadlineExists == (\E n \in Nodes : pc[n] # "down") => StoredWithin(RecoveryTime)

\* A step that is no failure keeps to every deadline, or has stored metrics that
\* live until the next ones; and what lives so long once lives so long ever after.
KeepsDeadlines ==
    /\ SafelyWarm => SafelyWarm'
    /\ \A d \in Nat :
          StoredWithin(d) =>
              IF Tick THEN d > 0 /\ StoredWithin(d - 1)' ELSE SafelyWarm' \/ StoredWithin(d)'

RecoversInTime == left' = left => KeepsDeadlines

\* A lock is free after two intervals: the node that is up gets it, or somebody
\* else had it and stores.
LEMMA DeadlineHolds == TypeOK => DeadlineExists
<1> SUFFICES ASSUME TypeOK, NEW n \in Nodes, pc[n] # "down"
             PROVE  StoresBy(n, RecoveryTime)
  BY DEF DeadlineExists, StoredWithin
<1> USE RefresherAssumption DEF TypeOK, RecoveryTime
<1>1. CASE Computing(n) /\ n \notin slow \cup landed
  BY <1>1 DEF StoresBy, LandsBy
<1>2. CASE Computing(n) /\ n \in slow \cup landed
  <2>1. Rest(n) \in 0..LongQuery
    BY <1>2 DEF Rest, Computing
  <2>2. CASE lock <= REFRESH_INTERVAL
    BY <1>2, <2>1, <2>2 DEF StoresBy, RepliesBy
  <2>3. CASE lock > REFRESH_INTERVAL
    BY <1>2, <2>1, <2>3 DEF StoresBy, RepliesBy
  <2> QED  BY <2>2, <2>3
<1>3. CASE pc[n] = "sleeping"
  <2>1. /\ timer[n] \in 0..REFRESH_INTERVAL
        /\ lock \in 0..LOCK_TTL /\ lock <= 2 * REFRESH_INTERVAL
    BY <1>3
  <2>2. PICK due \in {timer[n], timer[n] + REFRESH_INTERVAL, timer[n] + 2 * REFRESH_INTERVAL} :
           lock <= due /\ due <= LOCK_TTL + REFRESH_INTERVAL
    <3>1. CASE lock <= timer[n]
      BY <2>1, <3>1
    <3>2. CASE lock > timer[n] /\ lock <= timer[n] + REFRESH_INTERVAL
      BY <2>1, <3>2
    <3>3. CASE lock > timer[n] + REFRESH_INTERVAL
      BY <2>1, <3>3
    <3> QED  BY <2>1, <3>1, <3>2, <3>3
  <2>3. due + MaxQuery <= RecoveryTime
    BY <2>1, <2>2
  <2> QED  BY <1>3, <2>2, <2>3 DEF StoresBy, WakesBy
<1> QED  BY <1>1, <1>2, <1>3 DEF Computing

\* Time passes: the deadline comes one tick nearer, and is never passed by.
LEMMA TickKeepsDeadlines ==
  ASSUME TypeOK, Tick, NEW d \in Nat, StoredWithin(d)
  PROVE  d > 0 /\ StoredWithin(d - 1)'
<1> USE RefresherAssumption DEF TypeOK
<1> PICK n \in Nodes : StoresBy(n, d)
  BY DEF StoredWithin
<1> SUFFICES d > 0 /\ StoresBy(n, d - 1)'
  BY DEF StoredWithin
<1>1. UNCHANGED <<pc, slow, landed>> /\ lock' = Less(lock) /\ Waits(n) /\ timer'[n] = Elapse(n)
  BY DEF Tick
<1>2. CASE LandsBy(n, d)
  <2>1. timer[n] < MaxQuery /\ timer'[n] = timer[n] + 1
    BY <1>1, <1>2 DEF LandsBy, Waits, Elapse, Computing
  <2>2. d > 0 /\ LandsBy(n, d - 1)'
    BY <1>1, <1>2, <2>1 DEF LandsBy, Computing
  <2> QED  BY <2>2 DEF StoresBy
<1>3. CASE WakesBy(n, d)
  <2>1. timer[n] > 0 /\ timer'[n] = timer[n] - 1 /\ pc'[n] = "sleeping" /\ pc[n] = "sleeping"
    BY <1>1, <1>3 DEF WakesBy, Waits, Elapse, Computing
  <2>2. PICK due \in {timer[n], timer[n] + REFRESH_INTERVAL, timer[n] + 2 * REFRESH_INTERVAL} :
           lock <= due /\ due + MaxQuery <= d
    BY <1>3 DEF WakesBy
  <2>3. /\ due - 1 \in {timer'[n], timer'[n] + REFRESH_INTERVAL, timer'[n] + 2 * REFRESH_INTERVAL}
        /\ lock' <= due - 1 /\ (due - 1) + MaxQuery <= d - 1 /\ d > 0
    BY <1>1, <2>1, <2>2 DEF Less
  <2>4. WakesBy(n, d - 1)'
    BY <2>1, <2>3 DEF WakesBy
  <2> QED  BY <2>3, <2>4 DEF StoresBy
<1>4. CASE RepliesBy(n, d)
  <2>1. n \in slow /\ timer[n] < LongQuery /\ timer'[n] = timer[n] + 1
    BY <1>1, <1>4 DEF RepliesBy, Waits, Elapse, Computing
  <2>2. PICK due \in {REFRESH_INTERVAL, 2 * REFRESH_INTERVAL} :
           lock <= due /\ Rest(n) + due + MaxQuery <= d
    BY <1>4 DEF RepliesBy
  <2>3. Rest(n) \in Nat /\ Rest(n)' = Rest(n) - 1
    BY <1>1, <2>1 DEF Rest
  <2>4. lock' <= due /\ Rest(n)' + due + MaxQuery <= d - 1 /\ d > 0
    BY <1>1, <2>2, <2>3 DEF Less
  <2>5. RepliesBy(n, d - 1)'
    BY <1>1, <1>4, <2>4 DEF RepliesBy, Computing
  <2> QED  BY <2>4, <2>5 DEF StoresBy
<1> QED  BY <1>2, <1>3, <1>4 DEF StoresBy

\* What is stored in time lives until the next metrics are.
LEMMA LandingIsSafe ==
  ASSUME TypeOK, NEW m \in Nodes, Land(m), m \notin slow
  PROVE  SafelyWarm'
<1> USE RefresherAssumption DEF TypeOK
<1>1. /\ pc' = pc /\ slow' = slow /\ lock' = lock /\ Computing(m)
      /\ m \in landed' /\ cache' = CACHE_TTL
  BY DEF Land, Overwrite
<1>2. RepliesBy(m, 2 * REFRESH_INTERVAL + MaxQuery)'
  BY <1>1 DEF RepliesBy, Rest, Computing
<1> QED  BY <1>1, <1>2 DEF SafelyWarm, StoredWithin, StoresBy

\* The other steps that are no failures.  Whoever takes the lock before the node
\* that was to take it computes at once, and a node that has its answer at last
\* sleeps.
LEMMA OthersKeepDeadlines ==
  ASSUME TypeOK, NEW m \in Nodes,
         Boot(m) \/ Compute(m) \/ (Land(m) /\ m \in slow) \/ Store(m) \/ Cycle(m) \/ ClientRead(m),
         NEW d \in Nat, StoredWithin(d)
  PROVE  StoredWithin(d)' /\ cache' >= cache
<1> USE RefresherAssumption DEF TypeOK
<1> PICK n \in Nodes : StoresBy(n, d)
  BY DEF StoredWithin
<1>1. cache' \in Nat /\ cache' >= cache
  BY DEF Boot, Compute, Land, Overwrite, Store, Cycle, ClientRead
<1> SUFFICES StoresBy(n, d)' \/ StoresBy(m, d)'
  BY <1>1 DEF StoredWithin
<1>2. ASSUME lock' = lock, pc'[n] = pc[n], timer'[n] = timer[n],
             n \in slow' <=> n \in slow, n \in landed => n \in landed',
             n \in landed' => n \in landed \/ n \in slow
      PROVE  StoresBy(n, d)'
  <2>1. Rest(n)' = Rest(n)
    BY <1>2 DEF Rest
  <2> QED  BY <1>2, <2>1 DEF StoresBy, LandsBy, WakesBy, RepliesBy, Computing
<1>3. CASE ClientRead(m) \/ Compute(m) \/ (Land(m) /\ m \in slow)
  BY <1>2, <1>3 DEF ClientRead, Compute, Land, nodeVars
<1>4. CASE Boot(m)
  <2>1. n # m
    BY <1>4 DEF Boot, StoresBy, LandsBy, WakesBy, RepliesBy, Computing
  <2> QED  BY <1>2, <1>4, <2>1 DEF Boot, Sleep, Goto
<1>5. CASE Store(m)
  <2>1. CASE n # m
    BY <1>2, <1>5, <2>1 DEF Store, Sleep, Goto
  <2>2. CASE n = m
    <3>1. /\ lock' = lock /\ pc'[m] = "sleeping" /\ timer'[m] = REFRESH_INTERVAL
          /\ m \in landed /\ Computing(m)
      BY <1>5 DEF Store, Sleep, Goto
    <3>2. PICK due \in {REFRESH_INTERVAL, 2 * REFRESH_INTERVAL} :
             lock <= due /\ Rest(m) + due + MaxQuery <= d
      BY <2>2, <3>1 DEF StoresBy, LandsBy, WakesBy, RepliesBy, Computing
    <3>3. Rest(m) \in Nat
      BY <3>1 DEF Rest, Computing
    <3>4. due \in {timer'[m], timer'[m] + REFRESH_INTERVAL} /\ due + MaxQuery <= d
      BY <3>1, <3>2, <3>3
    <3>5. WakesBy(m, d)'
      BY <3>1, <3>2, <3>4 DEF WakesBy
    <3> QED  BY <3>5 DEF StoresBy
  <2> QED  BY <2>1, <2>2
<1>6. CASE Cycle(m)
  <2>1. pc[m] = "sleeping" /\ timer[m] = 0
    BY <1>6 DEF Cycle
  <2>2. CASE lock = 0
    <3>1. pc'[m] = "leading" /\ timer'[m] = 0 /\ m \notin slow' \cup landed'
      BY <1>6, <2>2 DEF Cycle, Goto
    <3>2. CASE n = m \/ ~LandsBy(n, d)
      <4>1. MaxQuery <= d
        <5>1. Rest(n) >= 0 \/ ~Computing(n)
          BY DEF Rest, Computing
        <5>2. ~LandsBy(n, d)
          BY <2>1, <3>2 DEF LandsBy, Computing
        <5> QED  BY <5>1, <5>2 DEF StoresBy, WakesBy, RepliesBy, Rest
      <4>2. LandsBy(m, d)'
        BY <3>1, <4>1 DEF LandsBy, Computing
      <4> QED  BY <4>2 DEF StoresBy
    <3>3. CASE n # m /\ LandsBy(n, d)
      <4>1. /\ pc'[n] = pc[n] /\ timer'[n] = timer[n]
            /\ slow' = slow \ {m} /\ landed' = landed \ {m}
        BY <1>6, <2>2, <3>3 DEF Cycle, Goto
      <4>2. LandsBy(n, d)'
        BY <3>3, <4>1 DEF LandsBy, Computing
      <4> QED  BY <4>2 DEF StoresBy
    <3> QED  BY <3>2, <3>3
  <2>3. CASE lock > 0
    <3>1. lock' = lock /\ pc'[m] = "sleeping" /\ timer'[m] = REFRESH_INTERVAL
      BY <1>6, <2>3 DEF Cycle, Sleep, Goto
    <3>2. CASE n # m
      BY <1>2, <1>6, <2>3, <3>2 DEF Cycle, Sleep, Goto
    <3>3. CASE n = m
      <4>1. PICK due \in {timer[m], timer[m] + REFRESH_INTERVAL, timer[m] + 2 * REFRESH_INTERVAL} :
               lock <= due /\ due + MaxQuery <= d
        BY <2>1, <3>3 DEF StoresBy, LandsBy, WakesBy, RepliesBy, Computing
      <4>2. due \in {timer'[m], timer'[m] + REFRESH_INTERVAL}
        BY <2>1, <2>3, <3>1, <4>1
      <4>3. WakesBy(m, d)'
        BY <3>1, <4>1, <4>2 DEF WakesBy
      <4> QED  BY <4>3 DEF StoresBy
    <3> QED  BY <3>2, <3>3
  <2> QED  BY <2>2, <2>3
<1> QED  BY <1>3, <1>4, <1>5, <1>6

LEMMA RecoveryStep ==
  ASSUME TypeOK, [Next]_vars, ~UNCHANGED vars
  PROVE  RecoversInTime
<1> SUFFICES ASSUME left' = left
             PROVE  KeepsDeadlines
  BY DEF RecoversInTime
<1>1. \A n \in Nodes :
        ~(BootFails(n) \/ StoreFails(n) \/ CycleFails(n) \/ Overrun(n) \/ Crash(n))
  BY DEF TypeOK, BootFails, StoreFails, CycleFails, Overrun, Crash, Spend
<1>2. CASE Tick
  <2>1. \A d \in Nat : StoredWithin(d) => d > 0 /\ StoredWithin(d - 1)'
    BY <1>2, TickKeepsDeadlines
  <2>2. ASSUME NEW d \in Nat, d < cache, StoredWithin(d)
        PROVE  SafelyWarm'
    <3>1. d > 0 /\ StoredWithin(d - 1)'
      BY <2>1, <2>2
    <3>2. d - 1 \in Nat /\ d - 1 < cache'
      BY <1>2, <2>2, <3>1 DEF Tick, Less, TypeOK
    <3> QED  BY <3>1, <3>2 DEF SafelyWarm
  <2> QED  BY <1>2, <2>1, <2>2 DEF KeepsDeadlines, SafelyWarm
<1>3. ASSUME NEW m \in Nodes, Land(m), m \notin slow, ~Tick
      PROVE  KeepsDeadlines
  BY <1>3, LandingIsSafe DEF KeepsDeadlines
<1>4. ASSUME NEW m \in Nodes, ~Tick,
             Boot(m) \/ Compute(m) \/ (Land(m) /\ m \in slow) \/ Store(m) \/ Cycle(m) \/ ClientRead(m)
      PROVE  KeepsDeadlines
  <2>1. \A d \in Nat : StoredWithin(d) => StoredWithin(d)' /\ cache' >= cache
    BY <1>4, OthersKeepDeadlines
  <2>2. ASSUME NEW d \in Nat, d < cache, StoredWithin(d)
        PROVE  SafelyWarm'
    <3>1. cache' \in Nat /\ cache' >= cache /\ cache \in Nat
      BY <2>1, <2>2, TypeStep DEF TypeOK
    <3> QED  BY <2>1, <2>2, <3>1 DEF SafelyWarm
  <2> QED  BY <1>4, <2>1, <2>2 DEF KeepsDeadlines, SafelyWarm
<1> QED  BY <1>1, <1>2, <1>3, <1>4 DEF Next

\* MetricsRecover with a number: when the last failure is over and one node is
\* up, metrics that live until the next ones are stored within the longest query,
\* a lock, an interval and a query in time; from then on the cache is warm.
THEOREM MetricsRecoverInTime == Spec => []DeadlineExists /\ [][RecoversInTime]_vars
<1>1. TypeOK /\ [Next]_vars /\ ~UNCHANGED vars => RecoversInTime
  BY RecoveryStep
<1>2. TypeOK /\ [Next]_vars => [RecoversInTime]_vars
  BY <1>1
<1> QED
  BY <1>2, RefresherTypeCorrect, DeadlineHolds, PTL DEF Spec

=============================================================================
