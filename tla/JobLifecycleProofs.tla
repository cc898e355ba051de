------------------------- MODULE JobLifecycleProofs -------------------------
(***************************************************************************)
(* JobSystem implements JobLifecycle: what a client can read of a job that *)
(* no failure disturbed is the life cycle of that module, for every number *)
(* of jobs, nodes, slots, attempts and failures.                           *)
(***************************************************************************)
EXTENDS JobSystemProofs

-----------------------------------------------------------------------------
(* The inductive invariant.                                                *)

\* The jobs of which the life cycle promises nothing.
Disturbed == abandoned \cup ambiguous

\* What the row of a job reads, unless it was deleted, while a slot is at `at'.
RowOf(at) ==
    IF at = "acking" THEN "completed" ELSE IF at = "aborting" THEN "failed" ELSE "in-progress"

\* A job never stalled, is run by the slot that holds its lock, and has the row
\* that goes with where the queue and that slot are.
Orderly(j) ==
    /\ stalls[j] = 0
    /\ qstate[j] = "active" => owner[j] \in Slots /\ Running(owner[j], j)
    /\ qstate[j] \in {"none", "waiting", "delayed"} => status[j] \in {"absent", "in-progress"}
    /\ qstate[j] = "completed" => status[j] \in {"absent", "completed"}
    /\ qstate[j] = "failed" => status[j] # "completed"
    /\ \A s \in Slots : Running(s, j) => status[j] \in {"absent", RowOf(pc[s])}

OrderlyInv == \A j \in Jobs \ Disturbed : Orderly(j)

LifecycleInv == TypeOK /\ RunsAreExclusive /\ AgreeInv /\ OrderlyInv

-----------------------------------------------------------------------------
(* What a step does to one job.                                            *)

\* Nothing that the life cycle or OrderlyInv looks at changes for job j.
Untouched(j) ==
    /\ qstate'[j] = qstate[j] /\ stalls'[j] = stalls[j] /\ owner'[j] = owner[j]
    /\ status'[j] = status[j]
    /\ \A s \in Slots : Running(s, j)' <=> Running(s, j)
    /\ \A s \in Slots : Running(s, j) => pc'[s] = pc[s]

\* The three things that may happen to an undisturbed job.
Stays(j) ==
    /\ status'[j] = status[j]
    /\ Ended(j)' <=> Ended(j)

Starts(j) ==
    /\ status[j] = "absent" /\ status'[j] = "in-progress"
    /\ ~Ended(j) /\ ~Ended(j)'

Settles(j) ==
    /\ ~Ended(j) /\ Ended(j)'
    /\ \/ status[j] = "absent" /\ status'[j] = "absent"
       \/ status[j] = "in-progress" /\ status'[j] \in {"completed", "failed"}

\* A step changes job j at most, and job j in an orderly way.
Moves(j) ==
    /\ UNCHANGED Disturbed
    /\ \A k \in Jobs \ {j} : Untouched(k)
    /\ j \notin Disturbed => Orderly(j)' /\ (Stays(j) \/ Starts(j) \/ Settles(j))

\* A step changes no job but those it disturbs.
Disturbs ==
    /\ Disturbed \subseteq Disturbed'
    /\ Disturbed' \subseteq Jobs
    /\ \A k \in Jobs \ Disturbed' : Untouched(k)

\* A step removes rows and does nothing else.
Removes ==
    /\ UNCHANGED Disturbed
    /\ UNCHANGED <<queueVars, slotVars>>
    /\ \A k \in Jobs : status'[k] = status[k] \/ status'[k] = "absent"

LEMMA UntouchedJobStays ==
  ASSUME NEW j \in Jobs, Untouched(j)
  PROVE  /\ Orderly(j) => Orderly(j)'
         /\ Stays(j)
<1>1. Orderly(j) => Orderly(j)'
  BY DEF Untouched, Orderly, RowOf, Running
<1>2. Stays(j)
  BY DEF Untouched, Stays, Ended, Running
<1> QED  BY <1>1, <1>2

LEMMA RemovedJobIsOrderly ==
  ASSUME TypeOK, NEW j \in Jobs \ Disturbed, Orderly(j), Removes
  PROVE  /\ Orderly(j)'
         /\ Ended(j) => Ended(j)'
         /\ status'[j] = status[j] => Stays(j)
<1>1. Orderly(j)'
  BY DEF Removes, Orderly, RowOf, Running, queueVars, slotVars
<1>2. status'[j] = status[j] => Stays(j)
  BY DEF Removes, Stays, Ended, Running, queueVars, slotVars
<1>3. ASSUME Ended(j)  PROVE Ended(j)'
  <2>1. CASE status'[j] = status[j]
    BY <1>2, <1>3, <2>1 DEF Stays
  <2>2. CASE status'[j] = "absent" /\ status[j] \in {"completed", "failed"}
    <3>1. \/ qstate[j] \in {"completed", "failed"}
          \/ qstate[j] = "active"
      BY <2>2 DEF Orderly, TypeOK, QueueTypeOK, QueueState
    <3>2. CASE qstate[j] = "active"
      <4>1. owner[j] \in Slots /\ Running(owner[j], j) /\ pc[owner[j]] \in {"acking", "aborting"}
        BY <2>2, <3>2 DEF Orderly, RowOf
      <4> QED  BY <4>1 DEF Ended, Removes, Running, slotVars
    <3>3. CASE qstate[j] \in {"completed", "failed"}
      BY <2>2, <3>3 DEF Ended, Removes, queueVars
    <3> QED  BY <3>1, <3>2, <3>3
  <2>3. CASE status'[j] = "absent" /\ status[j] \notin {"completed", "failed"}
    BY <1>3, <2>3 DEF Ended, Removes, Running, queueVars, slotVars
  <2> QED  BY <2>1, <2>2, <2>3 DEF Removes
<1> QED  BY <1>1, <1>2, <1>3

-----------------------------------------------------------------------------
(* What such a step is in the life cycle.                                  *)

LEMMA DisturbsIsDisturb ==
  ASSUME StoreTypeOK', Disturbs
  PROVE  Lifecycle!Next
<1> DEFINE ids == Disturbed'
<1>1. ids \in SUBSET Jobs /\ Disturbed' = Disturbed \cup ids
  BY DEF Disturbs
<1>2. \A k \in Jobs \ Disturbed' : status'[k] = status[k] /\ (Ended(k)' <=> Ended(k))
  BY UntouchedJobStays DEF Disturbs, Stays
<1>3. {k \in Jobs \ Disturbed' : Ended(k)'} = {k \in Jobs \ Disturbed : Ended(k)} \ Disturbed'
  BY <1>2 DEF Disturbs
<1>4. DOMAIN status' = Jobs
  BY DEF StoreTypeOK
<1>5. Lifecycle!Disturb(ids)
  BY <1>1, <1>2, <1>3, <1>4 DEF Lifecycle!Disturb, Disturbed
<1> QED  BY <1>1, <1>5 DEF Lifecycle!Next

LEMMA RemovesIsRemove ==
  ASSUME TypeOK, StoreTypeOK', OrderlyInv, Removes
  PROVE  Lifecycle!Next
<1> DEFINE ids  == {k \in Jobs : status'[k] # status[k]}
           also == {k \in ids \ Disturbed : Ended(k)'}
<1>1. status' = [k \in Jobs |-> IF k \in ids THEN "absent" ELSE status[k]]
  BY DEF Removes, StoreTypeOK, TypeOK
<1>2. \A k \in Jobs \ Disturbed :
         /\ Ended(k) => Ended(k)'
         /\ k \notin ids => (Ended(k)' <=> Ended(k))
  BY RemovedJobIsOrderly DEF OrderlyInv, Stays
<1>3. {k \in Jobs \ Disturbed' : Ended(k)'} = {k \in Jobs \ Disturbed : Ended(k)} \cup also
  <2>1. \A k \in Jobs \ Disturbed : Ended(k)' <=> Ended(k) \/ k \in also
    BY <1>2
  <2>2. also \subseteq Jobs \ Disturbed /\ UNCHANGED Disturbed
    BY DEF Removes
  <2> HIDE DEF also
  <2> QED  BY <2>1, <2>2
<1>4. also \in SUBSET (ids \ Disturbed) /\ ids \in SUBSET Jobs
  OBVIOUS
<1>5. Lifecycle!Remove(ids)
  <2>1. {k \in Jobs \ Disturbed' : Ended(k)'}
           \in {{k \in Jobs \ Disturbed : Ended(k)} \cup more : more \in SUBSET (ids \ Disturbed)}
    <3> HIDE DEF also
    <3> QED  BY <1>3, <1>4
  <2>2. UNCHANGED Disturbed
    BY DEF Removes
  <2> HIDE DEF ids
  <2> QED  BY <1>1, <2>1, <2>2 DEF Lifecycle!Remove, Disturbed
<1> QED  BY <1>4, <1>5 DEF Lifecycle!Next

LEMMA MovesIsStep ==
  ASSUME TypeOK, StoreTypeOK', NEW j \in Jobs, Moves(j)
  PROVE  Lifecycle!Next
<1>1. \A k \in Jobs \ {j} : status'[k] = status[k] /\ (Ended(k)' <=> Ended(k))
  BY UntouchedJobStays DEF Moves, Stays
<1>2. DOMAIN status' = Jobs /\ DOMAIN status = Jobs /\ Disturbed \subseteq Jobs
  BY DEF StoreTypeOK, TypeOK, QueueTypeOK, WorkerTypeOK, Disturbed
<1>3. CASE j \in Disturbed
  <2>1. \A k \in Jobs \ Disturbed' : status'[k] = status[k] /\ (Ended(k)' <=> Ended(k))
    BY <1>1, <1>3 DEF Moves
  <2>2. {k \in Jobs \ Disturbed' : Ended(k)'} = {k \in Jobs \ Disturbed : Ended(k)} \ Disturbed'
    BY <2>1 DEF Moves
  <2>3. Lifecycle!Disturb({})
    BY <1>2, <2>1, <2>2 DEF Lifecycle!Disturb, Moves, Disturbed
  <2> QED  BY <2>3 DEF Lifecycle!Next
<1>4. CASE j \notin Disturbed /\ Stays(j)
  <2>1. \A k \in Jobs \ Disturbed' : status'[k] = status[k] /\ (Ended(k)' <=> Ended(k))
    BY <1>1, <1>4 DEF Moves, Stays
  <2>2. {k \in Jobs \ Disturbed' : Ended(k)'} = {k \in Jobs \ Disturbed : Ended(k)} \ Disturbed'
    BY <2>1 DEF Moves
  <2>3. Lifecycle!Disturb({})
    BY <1>2, <2>1, <2>2 DEF Lifecycle!Disturb, Moves, Disturbed
  <2> QED  BY <2>3 DEF Lifecycle!Next
<1>5. CASE j \notin Disturbed /\ Starts(j)
  <2>1. {k \in Jobs \ Disturbed' : Ended(k)'} = {k \in Jobs \ Disturbed : Ended(k)}
    BY <1>1, <1>5 DEF Moves, Starts
  <2>2. UNCHANGED Disturbed
    BY DEF Moves
  <2>3. j \notin {k \in Jobs \ Disturbed : Ended(k)}
    BY <1>5 DEF Starts
  <2>4. status' = [status EXCEPT ![j] = "in-progress"]
    BY <1>1, <1>2, <1>5 DEF Starts, StoreTypeOK, TypeOK
  <2>5. Lifecycle!Start(j)
    BY <1>5, <2>1, <2>2, <2>3, <2>4 DEF Lifecycle!Start, Lifecycle!Becomes, Starts, Disturbed
  <2> QED  BY <1>5, <2>5 DEF Lifecycle!Next, Disturbed
<1>6. CASE j \notin Disturbed /\ Settles(j)
  <2>1. {k \in Jobs \ Disturbed' : Ended(k)'} = {k \in Jobs \ Disturbed : Ended(k)} \cup {j}
    BY <1>1, <1>6 DEF Moves, Settles
  <2>2. UNCHANGED Disturbed
    BY DEF Moves
  <2>3. j \notin {k \in Jobs \ Disturbed : Ended(k)}
    BY <1>6 DEF Settles
  <2>4. ASSUME status[j] = "absent"  PROVE Lifecycle!Settle(j)
    <3>1. status' = status
      BY <1>1, <1>2, <1>6, <2>4 DEF Settles, StoreTypeOK, TypeOK
    <3> QED
      BY <2>1, <2>2, <2>3, <2>4, <3>1 DEF Lifecycle!Settle, Disturbed
  <2>5. ASSUME status[j] = "in-progress"  PROVE Lifecycle!Settle(j)
    <3>1. /\ status'[j] \in Lifecycle!Final
          /\ status' = [status EXCEPT ![j] = status'[j]]
      BY <1>1, <1>2, <1>6, <2>5 DEF Settles, Lifecycle!Final, StoreTypeOK, TypeOK
    <3> QED
      BY <2>1, <2>2, <2>3, <2>5, <3>1 DEF Lifecycle!Settle, Lifecycle!Becomes, Disturbed
  <2>6. Lifecycle!Settle(j)
    BY <1>6, <2>4, <2>5 DEF Settles
  <2> QED  BY <1>6, <2>6 DEF Lifecycle!Next, Disturbed
<1> QED  BY <1>3, <1>4, <1>5, <1>6 DEF Moves

-----------------------------------------------------------------------------
(* Every step of the system is of one of these kinds.                      *)

LEMMA QueueTimersMove ==
  ASSUME LifecycleInv, NEW j \in Jobs, Submit(j) \/ EndBackoff(j) \/ RecoverStalled(j)
  PROVE  Moves(j)
<1> USE DEF LifecycleInv
<1>1. UNCHANGED <<status, pc, jobOf, abandoned, ambiguous, Disturbed>>
  BY DEF Submit, EndBackoff, RecoverStalled, Enqueue, Promote, TakeBack, workerVars, storeVars,
         Disturbed
<1>2. \A k \in Jobs \ {j} : Untouched(k)
  BY <1>1
  DEF Submit, EndBackoff, RecoverStalled, Enqueue, Promote, TakeBack, TypeOK, QueueTypeOK,
      Untouched, Running
<1>3. ASSUME j \notin Disturbed  PROVE Orderly(j)' /\ Stays(j)
  <2>1. Orderly(j) /\ j \notin abandoned
    BY <1>3 DEF OrderlyInv, Disturbed
  <2>2. ~RecoverStalled(j)
    BY <2>1, QueueAssumption DEF RecoverStalled, TakeBack, Holds, Orderly
  <2>3. /\ qstate[j] \in {"none", "delayed"}
        /\ qstate'[j] = "waiting"
        /\ UNCHANGED <<stalls, owner>>
    BY <2>2 DEF Submit, EndBackoff, Enqueue, Promote, TypeOK, QueueTypeOK
  <2>4. \A s \in Slots : ~Running(s, j)
    BY <2>1, <2>3 DEF RunsAreExclusive, Holds
  <2>5. Orderly(j)'
    BY <1>1, <2>1, <2>3, <2>4 DEF Orderly, Running
  <2>6. Stays(j)
    BY <1>1, <2>3 DEF Stays, Ended, Running
  <2> QED  BY <2>5, <2>6
<1> QED  BY <1>1, <1>2, <1>3 DEF Moves

LEMMA ClaimMoves ==
  ASSUME LifecycleInv, NEW s \in Slots, NEW j \in Jobs, ClaimJob(s, j)
  PROVE  Moves(j)
<1> USE DEF LifecycleInv
<1>1. UNCHANGED <<status, stalls, abandoned, ambiguous, Disturbed>>
  BY DEF ClaimJob, Claim, storeVars, Disturbed
<1>2. /\ qstate[j] = "waiting"
      /\ qstate' = [qstate EXCEPT ![j] = "active"]
      /\ owner' = [owner EXCEPT ![j] = s]
      /\ pc[s] = "idle"
      /\ pc' = [pc EXCEPT ![s] = IF GivenUp(j) THEN "aborting" ELSE "inserting"]
      /\ jobOf' = [jobOf EXCEPT ![s] = j]
  BY DEF ClaimJob, Claim
<1>3. \A k \in Jobs \ {j} : Untouched(k)
  BY <1>1, <1>2 DEF TypeOK, QueueTypeOK, WorkerTypeOK, Untouched, Running
<1>4. ASSUME j \notin Disturbed  PROVE Orderly(j)' /\ Stays(j)
  <2>1. Orderly(j) /\ j \notin abandoned
    BY <1>4 DEF OrderlyInv, Disturbed
  <2>2. ~GivenUp(j)
    BY <2>1, QueueAssumption DEF Orderly, GivenUp
  <2>3. /\ qstate'[j] = "active" /\ owner'[j] = s
        /\ pc'[s] = "inserting" /\ jobOf'[s] = j
    BY <1>2, <2>2 DEF TypeOK, QueueTypeOK, WorkerTypeOK
  <2>4. \A t \in Slots : ~Running(t, j)
    BY <1>2, <2>1 DEF RunsAreExclusive, Holds
  <2>5. \A t \in Slots : Running(t, j)' <=> t = s
    BY <1>2, <2>3, <2>4 DEF Running, TypeOK, WorkerTypeOK
  <2>6. status[j] \in {"absent", "in-progress"}
    BY <1>2, <2>1 DEF Orderly
  <2>7. Orderly(j)'
    BY <1>1, <2>1, <2>3, <2>5, <2>6 DEF Orderly, RowOf
  <2>8. Stays(j)
    BY <1>1, <1>2, <2>3, <2>4, <2>5, <2>6 DEF Stays, Ended
  <2> QED  BY <2>7, <2>8
<1> QED  BY <1>1, <1>3, <1>4 DEF Moves

\* A step of the run of an undisturbed job starts its row, settles it on the
\* way to "acking" or "aborting", or leaves it alone.
LEMMA MidRunOfOrderlyJob ==
  ASSUME TypeOK, NEW s \in Slots, NEW j \in Jobs \ Disturbed, MidRun(s, j), Orderly(j),
         UNCHANGED ambiguous
  PROVE  /\ pc[s] \notin {"acking", "aborting"}
         /\ \/ /\ pc'[s] \notin {"acking", "aborting"}
               /\ \/ status'[j] = status[j]
                  \/ status[j] = "absent" /\ status'[j] = "in-progress"
            \/ /\ pc'[s] \in {"acking", "aborting"}
               /\ \/ status[j] = "absent" /\ status'[j] = "absent"
                  \/ status[j] = "in-progress" /\ status'[j] = RowOf(pc'[s])
<1> USE DEF TypeOK, StoreTypeOK, WorkerTypeOK, Goto, Caught, isPermanentError
<1>0. Running(s, j) /\ status[j] \in {"absent", RowOf(pc[s])}
  BY MidRunKeepsTheRun DEF Orderly
<1>1. CASE QueryAnswers(s, j)
  BY <1>0, <1>1
  DEF QueryAnswers, Query, AfterQuery, RowOf, insertJob, markJobInProgress, markJobCompleted,
      markJobFailed, UpdateStatus, HasRow
<1>2. CASE QueryFails(s, j)
  BY <1>0, <1>2 DEF QueryFails, Querying, Disturbed, storeVars
<1>3. CASE CheckInput(s, j) \/ Convert(s, j) \/ Upload(s, j) \/ CleanUp(s, j)
  BY <1>0, <1>3 DEF CheckInput, Convert, Upload, CleanUp, storeVars
<1> QED  BY <1>1, <1>2, <1>3 DEF MidRun

LEMMA MidRunMoves ==
  ASSUME LifecycleInv, NEW s \in Slots, NEW j \in Jobs, MidRun(s, j)
  PROVE  Moves(j) \/ Disturbs
<1> USE DEF LifecycleInv
<1>1. /\ Running(s, j)
      /\ \A t \in Slots, k \in Jobs : Running(t, k)' <=> Running(t, k)
      /\ \A t \in Slots \ {s} : pc'[t] = pc[t]
      /\ UNCHANGED <<qstate, stalls, owner, abandoned>>
      /\ \A k \in Jobs \ {j} : status'[k] = status[k]
  BY MidRunKeepsTheRun, MidRunWrites DEF queueVars
<1>2. \A k \in Jobs \ {j} : ~Running(s, k)
  BY <1>1 DEF Running
<1>3. \A k \in Jobs \ {j} : Untouched(k)
  BY <1>1, <1>2 DEF Untouched
<1>4. UNCHANGED ambiguous \/ ambiguous' = ambiguous \cup {j}
  BY DEF MidRun, QueryAnswers, QueryFails, CheckInput, Convert, Upload, CleanUp
<1>5. CASE ambiguous' = ambiguous \cup {j}
  BY <1>1, <1>3, <1>5 DEF Disturbs, Disturbed, TypeOK, QueueTypeOK, WorkerTypeOK
<1>6. CASE UNCHANGED ambiguous
  <2>1. UNCHANGED Disturbed
    BY <1>1, <1>6 DEF Disturbed
  <2>2. ASSUME j \notin Disturbed  PROVE Orderly(j)' /\ (Stays(j) \/ Starts(j) \/ Settles(j))
    <3>1. Orderly(j) /\ j \notin abandoned
      BY <2>2 DEF OrderlyInv, Disturbed
    <3>2. /\ qstate[j] = "active" /\ qstate'[j] = "active"
          /\ \A t \in Slots : Running(t, j) <=> t = s
      BY <1>1, <3>1 DEF RunsAreExclusive, Holds
    <3>3. \A t \in Slots : Running(t, j)' <=> t = s
      BY <1>1, <3>2
    <3>4. status[j] \in {"absent", RowOf(pc[s])}
      BY <1>1, <3>1 DEF Orderly
    <3>5. CASE /\ pc[s] \notin {"acking", "aborting"}
               /\ pc'[s] \notin {"acking", "aborting"}
               /\ \/ status'[j] = status[j]
                  \/ status[j] = "absent" /\ status'[j] = "in-progress"
      <4>1. ~Ended(j) /\ ~Ended(j)'
        BY <3>2, <3>3, <3>4, <3>5 DEF Ended, RowOf
      <4>2. Orderly(j)'
        BY <1>1, <3>1, <3>2, <3>3, <3>4, <3>5 DEF Orderly, RowOf
      <4> QED  BY <3>5, <4>1, <4>2 DEF Stays, Starts
    <3>6. CASE /\ pc[s] \notin {"acking", "aborting"}
               /\ pc'[s] \in {"acking", "aborting"}
               /\ \/ status[j] = "absent" /\ status'[j] = "absent"
                  \/ status[j] = "in-progress" /\ status'[j] = RowOf(pc'[s])
      <4>1. ~Ended(j) /\ Ended(j)'
        BY <3>2, <3>3, <3>4, <3>6 DEF Ended, RowOf
      <4>2. Orderly(j)'
        BY <1>1, <3>1, <3>2, <3>3, <3>6 DEF Orderly
      <4> QED  BY <3>6, <4>1, <4>2 DEF Settles, RowOf
    <3> QED  BY <2>2, <3>1, <3>5, <3>6, <1>6, MidRunOfOrderlyJob
  <2> QED  BY <1>3, <2>1, <2>2 DEF Moves
<1> QED  BY <1>4, <1>5, <1>6

LEMMA EndOfRunMoves ==
  ASSUME LifecycleInv, NEW s \in Slots, NEW j \in Jobs, EndOfRun(s, j)
  PROVE  Moves(j)
<1> USE DEF LifecycleInv
<1>1. /\ Running(s, j)
      /\ \A t \in Slots, k \in Jobs : Running(t, k)' <=> t # s /\ Running(t, k)
      /\ \A t \in Slots \ {s} : pc'[t] = pc[t]
      /\ UNCHANGED <<status, stalls, abandoned, ambiguous, Disturbed>>
      /\ \A k \in Jobs \ {j} : qstate'[k] = qstate[k] /\ owner'[k] = owner[k]
  BY EndOfRunReleasesTheSlot
  DEF EndRun, TypeOK, QueueTypeOK, queueVars, storeVars, Disturbed
<1>2. \A k \in Jobs \ {j} : Untouched(k)
  BY <1>1 DEF Untouched, Running
<1>3. ASSUME j \notin Disturbed
      PROVE  Orderly(j)' /\ (Stays(j) \/ Starts(j) \/ Settles(j))
  <2>1. Orderly(j) /\ j \notin abandoned
    BY <1>3 DEF OrderlyInv, Disturbed
  <2>2. Holds(s, j) /\ \A t \in Slots : Running(t, j) <=> t = s
    BY <1>1, <2>1 DEF RunsAreExclusive, Holds
  <2>3. \A t \in Slots : ~Running(t, j)'
    BY <1>1, <2>2
  <2>4. status[j] \in {"absent", RowOf(pc[s])}
    BY <1>1, <2>1 DEF Orderly
  <2>5. CASE Complete(s, j)
    <3>1. pc[s] = "acking" /\ qstate'[j] = "completed" /\ status[j] \in {"absent", "completed"}
      BY <2>2, <2>4, <2>5 DEF Complete, EndRun, Refused, RowOf, TypeOK, QueueTypeOK
    <3>2. Orderly(j)'
      BY <1>1, <2>1, <2>3, <3>1 DEF Orderly
    <3>3. Stays(j)
      BY <1>1, <3>1 DEF Stays, Ended
    <3> QED  BY <3>2, <3>3
  <2>6. CASE Retry(s, j)
    <3>1. /\ pc[s] = "failing" /\ qstate[j] = "active" /\ qstate'[j] = "delayed"
          /\ status[j] \in {"absent", "in-progress"}
      BY <2>4, <2>6 DEF Retry, EndRun, Holds, RowOf, TypeOK, QueueTypeOK
    <3>2. Orderly(j)'
      BY <1>1, <2>1, <2>3, <3>1 DEF Orderly
    <3>3. Stays(j)
      BY <1>1, <2>2, <2>3, <3>1 DEF Stays, Ended
    <3> QED  BY <3>2, <3>3
  <2>7. CASE FailForGood(s, j)
    <3>1. /\ pc[s] \in {"aborting", "failing"} /\ qstate[j] = "active" /\ qstate'[j] = "failed"
          /\ status[j] \in {"absent", RowOf(pc[s])}
      BY <2>4, <2>7 DEF FailForGood, EndRun, Holds, TypeOK, QueueTypeOK
    <3>2. Orderly(j)'
      BY <1>1, <2>1, <2>3, <3>1 DEF Orderly, RowOf
    <3>3. Ended(j)' <=> status[j] \in {"absent", "failed"}
      BY <1>1, <2>3, <3>1 DEF Ended, RowOf
    <3>4. Ended(j) <=> pc[s] = "aborting"
      BY <1>1, <2>2, <3>1 DEF Ended, RowOf
    <3>5. Stays(j) \/ Settles(j)
      BY <1>1, <3>1, <3>3, <3>4 DEF Stays, Settles, RowOf
    <3> QED  BY <3>2, <3>5
  <2>8. ~FailRefused(s, j)
    BY <2>2 DEF FailRefused, Refused
  <2> QED  BY <2>5, <2>6, <2>7, <2>8 DEF EndOfRun
<1> QED  BY <1>1, <1>2, <1>3 DEF Moves

LEMMA RecordMoves ==
  ASSUME LifecycleInv, NEW n \in Nodes, NEW j \in Jobs, RecordFinalFailure(n, j)
  PROVE  Moves(j)
<1> USE DEF LifecycleInv
<1>1. /\ qstate[j] = "failed" \/ j \in abandoned
      /\ markJobFailed(j)
      /\ UNCHANGED <<queueVars, pc, jobOf, ambiguous, Disturbed>>
  BY DEF RecordFinalFailure, AgreeInv, slotVars, queueVars, Disturbed
<1>2. /\ \A k \in Jobs \ {j} : status'[k] = status[k]
      /\ status'[j] = IF status[j] = "absent" THEN "absent" ELSE "failed"
  BY <1>1 DEF markJobFailed, UpdateStatus, HasRow, TypeOK, StoreTypeOK
<1>3. \A k \in Jobs \ {j} : Untouched(k)
  BY <1>1, <1>2 DEF Untouched, Running, queueVars
<1>4. ASSUME j \notin Disturbed  PROVE Orderly(j)' /\ (Stays(j) \/ Settles(j))
  <2>1. Orderly(j) /\ j \notin abandoned /\ qstate[j] = "failed"
    BY <1>1, <1>4 DEF OrderlyInv, Disturbed
  <2>2. \A s \in Slots : ~Running(s, j) /\ ~Running(s, j)'
    BY <1>1, <2>1 DEF RunsAreExclusive, Holds, Running
  <2>3. Orderly(j)'
    BY <1>1, <1>2, <2>1, <2>2 DEF Orderly, queueVars
  <2>4. status[j] \in {"absent", "in-progress", "failed"}
    BY <1>1, <2>1 DEF Orderly, TypeOK, StoreTypeOK, RowStatus
  <2>5. Stays(j) \/ Settles(j)
    BY <1>1, <1>2, <2>1, <2>2, <2>4 DEF Stays, Settles, Ended, queueVars
  <2> QED  BY <2>3, <2>5
<1> QED  BY <1>1, <1>3, <1>4 DEF Moves

\* The jobs that do not lose their lock keep their runs.
LEMMA RestartSparesTheRest ==
  ASSUME TypeOK, RunsAreExclusive, NEW n \in Nodes, Restart(n), NEW k \in Jobs \ abandoned'
  PROVE  /\ qstate'[k] = qstate[k] /\ stalls'[k] = stalls[k] /\ owner'[k] = owner[k]
         /\ \A s \in Slots : Running(s, k)' <=> Running(s, k)
         /\ \A s \in Slots : Running(s, k) => pc'[s] = pc[s]
<1>1. /\ qstate'[k] = qstate[k] /\ stalls'[k] = stalls[k]
      /\ k \notin abandoned
  BY RestartEndsRuns
<1>2. qstate[k] = "active" => owner[k] \notin {s \in Slots : NodeOf[s] = n}
  BY DEF Restart, DropLocks
<1>3. owner'[k] = owner[k]
  BY <1>2 DEF Restart, DropLocks, TypeOK, QueueTypeOK
<1>4. \A s \in Slots : Running(s, k) => NodeOf[s] # n
  BY <1>1, <1>2 DEF RunsAreExclusive, Holds
<1> QED  BY <1>1, <1>3, <1>4, RestartEndsRuns

LEMMA ListenerFailsDisturbs ==
  ASSUME LifecycleInv, NEW n \in Nodes, NEW j \in Jobs, ListenerFails(n, j)
  PROVE  Disturbs
<1> USE DEF LifecycleInv
<1>1. Restart(n)
  BY DEF ListenerFails
<1>2. abandoned \subseteq abandoned' /\ abandoned' \subseteq Jobs
  BY <1>1, RestartEndsRuns DEF Restart, DropLocks, TypeOK, QueueTypeOK
<1>3. ambiguous \subseteq ambiguous' /\ ambiguous' \subseteq Jobs
  BY DEF ListenerFails, TypeOK, WorkerTypeOK
<1>4. \A k \in Jobs \ ambiguous' : status'[k] = status[k]
  BY DEF ListenerFails, markJobFailed, UpdateStatus, storeVars, TypeOK, StoreTypeOK
<1>5. \A k \in Jobs \ Disturbed' : Untouched(k)
  BY <1>1, <1>4, RestartSparesTheRest DEF Untouched, Disturbed
<1> QED  BY <1>2, <1>3, <1>5 DEF Disturbs, Disturbed

LEMMA CrashDisturbs ==
  ASSUME LifecycleInv, NEW n \in Nodes, Crash(n)
  PROVE  Disturbs
<1> USE DEF LifecycleInv
<1>1. Restart(n) /\ UNCHANGED <<ambiguous, status>>
  BY DEF Crash, storeVars
<1>2. abandoned \subseteq abandoned' /\ abandoned' \subseteq Jobs
  BY <1>1, RestartEndsRuns DEF Restart, DropLocks, TypeOK, QueueTypeOK
<1>3. \A k \in Jobs \ Disturbed' : Untouched(k)
  BY <1>1, RestartSparesTheRest DEF Untouched, Disturbed
<1> QED  BY <1>1, <1>2, <1>3 DEF Disturbs, Disturbed, TypeOK, WorkerTypeOK

LEMMA LoseLockDisturbs ==
  ASSUME LifecycleInv, NEW s \in Slots, LoseLock(s)
  PROVE  Disturbs
<1> USE DEF LifecycleInv
<1>1. UNCHANGED <<qstate, stalls, status, pc, jobOf, ambiguous>>
  BY DEF LoseLock, DropLocks, slotVars, storeVars
<1>2. abandoned \subseteq abandoned' /\ abandoned' \subseteq Jobs
  BY DEF LoseLock, DropLocks, TypeOK, QueueTypeOK
<1>3. \A k \in Jobs \ abandoned' : owner'[k] = owner[k]
  BY DEF LoseLock, DropLocks, TypeOK, QueueTypeOK
<1>4. \A k \in Jobs \ Disturbed' : Untouched(k)
  BY <1>1, <1>3 DEF Untouched, Disturbed, Running
<1> QED  BY <1>1, <1>2, <1>4 DEF Disturbs, Disturbed, TypeOK, WorkerTypeOK

LEMMA DeleteRemoves ==
  ASSUME \/ \E n \in Nodes, ids \in SUBSET Jobs : DeleteJobs(n, ids)
         \/ \E ids \in SUBSET Jobs : DeleteJobsFails(ids)
  PROVE  Removes
<1>1. PICK ids \in SUBSET Jobs : Removal(ids)
  BY DEF DeleteJobs, DeleteJobsFails
<1>2. \A k \in Jobs : status'[k] = status[k] \/ status'[k] = "absent"
  BY <1>1 DEF Removal, deleteJobsByIds, deleteAllFinishedJobs, DeleteRows
<1>3. UNCHANGED <<queueVars, slotVars, Disturbed>>
  BY DEF DeleteJobs, DeleteJobsFails, queueVars, Disturbed
<1> QED  BY <1>2, <1>3 DEF Removes

LEMMA UnseenDisturbs ==
  ASSUME TypeOK, UNCHANGED <<queueVars, storeVars, slotVars, ambiguous>>
  PROVE  Disturbs
<1>1. \A k \in Jobs : Untouched(k)
  BY DEF Untouched, Running, queueVars, storeVars, slotVars
<1>2. UNCHANGED Disturbed
  BY DEF Disturbed, queueVars
<1> QED
  BY <1>1, <1>2 DEF Disturbs, Disturbed, TypeOK, QueueTypeOK, WorkerTypeOK

LEMMA KindsOfSteps ==
  ASSUME LifecycleInv, [Next]_vars
  PROVE  Disturbs \/ Removes \/ \E j \in Jobs : Moves(j)
<1>1. CASE \E j \in Jobs : Submit(j) \/ EndBackoff(j) \/ RecoverStalled(j)
  BY <1>1, QueueTimersMove
<1>2. CASE \E s \in Slots, j \in Jobs : ClaimJob(s, j) /\ UNCHANGED doomed
  BY <1>2, ClaimMoves
<1>3. CASE \E s \in Slots, j \in Jobs : SlotStep(s, j) /\ UNCHANGED doomed
  BY <1>3, SlotSteps, MidRunMoves, EndOfRunMoves
<1>4. CASE \E n \in Nodes, j \in Jobs : RecordFinalFailure(n, j) /\ UNCHANGED doomed
  BY <1>4, RecordMoves
<1>5. CASE \E n \in Nodes, j \in Jobs : ListenerFails(n, j)
  BY <1>5, ListenerFailsDisturbs
<1>6. CASE \E n \in Nodes : Crash(n)
  BY <1>6, CrashDisturbs
<1>7. CASE \E s \in Slots : LoseLock(s)
  BY <1>7, LoseLockDisturbs
<1>8. CASE \/ \E n \in Nodes, ids \in SUBSET Jobs \ {{}} : DeleteJobs(n, ids)
           \/ \E ids \in SUBSET Jobs \ {{}} : DeleteJobsFails(ids)
  BY <1>8, DeleteRemoves
<1>9. CASE UNCHANGED <<queueVars, storeVars, slotVars, ambiguous>>
  BY <1>9, UnseenDisturbs DEF LifecycleInv
<1> QED
  BY <1>1, <1>2, <1>3, <1>4, <1>5, <1>6, <1>7, <1>8, <1>9
  DEF Next, DeleteObject, vars, workerVars, slotVars

LEMMA OrderlyInvKept ==
  ASSUME LifecycleInv, Disturbs \/ Removes \/ \E j \in Jobs : Moves(j)
  PROVE  OrderlyInv'
<1>1. CASE Disturbs
  BY <1>1, UntouchedJobStays DEF Disturbs, LifecycleInv, OrderlyInv
<1>2. CASE Removes
  BY <1>2, RemovedJobIsOrderly DEF Removes, LifecycleInv, OrderlyInv
<1>3. CASE \E j \in Jobs : Moves(j)
  BY <1>3, UntouchedJobStays DEF Moves, LifecycleInv, OrderlyInv
<1> QED  BY <1>1, <1>2, <1>3

LEMMA OrderlyInvStep ==
  ASSUME LifecycleInv, [Next]_vars
  PROVE  OrderlyInv'
  BY KindsOfSteps, OrderlyInvKept

LEMMA InitIsOrderly == Init => OrderlyInv
  BY QueueAssumption
  DEF Init, QueueInit, StoreInit, WorkerInit, OrderlyInv, Orderly, Running

LEMMA LifecycleInvHolds == Spec => []LifecycleInv
<1>1. Init => OrderlyInv
  BY InitIsOrderly
<1>2. TypeOK /\ RunsAreExclusive /\ AgreeInv /\ OrderlyInv /\ [Next]_vars => OrderlyInv'
  BY OrderlyInvStep DEF LifecycleInv
<1> QED
  BY <1>1, <1>2, TypeCorrect, RunsAreExclusiveTheorem, AgreeInvHolds, PTL DEF Spec, LifecycleInv

-----------------------------------------------------------------------------
(* The refinement.                                                         *)

LEMMA InitRefines == Init => Lifecycle!Init
<1> SUFFICES ASSUME Init  PROVE Lifecycle!Init
  OBVIOUS
<1>1. status = [j \in Jobs |-> "absent"] /\ abandoned \cup ambiguous = {}
  BY DEF Init, QueueInit, StoreInit, WorkerInit
<1>2. \A j \in Jobs : ~Ended(j)
  BY DEF Init, QueueInit, StoreInit, WorkerInit, Ended, Running
<1>3. {j \in Jobs \ (abandoned \cup ambiguous) : Ended(j)} = {}
  BY <1>2
<1> QED  BY <1>1, <1>3 DEF Lifecycle!Init

\* Every step is a step of the life cycle;  those that change nothing a client
\* can see disturb the empty set of jobs.
LEMMA StepRefines ==
  ASSUME LifecycleInv, [Next]_vars
  PROVE  Lifecycle!Next
<1>1. TypeOK /\ StoreTypeOK' /\ OrderlyInv
  BY StepTypeOK DEF LifecycleInv, TypeOK
<1> QED
  BY <1>1, KindsOfSteps, DisturbsIsDisturb, RemovesIsRemove, MovesIsStep

\* What clients read of a job is the life cycle of JobLifecycle: the row of an
\* undisturbed job appears, settles once and never changes again, whatever the
\* queue, the workers, the listeners and the administrators do in between.
THEOREM JobSystemImplementsLifecycle == Spec => ImplementsLifecycle
<1>1. Init => Lifecycle!Init
  BY InitRefines
<1>2. LifecycleInv /\ [Next]_vars => [Lifecycle!Next]_(Lifecycle!lifecycleVars)
  BY StepRefines
<1> QED
  BY <1>1, <1>2, LifecycleInvHolds, PTL DEF Spec, ImplementsLifecycle, Lifecycle!Spec

=============================================================================
