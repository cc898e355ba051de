-------------------------- MODULE JobSystemProofs ---------------------------
(***************************************************************************)
(* Proofs about JobSystem, for every number of jobs, nodes, slots,         *)
(* attempts and failures.                                                  *)
(***************************************************************************)
EXTENDS JobSystem, Integers, TLAPS

-----------------------------------------------------------------------------
(* Type correctness.                                                       *)

LEMMA InitTypeOK == Init => TypeOK
  BY WorkerAssumption, FileAssumption
  DEF Init, QueueInit, StoreInit, FileInit, WorkerInit, TypeOK, QueueTypeOK,
      StoreTypeOK, FileTypeOK, WorkerTypeOK, QueueState, RowStatus, PC

\* What a run can leave its job in.
Outcome == {"delayed", "completed", "failed"}

LEMMA QueueStepTypeOK ==
  ASSUME QueueTypeOK,
         \/ UNCHANGED queueVars
         \/ \E j \in Jobs : Enqueue(j) \/ Promote(j) \/ TakeBack(j)
         \/ \E s \in Slots, j \in Jobs : Claim(s, j)
         \/ \E s \in Slots, j \in Jobs, to \in Outcome : EndRun(s, j, to)
         \/ \E S \in SUBSET Slots : DropLocks(S)
  PROVE  QueueTypeOK'
  BY DEF QueueTypeOK, queueVars, QueueState, Outcome, Enqueue, Promote, TakeBack, Claim, EndRun, DropLocks

LEMMA StoreStepTypeOK ==
  ASSUME StoreTypeOK,
         \/ UNCHANGED storeVars
         \/ \E j \in Jobs : \/ insertJob(j) \/ markJobInProgress(j)
                            \/ markJobCompleted(j) \/ markJobFailed(j)
         \/ \E ids \in SUBSET Jobs : deleteJobsByIds(ids)
         \/ deleteAllFinishedJobs
  PROVE  StoreTypeOK'
  BY DEF StoreTypeOK, storeVars, RowStatus, insertJob, markJobInProgress, markJobCompleted,
         markJobFailed, UpdateStatus, HasRow, deleteJobsByIds, deleteAllFinishedJobs, DeleteRows

LEMMA FileStepTypeOK ==
  ASSUME FileTypeOK,
         \/ UNCHANGED fileVars
         \/ \E j \in Jobs : \/ WriteThumbnail(j) \/ uploadFiletoS3(j)
                            \/ RemoveLocalFiles(j) \/ RemoveSomeFiles(j)
                            \/ deleteFileFromS3(j)
  PROVE  FileTypeOK'
  BY DEF FileTypeOK, fileVars, WriteThumbnail, uploadFiletoS3, RemoveLocalFiles,
         RemoveSomeFiles, deleteFileFromS3

\* The slots, listeners, histories and budget have no operations of their own:
\* each action is looked at.
LEMMA WorkerStepTypeOK ==
  ASSUME TypeOK, [Next]_vars
  PROVE  WorkerTypeOK' /\ doomed' \in [Nodes -> SUBSET Jobs]
<1> USE WorkerAssumption DEF TypeOK, WorkerTypeOK, workerVars, slotVars, PC, Failure
<1>1. CASE \E j \in Jobs : Submit(j) \/ EndBackoff(j) \/ RecoverStalled(j)
  BY <1>1 DEF Submit, EndBackoff, RecoverStalled
<1>2. CASE \E s \in Slots, j \in Jobs : ClaimJob(s, j) /\ UNCHANGED doomed
  BY <1>2 DEF ClaimJob
<1>3. CASE \E s \in Slots, j \in Jobs : SlotStep(s, j) /\ UNCHANGED doomed
  <2> PICK s \in Slots, j \in Jobs : SlotStep(s, j) /\ UNCHANGED doomed
    BY <1>3
  <2>1. CASE QueryAnswers(s, j)
    BY <2>1 DEF QueryAnswers, Query, AfterQuery, Goto, Caught, isPermanentError
  <2>2. CASE QueryFails(s, j)
    BY <2>2 DEF QueryFails, Goto, Caught, isPermanentError, Spend
  <2>3. CASE CheckInput(s, j) \/ Convert(s, j)
    BY <2>3 DEF CheckInput, Convert, Goto, Caught, isPermanentError
  <2>4. CASE Upload(s, j) \/ CleanUp(s, j)
    BY <2>4 DEF Upload, CleanUp, Goto, Caught, isPermanentError, Spend
  <2>5. CASE Complete(s, j) \/ Retry(s, j) \/ FailForGood(s, j) \/ FailRefused(s, j)
    BY <2>5 DEF Complete, Retry, FailForGood, FailRefused, Release
  <2> QED  BY <2>1, <2>2, <2>3, <2>4, <2>5 DEF SlotStep
<1>4. CASE \E n \in Nodes, j \in Jobs : RecordFinalFailure(n, j) /\ UNCHANGED doomed
  BY <1>4 DEF RecordFinalFailure
<1>5. CASE \E n \in Nodes, j \in Jobs : ListenerFails(n, j)
  BY <1>5 DEF ListenerFails, Restart, Spend
<1>6. CASE \E n \in Nodes, j \in Jobs : DeleteObject(n, j)
  BY <1>6 DEF DeleteObject, Spend
<1>7. CASE \E n \in Nodes, ids \in SUBSET Jobs \ {{}} : DeleteJobs(n, ids)
  BY <1>7 DEF DeleteJobs, Spend, StoreTypeOK
<1>8. CASE \E ids \in SUBSET Jobs \ {{}} : DeleteJobsFails(ids)
  BY <1>8 DEF DeleteJobsFails
<1>9. CASE \E s \in Slots : LoseLock(s)
  BY <1>9 DEF LoseLock, Spend
<1>10. CASE \E n \in Nodes : Crash(n)
  BY <1>10 DEF Crash, Restart, Spend
<1>11. CASE UNCHANGED vars
  BY <1>11 DEF vars
<1> QED
  BY <1>1, <1>2, <1>3, <1>4, <1>5, <1>6, <1>7, <1>8, <1>9, <1>10, <1>11 DEF Next

\* What a step of the system is to each of the three stores.
LEMMA StepIsOperation ==
  ASSUME TypeOK, [Next]_vars
  PROVE  /\ \/ UNCHANGED queueVars
            \/ \E j \in Jobs : Enqueue(j) \/ Promote(j) \/ TakeBack(j)
            \/ \E s \in Slots, j \in Jobs : Claim(s, j)
            \/ \E s \in Slots, j \in Jobs, to \in Outcome : EndRun(s, j, to)
            \/ \E S \in SUBSET Slots : DropLocks(S)
         /\ \/ UNCHANGED storeVars
            \/ \E j \in Jobs : \/ insertJob(j) \/ markJobInProgress(j)
                               \/ markJobCompleted(j) \/ markJobFailed(j)
            \/ \E ids \in SUBSET Jobs : deleteJobsByIds(ids)
            \/ deleteAllFinishedJobs
         /\ \/ UNCHANGED fileVars
            \/ \E j \in Jobs : \/ WriteThumbnail(j) \/ uploadFiletoS3(j)
                               \/ RemoveLocalFiles(j) \/ RemoveSomeFiles(j)
                               \/ deleteFileFromS3(j)
<1>1. CASE \E j \in Jobs : Submit(j) \/ EndBackoff(j) \/ RecoverStalled(j)
  BY <1>1 DEF Submit, EndBackoff, RecoverStalled
<1>2. CASE \E s \in Slots, j \in Jobs : ClaimJob(s, j) /\ UNCHANGED doomed
  BY <1>2 DEF ClaimJob
<1>3. CASE \E s \in Slots, j \in Jobs : SlotStep(s, j) /\ UNCHANGED doomed
  <2> PICK s \in Slots, j \in Jobs : SlotStep(s, j) /\ UNCHANGED doomed
    BY <1>3
  <2>1. CASE QueryAnswers(s, j) \/ QueryFails(s, j)
    BY <2>1 DEF QueryAnswers, QueryFails, Query
  <2>2. CASE CheckInput(s, j) \/ Convert(s, j) \/ Upload(s, j) \/ CleanUp(s, j)
    BY <2>2 DEF CheckInput, Convert, Upload, CleanUp
  <2>3. CASE Complete(s, j) \/ Retry(s, j) \/ FailForGood(s, j) \/ FailRefused(s, j)
    BY <2>3 DEF Complete, Retry, FailForGood, FailRefused, Refused, Outcome
  <2> QED  BY <2>1, <2>2, <2>3 DEF SlotStep
<1>4. CASE \E n \in Nodes, j \in Jobs : RecordFinalFailure(n, j) /\ UNCHANGED doomed
  BY <1>4 DEF RecordFinalFailure
<1>5. CASE \E n \in Nodes, j \in Jobs : ListenerFails(n, j)
  <2> PICK n \in Nodes, j \in Jobs : ListenerFails(n, j)
    BY <1>5
  <2>1. {s \in Slots : NodeOf[s] = n} \in SUBSET Slots
    OBVIOUS
  <2> QED  BY <2>1 DEF ListenerFails, Restart
<1>6. CASE \E n \in Nodes, j \in Jobs : DeleteObject(n, j)
  BY <1>6 DEF DeleteObject
<1>7. CASE \E n \in Nodes, ids \in SUBSET Jobs \ {{}} : DeleteJobs(n, ids)
  BY <1>7 DEF DeleteJobs, Removal
<1>8. CASE \E ids \in SUBSET Jobs \ {{}} : DeleteJobsFails(ids)
  BY <1>8 DEF DeleteJobsFails, Removal
<1>9. CASE \E s \in Slots : LoseLock(s)
  <2> PICK s \in Slots : LoseLock(s)
    BY <1>9
  <2>1. {s} \in SUBSET Slots
    OBVIOUS
  <2> QED  BY <2>1 DEF LoseLock
<1>10. CASE \E n \in Nodes : Crash(n)
  <2> PICK n \in Nodes : Crash(n)
    BY <1>10
  <2>1. {s \in Slots : NodeOf[s] = n} \in SUBSET Slots
    OBVIOUS
  <2> QED  BY <2>1 DEF Crash, Restart
<1>11. CASE UNCHANGED vars
  BY <1>11 DEF vars
<1> QED
  BY <1>1, <1>2, <1>3, <1>4, <1>5, <1>6, <1>7, <1>8, <1>9, <1>10, <1>11 DEF Next

LEMMA StepTypeOK == TypeOK /\ [Next]_vars => TypeOK'
<1> SUFFICES ASSUME TypeOK, [Next]_vars  PROVE TypeOK'
  OBVIOUS
<1>1. QueueTypeOK'
  BY StepIsOperation, QueueStepTypeOK DEF TypeOK
<1>2. StoreTypeOK'
  BY StepIsOperation, StoreStepTypeOK DEF TypeOK
<1>3. FileTypeOK'
  BY StepIsOperation, FileStepTypeOK DEF TypeOK
<1>4. WorkerTypeOK' /\ doomed' \in [Nodes -> SUBSET Jobs]
  BY WorkerStepTypeOK
<1> QED  BY <1>1, <1>2, <1>3, <1>4 DEF TypeOK

\* The variables keep their types.
THEOREM TypeCorrect == Spec => []TypeOK
  BY InitTypeOK, StepTypeOK, PTL DEF Spec

-----------------------------------------------------------------------------
(* Runs and locks.                                                         *)

\* The steps of a run that neither start nor end it leave the queue alone.
MidRun(s, j) ==
    \/ QueryAnswers(s, j) \/ QueryFails(s, j) \/ CheckInput(s, j)
    \/ Convert(s, j) \/ Upload(s, j) \/ CleanUp(s, j)

LEMMA MidRunKeepsTheRun ==
  ASSUME TypeOK, NEW s \in Slots, NEW j \in Jobs, MidRun(s, j)
  PROVE  /\ Running(s, j)
         /\ \A t \in Slots, k \in Jobs : Running(t, k)' <=> Running(t, k)
         /\ UNCHANGED <<queueVars, jobOf, starts, handlers, dropped>>
         /\ \A t \in Slots \ {s} : pc'[t] = pc[t]
         /\ pc'[s] \notin {"idle", "inserting"}
<1> USE DEF TypeOK, WorkerTypeOK, Running, Goto, Caught, isPermanentError
<1>1. CASE QueryAnswers(s, j)
  BY <1>1 DEF QueryAnswers, Query, AfterQuery
<1>2. CASE QueryFails(s, j)
  BY <1>2 DEF QueryFails
<1>3. CASE CheckInput(s, j) \/ Convert(s, j)
  BY <1>3 DEF CheckInput, Convert
<1>4. CASE Upload(s, j) \/ CleanUp(s, j)
  BY <1>4 DEF Upload, CleanUp
<1> QED  BY <1>1, <1>2, <1>3, <1>4 DEF MidRun

\* The other steps of a slot end its run.
EndOfRun(s, j) ==
    \/ Complete(s, j) \/ Retry(s, j) \/ FailForGood(s, j) \/ FailRefused(s, j)

LEMMA EndOfRunReleasesTheSlot ==
  ASSUME TypeOK, NEW s \in Slots, NEW j \in Jobs, EndOfRun(s, j)
  PROVE  /\ Running(s, j)
         /\ \A t \in Slots, k \in Jobs : Running(t, k)' <=> t # s /\ Running(t, k)
         /\ \A t \in Slots \ {s} : pc'[t] = pc[t] /\ jobOf'[t] = jobOf[t]
         /\ \/ EndRun(s, j, "completed") \/ EndRun(s, j, "delayed") \/ EndRun(s, j, "failed")
            \/ ~Holds(s, j) /\ UNCHANGED queueVars
         /\ UNCHANGED <<starts, dropped, ambiguous, left, storeVars, fileVars>>
  BY DEF TypeOK, WorkerTypeOK, EndOfRun, Complete, Retry, FailForGood, FailRefused, Refused,
         Running, Release

LEMMA SlotSteps ==
  ASSUME NEW s \in Slots, NEW j \in Jobs
  PROVE  SlotStep(s, j) <=> MidRun(s, j) \/ EndOfRun(s, j)
  BY DEF SlotStep, MidRun, EndOfRun

\* A node that restarts forgets its runs, and the locks go with them.
LEMMA RestartEndsRuns ==
  ASSUME TypeOK, NEW n \in Nodes, Restart(n)
  PROVE  /\ \A t \in Slots, k \in Jobs :
               Running(t, k)' <=> NodeOf[t] # n /\ Running(t, k)
         /\ \A t \in Slots : NodeOf[t] # n => pc'[t] = pc[t]
         /\ \A t \in Slots, k \in Jobs :
               Holds(t, k)' <=> NodeOf[t] # n /\ Holds(t, k)
         /\ UNCHANGED <<qstate, attemptsMade, stalls, starts, fileVars>>
         /\ abandoned \subseteq abandoned'
         /\ handlers' = [handlers EXCEPT ![n] = {}]
         /\ doomed' = [doomed EXCEPT ![n] = {}]
  BY QueueAssumption
  DEF TypeOK, WorkerTypeOK, QueueTypeOK, Restart, DropLocks, Running, Holds

LEMMA RunsAreExclusiveStep ==
  ASSUME TypeOK, RunsAreExclusive, [Next]_vars
  PROVE  RunsAreExclusive'
<1> USE DEF RunsAreExclusive
<1>1. CASE \E j \in Jobs : Submit(j) \/ EndBackoff(j) \/ RecoverStalled(j)
  BY <1>1, QueueAssumption
  DEF TypeOK, QueueTypeOK, Submit, EndBackoff, RecoverStalled, Enqueue, Promote, TakeBack,
      Holds, Running, workerVars
<1>2. CASE \E s \in Slots, j \in Jobs : ClaimJob(s, j) /\ UNCHANGED doomed
  BY <1>2
  DEF TypeOK, QueueTypeOK, WorkerTypeOK, ClaimJob, Claim, Holds, Running
<1>3. CASE \E s \in Slots, j \in Jobs : SlotStep(s, j) /\ UNCHANGED doomed
  <2> PICK s \in Slots, j \in Jobs : SlotStep(s, j)
    BY <1>3
  <2>1. CASE MidRun(s, j)
    BY <2>1, MidRunKeepsTheRun DEF Holds, queueVars
  <2>2. CASE EndOfRun(s, j)
    BY <2>2, EndOfRunReleasesTheSlot
    DEF TypeOK, QueueTypeOK, EndRun, Holds, queueVars
  <2> QED  BY <2>1, <2>2, SlotSteps
<1>4. CASE \E n \in Nodes, j \in Jobs : RecordFinalFailure(n, j) /\ UNCHANGED doomed
  BY <1>4 DEF RecordFinalFailure, Running, Holds, queueVars, slotVars
<1>5. CASE \E n \in Nodes : Restart(n)
  BY <1>5, RestartEndsRuns
<1>6. CASE \E n \in Nodes, j \in Jobs : DeleteObject(n, j)
  BY <1>6 DEF DeleteObject, Running, Holds, queueVars, slotVars
<1>7. CASE \/ \E n \in Nodes, ids \in SUBSET Jobs \ {{}} : DeleteJobs(n, ids)
           \/ \E ids \in SUBSET Jobs \ {{}} : DeleteJobsFails(ids)
  BY <1>7 DEF DeleteJobs, DeleteJobsFails, Running, Holds, queueVars, slotVars
<1>8. CASE \E s \in Slots : LoseLock(s)
  BY <1>8, QueueAssumption
  DEF TypeOK, QueueTypeOK, LoseLock, DropLocks, Running, Holds, slotVars
<1>9. CASE UNCHANGED vars
  BY <1>9 DEF vars, workerVars, queueVars, Running, Holds
<1> QED
  BY <1>1, <1>2, <1>3, <1>4, <1>5, <1>6, <1>7, <1>8, <1>9 DEF Next, Crash, ListenerFails

\* Two slots never work on one job, and no slot works on a job that the queue
\* has given to somebody else, as long as no lock was lost.
THEOREM RunsAreExclusiveTheorem == Spec => []RunsAreExclusive
<1>1. Init => RunsAreExclusive
  BY DEF Init, WorkerInit, RunsAreExclusive, Running
<1>2. TypeOK /\ RunsAreExclusive /\ [Next]_vars => RunsAreExclusive'
  BY RunsAreExclusiveStep
<1> QED  BY <1>1, <1>2, TypeCorrect, PTL DEF Spec

-----------------------------------------------------------------------------
(* What a step can change.                                                 *)

\* Jobs move from structure to structure in one direction, but for those that
\* go back to the queue;  a row goes only when it is purged.
LEMMA JobMoves ==
  ASSUME TypeOK, [Next]_vars, NEW j \in Jobs
  PROVE  /\ purged \subseteq purged'
         /\ HasRow(j) => HasRow(j)' \/ j \in purged'
         /\ qstate[j] = "waiting" => qstate'[j] \in {"waiting", "active"}
         /\ qstate[j] = "active" => qstate'[j] \in {"active", "waiting"} \cup Outcome
         /\ qstate[j] = "delayed" => qstate'[j] \in {"delayed", "waiting"}
         /\ qstate[j] # "none" => qstate'[j] # "none"
         /\ qstate[j] = "none" => qstate'[j] \in {"none", "waiting"}
<1>1. /\ purged \subseteq purged'
      /\ HasRow(j) => HasRow(j)' \/ j \in purged'
  <2>1. CASE UNCHANGED storeVars
    BY <2>1 DEF storeVars, HasRow
  <2>2. CASE \E k \in Jobs : \/ insertJob(k) \/ markJobInProgress(k)
                             \/ markJobCompleted(k) \/ markJobFailed(k)
    BY <2>2
    DEF TypeOK, StoreTypeOK, insertJob, markJobInProgress, markJobCompleted, markJobFailed,
        UpdateStatus, HasRow
  <2>3. CASE (\E ids \in SUBSET Jobs : deleteJobsByIds(ids)) \/ deleteAllFinishedJobs
    BY <2>3 DEF TypeOK, StoreTypeOK, deleteJobsByIds, deleteAllFinishedJobs, DeleteRows, HasRow
  <2> QED  BY <2>1, <2>2, <2>3, StepIsOperation
<1>2. /\ qstate[j] = "waiting" => qstate'[j] \in {"waiting", "active"}
      /\ qstate[j] = "active" => qstate'[j] \in {"active", "waiting"} \cup Outcome
      /\ qstate[j] = "delayed" => qstate'[j] \in {"delayed", "waiting"}
      /\ qstate[j] # "none" => qstate'[j] # "none"
      /\ qstate[j] = "none" => qstate'[j] \in {"none", "waiting"}
  <2>1. CASE UNCHANGED queueVars \/ \E S \in SUBSET Slots : DropLocks(S)
    BY <2>1 DEF queueVars, DropLocks
  <2>2. CASE \E k \in Jobs : Enqueue(k) \/ Promote(k) \/ TakeBack(k)
    BY <2>2 DEF TypeOK, QueueTypeOK, Enqueue, Promote, TakeBack, Holds
  <2>3. CASE \E s \in Slots, k \in Jobs : Claim(s, k)
    BY <2>3 DEF TypeOK, QueueTypeOK, Claim
  <2>4. CASE \E s \in Slots, k \in Jobs, to \in Outcome : EndRun(s, k, to)
    BY <2>4 DEF TypeOK, QueueTypeOK, EndRun, Holds, Outcome
  <2> QED  BY <2>1, <2>2, <2>3, <2>4, StepIsOperation
<1> QED  BY <1>1, <1>2

\* A slot begins with a job that it claims.
LEMMA RunsAreClaimed ==
  ASSUME TypeOK, [Next]_vars, NEW s \in Slots, NEW j \in Jobs, Running(s, j)'
  PROVE  Running(s, j) \/ qstate[j] = "waiting"
<1>1. CASE \E t \in Slots, k \in Jobs : ClaimJob(t, k)
  BY <1>1 DEF ClaimJob, Claim, Running, TypeOK, WorkerTypeOK
<1>2. CASE \E t \in Slots, k \in Jobs : MidRun(t, k) \/ EndOfRun(t, k)
  BY <1>2, MidRunKeepsTheRun, EndOfRunReleasesTheSlot
<1>3. CASE \E n \in Nodes : Restart(n)
  BY <1>3, RestartEndsRuns
<1>4. CASE UNCHANGED slotVars
  BY <1>4 DEF slotVars, Running
<1> QED
  BY <1>1, <1>2, <1>3, <1>4, SlotSteps
  DEF Next, Submit, EndBackoff, RecoverStalled, RecordFinalFailure, ListenerFails, DeleteObject,
      DeleteJobs, DeleteJobsFails, LoseLock, Crash, vars, workerVars, slotVars

\* A job gets a row, an output file or an object from a slot that runs it.
LEMMA OnlyRunsMakeThings ==
  ASSUME TypeOK, [Next]_vars, NEW j \in Jobs
  PROVE  /\ HasRow(j)' => HasRow(j) \/ \E s \in Slots : Running(s, j)
         /\ j \in outputs' => j \in outputs \/ \E s \in Slots : Running(s, j)
         /\ j \in objects' => j \in objects \/ \E s \in Slots : Running(s, j)
<1> DEFINE Made == \/ HasRow(j)' /\ ~HasRow(j)
                   \/ j \in outputs' \ outputs
                   \/ j \in objects' \ objects
<1> SUFFICES ASSUME Made  PROVE \E s \in Slots : Running(s, j)
  OBVIOUS
<1>1. ASSUME NEW s \in Slots, NEW k \in Jobs, MidRun(s, k)
      PROVE  \E t \in Slots : Running(t, j)
  <2>1. \/ UNCHANGED storeVars
        \/ insertJob(k) \/ markJobInProgress(k) \/ markJobCompleted(k) \/ markJobFailed(k)
    BY <1>1 DEF MidRun, QueryAnswers, Query, QueryFails, CheckInput, Convert, Upload, CleanUp
  <2>2. \/ UNCHANGED fileVars
        \/ WriteThumbnail(k) \/ uploadFiletoS3(k) \/ RemoveLocalFiles(k) \/ RemoveSomeFiles(k)
    BY <1>1 DEF MidRun, QueryAnswers, QueryFails, CheckInput, Convert, Upload, CleanUp
  <2>3. k # j => (HasRow(j)' => HasRow(j))
    BY <2>1
    DEF insertJob, markJobInProgress, markJobCompleted, markJobFailed, UpdateStatus, HasRow,
        storeVars, TypeOK, StoreTypeOK
  <2>4. k # j => ~(j \in outputs' \ outputs) /\ ~(j \in objects' \ objects)
    BY <2>2 DEF fileVars, WriteThumbnail, uploadFiletoS3, RemoveLocalFiles, RemoveSomeFiles
  <2>5. Running(s, k)
    BY <1>1, MidRunKeepsTheRun
  <2> QED  BY <2>3, <2>4, <2>5
<1>2. ASSUME UNCHANGED fileVars \/ (\E k \in Jobs : deleteFileFromS3(k)),
             \/ UNCHANGED storeVars
             \/ \E k \in Jobs : markJobFailed(k)
             \/ \E ids \in SUBSET Jobs : Removal(ids)
      PROVE  ~Made
  <2>1. outputs' \subseteq outputs /\ objects' \subseteq objects
    BY <1>2 DEF fileVars, deleteFileFromS3
  <2>2. HasRow(j)' => HasRow(j)
    BY <1>2
    DEF storeVars, markJobFailed, UpdateStatus, Removal, deleteJobsByIds, deleteAllFinishedJobs,
        DeleteRows, HasRow, TypeOK, StoreTypeOK
  <2> QED  BY <2>1, <2>2
<1>3. ASSUME NEW s \in Slots, NEW k \in Jobs, EndOfRun(s, k)
      PROVE  UNCHANGED <<storeVars, fileVars>>
  BY <1>3, EndOfRunReleasesTheSlot
<1> QED
  BY <1>1, <1>2, <1>3, SlotSteps
  DEF Next, Submit, EndBackoff, RecoverStalled, ClaimJob, RecordFinalFailure, ListenerFails,
      Restart, DeleteObject, DeleteJobs, DeleteJobsFails, LoseLock, Crash, vars

-----------------------------------------------------------------------------
(* How often the processor is started.                                     *)

\* Runs that are under way are counted by neither attemptsMade nor stalls, and
\* a job that may still be claimed has an attempt left.
StartsInv ==
    \A j \in Jobs :
        /\ qstate[j] \notin {"completed", "failed"} => attemptsMade[j] < Attempts
        /\ ~GivenUp(j) => starts[j] <= attemptsMade[j] + stalls[j]
                                        + (IF qstate[j] = "active" THEN 1 ELSE 0)
        /\ starts[j] <= Attempts + MaxStalled

LEMMA EndRunKeepsStartsInv ==
  ASSUME TypeOK, StartsInv, NEW s \in Slots, NEW j \in Jobs, NEW to \in QueueState,
         EndRun(s, j, to), UNCHANGED starts,
         \/ to = "completed"
         \/ to = "failed"
         \/ to = "delayed" /\ ~LastAttempt(j)
  PROVE  StartsInv'
  BY QueueAssumption
  DEF StartsInv, TypeOK, QueueTypeOK, WorkerTypeOK, EndRun, Holds, GivenUp, LastAttempt

LEMMA StartsInvStep ==
  ASSUME TypeOK, StartsInv, [Next]_vars
  PROVE  StartsInv'
<1>1. CASE \E j \in Jobs : Submit(j) \/ EndBackoff(j) \/ RecoverStalled(j)
  BY <1>1, QueueAssumption
  DEF StartsInv, TypeOK, QueueTypeOK, WorkerTypeOK, Submit, EndBackoff, RecoverStalled, Enqueue,
      Promote, TakeBack, Holds, GivenUp, workerVars
<1>2. CASE \E s \in Slots, j \in Jobs : ClaimJob(s, j) /\ UNCHANGED doomed
  BY <1>2, QueueAssumption
  DEF StartsInv, TypeOK, QueueTypeOK, WorkerTypeOK, ClaimJob, Claim, GivenUp
<1>3. CASE \E s \in Slots, j \in Jobs : SlotStep(s, j) /\ UNCHANGED doomed
  <2> PICK s \in Slots, j \in Jobs : SlotStep(s, j)
    BY <1>3
  <2>1. CASE MidRun(s, j)
    BY <2>1, MidRunKeepsTheRun DEF StartsInv, queueVars, GivenUp
  <2>2. CASE EndOfRun(s, j)
    <3>1. CASE UNCHANGED queueVars
      BY <3>1, <2>2, EndOfRunReleasesTheSlot DEF StartsInv, queueVars, GivenUp
    <3>2. UNCHANGED starts
      BY <2>2, EndOfRunReleasesTheSlot
    <3>3. CASE EndRun(s, j, "completed")
      BY <3>2, <3>3, EndRunKeepsStartsInv DEF QueueState
    <3>4. CASE EndRun(s, j, "failed")
      BY <3>2, <3>4, EndRunKeepsStartsInv DEF QueueState
    <3>5. CASE Retry(s, j)
      BY <3>2, <3>5, EndRunKeepsStartsInv DEF Retry, QueueState
    <3> QED
      BY <3>1, <3>3, <3>4, <3>5, <2>2
      DEF EndOfRun, Complete, FailForGood, FailRefused, Refused
  <2> QED  BY <2>1, <2>2, SlotSteps
<1>4. CASE \E n \in Nodes : Restart(n)
  BY <1>4, RestartEndsRuns DEF StartsInv, GivenUp
<1>5. CASE UNCHANGED <<queueVars, starts>>
  BY <1>5 DEF StartsInv, queueVars, GivenUp
<1>6. CASE \E s \in Slots : LoseLock(s)
  BY <1>6 DEF LoseLock, DropLocks, StartsInv, GivenUp
<1> QED
  BY <1>1, <1>2, <1>3, <1>4, <1>5, <1>6
  DEF Next, Crash, ListenerFails, RecordFinalFailure, DeleteObject, DeleteJobs, DeleteJobsFails,
      vars, workerVars

LEMMA StartsInvHolds == Spec => []StartsInv
<1>1. Init => StartsInv
  <2> SUFFICES ASSUME Init, NEW j \in Jobs
               PROVE  StartsInv!(j)
    BY DEF StartsInv
  <2>1. /\ qstate[j] = "none" /\ attemptsMade[j] = 0
        /\ stalls[j] = 0 /\ starts[j] = 0
    BY DEF Init, QueueInit, WorkerInit
  <2> QED  BY <2>1, QueueAssumption
<1>2. TypeOK /\ StartsInv /\ [Next]_vars => StartsInv'
  BY StartsInvStep
<1> QED  BY <1>1, <1>2, TypeCorrect, PTL DEF Spec

\* The processor is started at most Attempts + MaxStalled times for one job.
THEOREM ProcessorStartsAreBoundedTheorem == Spec => []ProcessorStartsAreBounded
<1>1. StartsInv => ProcessorStartsAreBounded
  BY DEF StartsInv, ProcessorStartsAreBounded
<1> QED  BY <1>1, StartsInvHolds, PTL

-----------------------------------------------------------------------------
(* Why jobs end up dead.                                                   *)

\* A run of some job on this image stored its thumbnail and may delete it.
Replaced(img) == img \notin Preset /\ \E k \in uploaded : ImageOf[k] = img

\* The permanent errors.
Hopeless(j) ==
    \/ GivenUp(j)
    \/ ImageOf[j] \in Corrupt \cup (Images \ Provided)
    \/ Replaced(ImageOf[j])

\* An input leaves the disk only after its thumbnail was stored;  a slot throws
\* an UnrecoverableError only for a hopeless job, and hopeless it remains.
CauseInv ==
    /\ \A img \in Provided \ uploads : Replaced(img)
    /\ \A s \in Slots, j \in Jobs :
          Running(s, j) =>
              /\ pc[s] = "cleaning" => j \in uploaded
              /\ pc[s] \in {"quarantining", "aborting"} => Hopeless(j)
    /\ \A j \in Jobs :
          qstate[j] = "failed" => attemptsMade[j] >= Attempts \/ Hopeless(j)

\* What is uploaded, used up or given up stays so.
LEMMA HopelessIsForGood ==
  ASSUME TypeOK, [Next]_vars
  PROVE  /\ uploaded \subseteq uploaded'
         /\ uploads' \subseteq uploads
         /\ \A j \in Jobs : GivenUp(j) => GivenUp(j)'
<1>1. uploaded \subseteq uploaded' /\ uploads' \subseteq uploads
  BY StepIsOperation
  DEF fileVars, WriteThumbnail, uploadFiletoS3, RemoveLocalFiles, RemoveSomeFiles,
      deleteFileFromS3
<1>2. \A j \in Jobs : stalls'[j] >= stalls[j]
  BY StepIsOperation
  DEF TypeOK, QueueTypeOK, queueVars, Enqueue, Promote, TakeBack, Claim, EndRun, DropLocks
<1>3. \A j \in Jobs : GivenUp(j) => GivenUp(j)'
  BY <1>2, QueueAssumption, StepTypeOK DEF TypeOK, QueueTypeOK, GivenUp
<1> QED  BY <1>1, <1>3

\* Only the cleanup of a run takes an input away.
LEMMA InputsAreConsumed ==
  ASSUME TypeOK, [Next]_vars, NEW img \in uploads \ uploads'
  PROVE  /\ img \notin Preset
         /\ \E s \in Slots, j \in Jobs :
               Running(s, j) /\ pc[s] = "cleaning" /\ ImageOf[j] = img
<1>1. CASE \E s \in Slots, j \in Jobs : CleanUp(s, j)
  BY <1>1 DEF CleanUp, RemoveLocalFiles, RemoveSomeFiles, Consumed
<1>2. ASSUME NEW s \in Slots, NEW j \in Jobs, SlotStep(s, j), ~CleanUp(s, j)
      PROVE  UNCHANGED uploads
  BY <1>2
  DEF SlotStep, fileVars, QueryAnswers, QueryFails, CheckInput, Convert, WriteThumbnail, Upload,
      uploadFiletoS3, Complete, Retry, FailForGood, FailRefused
<1>3. CASE \E s \in Slots, j \in Jobs : SlotStep(s, j) /\ UNCHANGED doomed
  BY <1>1, <1>2, <1>3
<1>4. CASE ~\E s \in Slots, j \in Jobs : SlotStep(s, j) /\ UNCHANGED doomed
  BY <1>4
  DEF Next, vars, fileVars, Submit, EndBackoff, RecoverStalled, ClaimJob, RecordFinalFailure,
      ListenerFails, Restart, DeleteObject, deleteFileFromS3, DeleteJobs, DeleteJobsFails,
      LoseLock, Crash
<1> QED  BY <1>3, <1>4

\* Where a run stands, and why it came there.
LEMMA RunsHaveReasons ==
  ASSUME TypeOK, [Next]_vars, NEW s \in Slots, NEW j \in Jobs, Running(s, j)'
  PROVE  /\ pc'[s] = "cleaning" =>
               (Running(s, j) /\ pc[s] = "cleaning") \/ j \in uploaded'
         /\ pc'[s] \in {"quarantining", "aborting"} =>
               \/ Running(s, j) /\ pc[s] \in {"quarantining", "aborting"}
               \/ GivenUp(j) \/ ~InputExists(j) \/ ImageOf[j] \in Corrupt
<1> USE DEF TypeOK, WorkerTypeOK
<1>1. CASE \E t \in Slots, k \in Jobs : ClaimJob(t, k)
  BY <1>1 DEF ClaimJob, Running
<1>2. ASSUME NEW t \in Slots, NEW k \in Jobs, MidRun(t, k), s # t
      PROVE  Running(s, j) /\ pc'[s] = pc[s]
  BY <1>2, MidRunKeepsTheRun
<1>3. ASSUME NEW k \in Jobs, MidRun(s, k)
      PROVE  /\ pc'[s] = "cleaning" => j \in uploaded'
             /\ pc'[s] \in {"quarantining", "aborting"} =>
                   \/ Running(s, j) /\ pc[s] \in {"quarantining", "aborting"}
                   \/ ~InputExists(j) \/ ImageOf[j] \in Corrupt
  <2>1. Running(s, j) /\ k = j
    BY <1>3, MidRunKeepsTheRun DEF Running
  <2> QED
    BY <1>3, <2>1
    DEF MidRun, QueryAnswers, Query, AfterQuery, QueryFails, CheckInput, Convert, Upload, CleanUp,
        Goto, Caught, isPermanentError, uploadFiletoS3
<1>4. CASE \E t \in Slots, k \in Jobs : EndOfRun(t, k)
  BY <1>4, EndOfRunReleasesTheSlot
<1>5. CASE \E n \in Nodes : Restart(n)
  BY <1>5, RestartEndsRuns
<1>6. CASE UNCHANGED slotVars
  BY <1>6 DEF slotVars, Running
<1>7. CASE \E t \in Slots, k \in Jobs : MidRun(t, k)
  BY <1>2, <1>3, <1>7
<1> QED
  BY <1>1, <1>4, <1>5, <1>6, <1>7, SlotSteps
  DEF Next, Submit, EndBackoff, RecoverStalled, RecordFinalFailure, ListenerFails, DeleteObject,
      DeleteJobs, DeleteJobsFails, LoseLock, Crash, vars, workerVars, slotVars

\* A job fails with its last attempt or in a run that aborts.
LEMMA FailuresHaveReasons ==
  ASSUME TypeOK, [Next]_vars, NEW j \in Jobs, qstate'[j] = "failed"
  PROVE  \/ qstate[j] = "failed" /\ attemptsMade'[j] = attemptsMade[j]
         \/ attemptsMade'[j] >= Attempts
         \/ \E s \in Slots : Running(s, j) /\ pc[s] = "aborting"
<1> USE DEF TypeOK, QueueTypeOK
<1>1. CASE \E k \in Jobs : Submit(k) \/ EndBackoff(k) \/ RecoverStalled(k)
  BY <1>1 DEF Submit, EndBackoff, RecoverStalled, Enqueue, Promote, TakeBack
<1>2. CASE \E s \in Slots, k \in Jobs : ClaimJob(s, k)
  BY <1>2 DEF ClaimJob, Claim
<1>3. CASE \E s \in Slots, k \in Jobs : FailForGood(s, k)
  <2> PICK s \in Slots, k \in Jobs : FailForGood(s, k)
    BY <1>3
  <2>1. CASE k = j
    BY <2>1 DEF FailForGood, EndRun, LastAttempt
  <2>2. CASE k # j
    BY <2>2 DEF FailForGood, EndRun
  <2> QED  BY <2>1, <2>2
<1>4. ASSUME NEW s \in Slots, NEW k \in Jobs, EndOfRun(s, k), ~FailForGood(s, k)
      PROVE  qstate[j] = "failed" /\ attemptsMade'[j] = attemptsMade[j]
  BY <1>4
  DEF EndOfRun, Complete, Retry, FailRefused, Refused, EndRun, Holds, queueVars
<1>5. CASE UNCHANGED <<qstate, attemptsMade>>
  BY <1>5
<1>6. ASSUME \/ \E s \in Slots, k \in Jobs : MidRun(s, k)
             \/ \E n \in Nodes : Restart(n)
             \/ \E s \in Slots : LoseLock(s)
      PROVE  UNCHANGED <<qstate, attemptsMade>>
  BY <1>6, MidRunKeepsTheRun, RestartEndsRuns DEF queueVars, LoseLock, DropLocks
<1> QED
  BY <1>1, <1>2, <1>3, <1>4, <1>5, <1>6, SlotSteps
  DEF Next, RecordFinalFailure, ListenerFails, DeleteObject, DeleteJobs, DeleteJobsFails, Crash,
      vars, queueVars

LEMMA CauseInvStep ==
  ASSUME TypeOK, CauseInv, [Next]_vars
  PROVE  CauseInv'
<1>1. /\ uploaded \subseteq uploaded'
      /\ \A img : Replaced(img) => Replaced(img)'
      /\ \A j \in Jobs : Hopeless(j) => Hopeless(j)'
  BY HopelessIsForGood DEF Replaced, Hopeless
<1>2. \A img \in Provided \ uploads' : Replaced(img)'
  BY <1>1, InputsAreConsumed DEF CauseInv, Replaced
<1>3. \A j \in Jobs : GivenUp(j) \/ ~InputExists(j) \/ ImageOf[j] \in Corrupt => Hopeless(j)
  BY FileAssumption DEF CauseInv, InputExists, Hopeless
<1>4. ASSUME NEW s \in Slots, NEW j \in Jobs, Running(s, j)'
      PROVE  /\ pc'[s] = "cleaning" => j \in uploaded'
             /\ pc'[s] \in {"quarantining", "aborting"} => Hopeless(j)'
  BY <1>1, <1>3, <1>4, RunsHaveReasons DEF CauseInv
<1>5. ASSUME NEW j \in Jobs, qstate'[j] = "failed"
      PROVE  attemptsMade'[j] >= Attempts \/ Hopeless(j)'
  BY <1>1, <1>5, FailuresHaveReasons DEF CauseInv
<1> QED  BY <1>2, <1>4, <1>5 DEF CauseInv

\* Every job in the dead-letter state has one of the reasons DeadLetterHasCause
\* lists.
THEOREM DeadLetterHasCauseTheorem == Spec => []DeadLetterHasCause
<1>1. Init => CauseInv
  BY DEF Init, QueueInit, FileInit, WorkerInit, CauseInv, Running
<1>2. TypeOK /\ CauseInv /\ [Next]_vars => CauseInv'
  BY CauseInvStep
<1>3. CauseInv => DeadLetterHasCause
  BY DEF CauseInv, DeadLetterHasCause, Hopeless, Replaced
<1> QED  BY <1>1, <1>2, <1>3, TypeCorrect, PTL DEF Spec

-----------------------------------------------------------------------------
(* Completed rows and the bucket.                                          *)

\* From the PUT to the query that records it, the object is there;  only a
\* DELETE handler takes objects away, and only those of rows it removed.
ThumbnailInv ==
    /\ CompletedHasThumbnail
    /\ \A s \in Slots, j \in Jobs :
          Running(s, j) /\ pc[s] \in {"cleaning", "completing"} /\ j \notin purged =>
              j \in objects
    /\ \A n \in Nodes : doomed[n] \subseteq purged

\* A slot reaches the completing query only behind a PUT.
LEMMA MidRunKeepsObjects ==
  ASSUME TypeOK, ThumbnailInv, NEW s \in Slots, NEW j \in Jobs, MidRun(s, j)
  PROVE  /\ objects \subseteq objects'
         /\ UNCHANGED purged
         /\ pc'[s] \in {"cleaning", "completing"} /\ j \notin purged => j \in objects'
         /\ \A k \in Jobs : status'[k] = "completed" =>
               \/ status[k] = "completed"
               \/ k = j /\ pc[s] = "completing" /\ j \in thumbnail'
         /\ thumbnail \subseteq thumbnail'
<1> USE DEF TypeOK, WorkerTypeOK, StoreTypeOK, ThumbnailInv, Goto, Caught, isPermanentError
<1>1. CASE QueryAnswers(s, j) \/ QueryFails(s, j)
  <2>1. UNCHANGED objects
    BY <1>1 DEF QueryAnswers, QueryFails, fileVars
  <2>2. UNCHANGED storeVars \/ Query(s, j)
    BY <1>1 DEF QueryAnswers, QueryFails
  <2>3. UNCHANGED purged /\ thumbnail \subseteq thumbnail'
    BY <2>2 DEF Query, storeVars, insertJob, markJobInProgress, markJobCompleted, markJobFailed
  <2>4. \A k \in Jobs : status'[k] = "completed" =>
               \/ status[k] = "completed"
               \/ k = j /\ pc[s] = "completing" /\ j \in thumbnail'
    BY <2>2
    DEF Query, storeVars, insertJob, markJobInProgress, markJobCompleted, markJobFailed,
        UpdateStatus, HasRow
  <2>5. pc'[s] \notin {"cleaning", "completing"}
    BY <1>1 DEF QueryAnswers, QueryFails, Query, AfterQuery
  <2> QED  BY <2>1, <2>3, <2>4, <2>5
<1>2. CASE CheckInput(s, j) \/ Convert(s, j)
  BY <1>2 DEF CheckInput, Convert, WriteThumbnail, fileVars, storeVars
<1>3. CASE Upload(s, j) \/ CleanUp(s, j)
  BY <1>3
  DEF Upload, CleanUp, uploadFiletoS3, RemoveLocalFiles, RemoveSomeFiles, fileVars, storeVars
<1> QED  BY <1>1, <1>2, <1>3 DEF MidRun

\* A removal only widens `purged' and takes away what it removes.
LEMMA RemovalKeepsThumbnails ==
  ASSUME TypeOK, CompletedHasThumbnail, NEW ids \in SUBSET Jobs, Removal(ids), UNCHANGED objects
  PROVE  /\ CompletedHasThumbnail'
         /\ purged \subseteq purged'
         /\ thumbnail \ thumbnail' \subseteq purged'
  BY DEF TypeOK, StoreTypeOK, CompletedHasThumbnail, Removal, deleteJobsByIds,
         deleteAllFinishedJobs, DeleteRows, HasRow

LEMMA ThumbnailInvStep ==
  ASSUME TypeOK, ThumbnailInv, [Next]_vars
  PROVE  ThumbnailInv'
<1> USE DEF ThumbnailInv
<1>1. CASE \E j \in Jobs : Submit(j) \/ EndBackoff(j) \/ RecoverStalled(j)
  BY <1>1
  DEF Submit, EndBackoff, RecoverStalled, CompletedHasThumbnail, Running, storeVars, fileVars,
      workerVars
<1>2. CASE \E s \in Slots, j \in Jobs : ClaimJob(s, j) /\ UNCHANGED doomed
  BY <1>2
  DEF TypeOK, WorkerTypeOK, ClaimJob, CompletedHasThumbnail, Running, storeVars, fileVars
<1>3. CASE \E s \in Slots, j \in Jobs : SlotStep(s, j) /\ UNCHANGED doomed
  <2> PICK s \in Slots, j \in Jobs : SlotStep(s, j) /\ UNCHANGED doomed
    BY <1>3
  <2>1. CASE MidRun(s, j)
    <3>1. CompletedHasThumbnail'
      BY <2>1, MidRunKeepsObjects, MidRunKeepsTheRun DEF CompletedHasThumbnail
    <3>2. \A t \in Slots, k \in Jobs :
             (Running(t, k) /\ pc[t] \in {"cleaning", "completing"} /\ k \notin purged)'
                 => k \in objects'
      BY <2>1, MidRunKeepsObjects, MidRunKeepsTheRun DEF Running
    <3> QED  BY <2>1, <3>1, <3>2, MidRunKeepsObjects
  <2>2. CASE EndOfRun(s, j)
    BY <2>2, EndOfRunReleasesTheSlot DEF CompletedHasThumbnail, storeVars, fileVars
  <2> QED  BY <2>1, <2>2, SlotSteps
<1>4. CASE \E n \in Nodes, j \in Jobs : RecordFinalFailure(n, j) /\ UNCHANGED doomed
  BY <1>4
  DEF TypeOK, StoreTypeOK, RecordFinalFailure, markJobFailed, UpdateStatus, CompletedHasThumbnail,
      Running, fileVars, slotVars
<1>5. CASE \E n \in Nodes, j \in Jobs : ListenerFails(n, j)
  <2> PICK n \in Nodes, j \in Jobs : ListenerFails(n, j)
    BY <1>5
  <2>1. Restart(n)
    BY DEF ListenerFails
  <2>2. UNCHANGED <<thumbnail, purged>>
    BY DEF ListenerFails, markJobFailed, storeVars
  <2>3. \A k \in Jobs : status'[k] = "completed" => status[k] = "completed"
    BY DEF ListenerFails, markJobFailed, UpdateStatus, storeVars, TypeOK, StoreTypeOK
  <2> QED
    BY <2>1, <2>2, <2>3, RestartEndsRuns
    DEF CompletedHasThumbnail, fileVars, TypeOK
<1>6. CASE \E n \in Nodes, j \in Jobs : DeleteObject(n, j)
  BY <1>6
  DEF TypeOK, DeleteObject, deleteFileFromS3, CompletedHasThumbnail, Running, storeVars, fileVars,
      slotVars
<1>7. CASE \E n \in Nodes, ids \in SUBSET Jobs \ {{}} : DeleteJobs(n, ids)
  BY <1>7, RemovalKeepsThumbnails DEF TypeOK, DeleteJobs, Running, fileVars, slotVars
<1>8. CASE \E ids \in SUBSET Jobs \ {{}} : DeleteJobsFails(ids)
  BY <1>8, RemovalKeepsThumbnails DEF DeleteJobsFails, Running, fileVars, slotVars
<1>9. CASE \E s \in Slots : LoseLock(s)
  BY <1>9 DEF LoseLock, CompletedHasThumbnail, Running, storeVars, fileVars, slotVars
<1>10. CASE \E n \in Nodes : Crash(n)
  BY <1>10, RestartEndsRuns DEF Crash, CompletedHasThumbnail, storeVars, fileVars, TypeOK
<1>11. CASE UNCHANGED vars
  BY <1>11 DEF vars, CompletedHasThumbnail, Running, storeVars, fileVars, workerVars
<1> QED
  BY <1>1, <1>2, <1>3, <1>4, <1>5, <1>6, <1>7, <1>8, <1>9, <1>10, <1>11 DEF Next

LEMMA ThumbnailInvHolds == Spec => []ThumbnailInv
<1>1. Init => ThumbnailInv
  BY DEF Init, StoreInit, WorkerInit, ThumbnailInv, CompletedHasThumbnail, Running
<1>2. TypeOK /\ ThumbnailInv /\ [Next]_vars => ThumbnailInv'
  BY ThumbnailInvStep
<1> QED  BY <1>1, <1>2, TypeCorrect, PTL DEF Spec

\* A row that reads "completed" has its object, unless the job was deleted.
THEOREM CompletedHasThumbnailTheorem == Spec => []CompletedHasThumbnail
<1>1. ThumbnailInv => CompletedHasThumbnail
  BY DEF ThumbnailInv
<1> QED  BY <1>1, ThumbnailInvHolds, PTL

-----------------------------------------------------------------------------
(* The queue and the table.                                                *)

\* The steps of a run behind its insertJob.
HasInserted == {"marking", "checking", "converting", "uploading", "cleaning", "completing",
                "acking"}

\* Before the queue calls a job completed its slot has written the row, which
\* is there because the run began by inserting it;  a listener is pending only
\* for a job that failed, or was abandoned.  (A step of Next takes no failed job
\* out of the queue, but the script of module CleanAll does.)
AgreeInv ==
    /\ QueueAndRowAgree
    /\ \A s \in Slots, j \in Jobs :
          Running(s, j) =>
              /\ pc[s] \in HasInserted => HasRow(j) \/ j \in purged
              /\ pc[s] = "acking" => status[j] = "completed" \/ j \in abandoned \cup purged
    /\ \A n \in Nodes : \A j \in handlers[n] : qstate[j] = "failed" \/ j \in abandoned

\* A step in the middle of a run writes the row of its own job only.
LEMMA MidRunWrites ==
  ASSUME TypeOK, AgreeInv, NEW s \in Slots, NEW j \in Jobs, MidRun(s, j)
  PROVE  /\ UNCHANGED purged
         /\ \A k \in Jobs \ {j} : status'[k] = status[k]
         /\ HasRow(j) => HasRow(j)'
         /\ pc'[s] \in HasInserted => HasRow(j)' \/ j \in purged
         /\ pc'[s] = "acking" => status'[j] = "completed" \/ j \in purged
<1> USE DEF TypeOK, StoreTypeOK, WorkerTypeOK, HasRow, HasInserted, Goto, Caught, isPermanentError
<1>0. Running(s, j)
  BY MidRunKeepsTheRun
<1>1. CASE QueryAnswers(s, j)
  BY <1>0, <1>1
  DEF AgreeInv, QueryAnswers, Query, AfterQuery, insertJob, markJobInProgress, markJobCompleted,
      markJobFailed, UpdateStatus
<1>2. CASE QueryFails(s, j)
  BY <1>0, <1>2
  DEF QueryFails, Query, insertJob, markJobInProgress, markJobCompleted, markJobFailed,
      UpdateStatus, storeVars
<1>3. CASE CheckInput(s, j) \/ Convert(s, j) \/ Upload(s, j) \/ CleanUp(s, j)
  BY <1>0, <1>3 DEF AgreeInv, CheckInput, Convert, Upload, CleanUp, storeVars
<1> QED  BY <1>1, <1>2, <1>3 DEF MidRun

LEMMA MidRunKeepsAgreement ==
  ASSUME TypeOK, RunsAreExclusive, AgreeInv, NEW s \in Slots, NEW j \in Jobs, MidRun(s, j)
  PROVE  AgreeInv'
<1> USE MidRunKeepsTheRun, MidRunWrites
<1>1. /\ UNCHANGED <<qstate, owner, abandoned, handlers, dropped>>
      /\ \A k \in Jobs : Pending(k)' = Pending(k)
  BY DEF queueVars, Pending
<1>2. j \notin abandoned => qstate[j] = "active"
  BY DEF RunsAreExclusive, Holds
<1>3. QueueAndRowAgree'
  BY <1>1, <1>2 DEF AgreeInv, QueueAndRowAgree
<1>4. ASSUME NEW t \in Slots, NEW k \in Jobs, Running(t, k)'
      PROVE  /\ pc'[t] \in HasInserted => HasRow(k)' \/ k \in purged'
             /\ pc'[t] = "acking" => status'[k] = "completed" \/ k \in (abandoned \cup purged)'
  <2>1. CASE t = s
    BY <1>1, <1>4, <2>1 DEF Running
  <2>2. CASE t # s /\ k # j
    BY <1>1, <1>4, <2>2 DEF AgreeInv, HasRow
  <2>3. CASE t # s /\ k = j
    <3>1. j \in abandoned
      BY <1>4, <2>3 DEF RunsAreExclusive, Holds
    <3> QED  BY <1>1, <1>4, <2>3, <3>1 DEF AgreeInv
  <2> QED  BY <2>1, <2>2, <2>3
<1> QED  BY <1>1, <1>3, <1>4 DEF AgreeInv

\* The end of a run: the job completes behind its row, or fails and leaves a
\* listener pending.
LEMMA EndOfRunKeepsAgreement ==
  ASSUME TypeOK, RunsAreExclusive, AgreeInv, NEW s \in Slots, NEW j \in Jobs, EndOfRun(s, j)
  PROVE  AgreeInv'
<1> USE DEF TypeOK, QueueTypeOK, WorkerTypeOK
<1>1. /\ UNCHANGED <<abandoned, purged, dropped, status>>
      /\ \A k \in Jobs : HasRow(k)' = HasRow(k)
  BY EndOfRunReleasesTheSlot DEF EndRun, queueVars, storeVars, HasRow
<1>2. \A t \in Slots, k \in Jobs :
         Running(t, k)' =>
             /\ pc'[t] \in HasInserted => HasRow(k)' \/ k \in purged'
             /\ pc'[t] = "acking" => status'[k] = "completed" \/ k \in (abandoned \cup purged)'
  BY <1>1, EndOfRunReleasesTheSlot DEF AgreeInv
<1>3. CASE Complete(s, j) \/ Retry(s, j) \/ FailRefused(s, j)
  <2>1. UNCHANGED handlers
    BY <1>3 DEF Complete, Retry, FailRefused
  <2>2. \A k \in Jobs : qstate'[k] = "failed" <=> qstate[k] = "failed"
    BY <1>3 DEF Complete, Retry, FailRefused, Refused, EndRun, Holds, queueVars
  <2>3. \A k \in Jobs :
           qstate'[k] = "completed" => qstate[k] = "completed" \/ (k = j /\ pc[s] = "acking")
    BY <1>3 DEF Complete, Retry, FailRefused, Refused, EndRun, Holds, queueVars
  <2>4. QueueAndRowAgree'
    <3>1. \A k \in Jobs : Pending(k)' = Pending(k)
      BY <2>1 DEF Pending
    <3>2. pc[s] = "acking" => status[j] = "completed" \/ j \in abandoned \cup purged
      BY EndOfRunReleasesTheSlot DEF AgreeInv
    <3> QED  BY <1>1, <2>2, <2>3, <3>1, <3>2 DEF AgreeInv, QueueAndRowAgree
  <2>5. \A n \in Nodes : \A k \in handlers'[n] : qstate'[k] = "failed" \/ k \in abandoned'
    BY <1>1, <2>1, <2>2 DEF AgreeInv
  <2> QED  BY <1>2, <2>4, <2>5 DEF AgreeInv
<1>4. CASE FailForGood(s, j)
  <2>1. /\ handlers' = [handlers EXCEPT ![NodeOf[s]] = @ \cup {j}]
        /\ qstate' = [qstate EXCEPT ![j] = "failed"]
        /\ NodeOf[s] \in Nodes
    BY <1>4, WorkerAssumption DEF FailForGood, EndRun
  <2>2. Pending(j)' /\ \A k \in Jobs : Pending(k) => Pending(k)'
    BY <2>1 DEF Pending
  <2>3. QueueAndRowAgree'
    BY <1>1, <2>1, <2>2 DEF AgreeInv, QueueAndRowAgree
  <2>4. \A n \in Nodes : \A k \in handlers'[n] : qstate'[k] = "failed" \/ k \in abandoned'
    BY <1>1, <2>1 DEF AgreeInv
  <2> QED  BY <1>2, <2>3, <2>4 DEF AgreeInv
<1> QED  BY <1>3, <1>4 DEF EndOfRun

\* A listener that ran its query left the row "failed", if there is one.
LEMMA ListenerKeepsAgreement ==
  ASSUME TypeOK, RunsAreExclusive, AgreeInv, NEW n \in Nodes, NEW j \in handlers[n],
         UNCHANGED <<qstate, purged>>,
         abandoned \subseteq abandoned',
         \A t \in Slots, k \in Jobs : Running(t, k)' => Running(t, k) /\ pc'[t] = pc[t],
         \/ /\ markJobFailed(j)
            /\ \A m \in Nodes, k \in Jobs \ {j} :
                  k \in handlers[m] => k \in handlers'[m] \/ k \in dropped'
         \/ /\ UNCHANGED status
            /\ \A m \in Nodes, k \in Jobs :
                  k \in handlers[m] => k \in handlers'[m] \/ k \in dropped',
         \A m \in Nodes : handlers'[m] \subseteq handlers[m],
         dropped \subseteq dropped'
  PROVE  AgreeInv'
<1> USE DEF TypeOK, StoreTypeOK, WorkerTypeOK
<1>1. j \in Jobs /\ (qstate[j] = "failed" \/ j \in abandoned)
  BY DEF AgreeInv
<1>2. /\ \A k \in Jobs \ {j} : status'[k] = status[k]
      /\ status'[j] = status[j] \/ status'[j] = "failed"
      /\ \A k \in Jobs : HasRow(k)' <=> HasRow(k)
  BY <1>1 DEF markJobFailed, UpdateStatus, HasRow
<1>3. \A t \in Slots : Running(t, j) => j \in abandoned
  BY <1>1 DEF RunsAreExclusive, Holds
<1>4. \A t \in Slots, k \in Jobs :
         Running(t, k)' =>
             /\ pc'[t] \in HasInserted => HasRow(k)' \/ k \in purged'
             /\ pc'[t] = "acking" => status'[k] = "completed" \/ k \in (abandoned \cup purged)'
  BY <1>2, <1>3 DEF AgreeInv
<1>5. \A k \in Jobs \ {j} : Pending(k) => Pending(k)' \/ k \in dropped'
  BY DEF Pending
<1>6. CASE markJobFailed(j)
  <2>1. status'[j] \in {"failed", "absent"}
    BY <1>1, <1>6 DEF markJobFailed, UpdateStatus, HasRow
  <2>2. QueueAndRowAgree'
    BY <1>1, <1>2, <1>5, <2>1 DEF AgreeInv, QueueAndRowAgree
  <2> QED  BY <1>4, <2>2 DEF AgreeInv
<1>7. CASE ~markJobFailed(j)
  <2>1. \A k \in Jobs : Pending(k) => Pending(k)' \/ k \in dropped'
    BY <1>7 DEF Pending
  <2>2. QueueAndRowAgree'
    BY <1>7, <2>1 DEF AgreeInv, QueueAndRowAgree
  <2> QED  BY <1>4, <2>2 DEF AgreeInv
<1> QED  BY <1>6, <1>7

\* Removing rows excuses the jobs it removes and touches no other.
LEMMA RemovalKeepsAgreement ==
  ASSUME TypeOK, AgreeInv, NEW ids \in SUBSET Jobs, Removal(ids),
         UNCHANGED <<queueVars, slotVars, handlers, dropped>>
  PROVE  AgreeInv'
<1>1. /\ purged \subseteq purged'
      /\ \A k \in Jobs : k \in purged' \/ status'[k] = status[k]
  BY DEF Removal, deleteJobsByIds, deleteAllFinishedJobs, DeleteRows
<1> QED
  BY <1>1
  DEF AgreeInv, QueueAndRowAgree, Pending, HasRow, Running, queueVars, slotVars

LEMMA AgreeInvStep ==
  ASSUME TypeOK, RunsAreExclusive, AgreeInv, [Next]_vars
  PROVE  AgreeInv'
<1>1. CASE \E j \in Jobs : Submit(j) \/ EndBackoff(j) \/ RecoverStalled(j)
  <2>1. UNCHANGED <<storeVars, slotVars, handlers, dropped, abandoned>>
    BY <1>1
    DEF Submit, EndBackoff, RecoverStalled, Enqueue, Promote, TakeBack, workerVars, slotVars
  <2>2. \A k \in Jobs : /\ qstate'[k] = "failed" <=> qstate[k] = "failed"
                        /\ qstate'[k] = "completed" => qstate[k] = "completed"
    BY <1>1
    DEF TypeOK, QueueTypeOK, Submit, EndBackoff, RecoverStalled, Enqueue, Promote, TakeBack, Holds
  <2> QED
    BY <2>1, <2>2
    DEF AgreeInv, QueueAndRowAgree, Pending, HasRow, Running, storeVars, slotVars, TypeOK,
        WorkerTypeOK
<1>2. CASE \E s \in Slots, j \in Jobs : ClaimJob(s, j) /\ UNCHANGED doomed
  <2> PICK s \in Slots, j \in Jobs : ClaimJob(s, j)
    BY <1>2
  <2>1. UNCHANGED <<storeVars, handlers, dropped, abandoned>>
    BY DEF ClaimJob, Claim
  <2>2. \A k \in Jobs : /\ qstate'[k] = "failed" <=> qstate[k] = "failed"
                        /\ qstate'[k] = "completed" => qstate[k] = "completed"
    BY DEF TypeOK, QueueTypeOK, ClaimJob, Claim
  <2>3. /\ pc'[s] \notin HasInserted
        /\ \A t \in Slots \ {s} : pc'[t] = pc[t] /\ jobOf'[t] = jobOf[t]
    BY DEF ClaimJob, HasInserted, TypeOK, WorkerTypeOK
  <2>4. "acking" \in HasInserted
    BY DEF HasInserted
  <2> QED
    BY <2>1, <2>2, <2>3, <2>4
    DEF AgreeInv, QueueAndRowAgree, Pending, HasRow, Running, storeVars, TypeOK, WorkerTypeOK
<1>3. CASE \E s \in Slots, j \in Jobs : SlotStep(s, j) /\ UNCHANGED doomed
  BY <1>3, SlotSteps, MidRunKeepsAgreement, EndOfRunKeepsAgreement
<1>4. CASE \E n \in Nodes, j \in Jobs : RecordFinalFailure(n, j) /\ UNCHANGED doomed
  <2> PICK n \in Nodes, j \in Jobs : RecordFinalFailure(n, j)
    BY <1>4
  <2>1. /\ j \in handlers[n] /\ markJobFailed(j) /\ UNCHANGED <<qstate, purged, abandoned, dropped>>
        /\ \A t \in Slots, k \in Jobs : Running(t, k)' => Running(t, k) /\ pc'[t] = pc[t]
    BY DEF RecordFinalFailure, markJobFailed, Running, queueVars, slotVars
  <2>2. /\ \A m \in Nodes, k \in Jobs \ {j} : k \in handlers[m] => k \in handlers'[m]
        /\ \A m \in Nodes : handlers'[m] \subseteq handlers[m]
    BY DEF RecordFinalFailure, TypeOK, WorkerTypeOK
  <2> QED  BY <2>1, <2>2, ListenerKeepsAgreement
<1>5. CASE \E n \in Nodes, j \in Jobs : ListenerFails(n, j)
  <2> PICK n \in Nodes, j \in Jobs : ListenerFails(n, j)
    BY <1>5
  <2>1. Restart(n)
    BY DEF ListenerFails
  <2>2. /\ j \in handlers[n] /\ UNCHANGED <<qstate, purged>>
        /\ abandoned \subseteq abandoned' /\ dropped \subseteq dropped'
        /\ \A t \in Slots, k \in Jobs : Running(t, k)' => Running(t, k) /\ pc'[t] = pc[t]
        /\ \A m \in Nodes : handlers'[m] \subseteq handlers[m]
    BY <2>1, RestartEndsRuns DEF ListenerFails, markJobFailed, storeVars, TypeOK, WorkerTypeOK
  <2>3. CASE /\ markJobFailed(j)
             /\ dropped' = dropped \cup (handlers[n] \ {j})
    <3>1. \A m \in Nodes, k \in Jobs \ {j} :
             k \in handlers[m] => k \in handlers'[m] \/ k \in dropped'
      BY <2>1, <2>3, RestartEndsRuns DEF TypeOK, WorkerTypeOK
    <3> QED  BY <2>2, <2>3, <3>1, ListenerKeepsAgreement
  <2>4. CASE /\ UNCHANGED storeVars
             /\ dropped' = dropped \cup handlers[n]
    <3>1. \A m \in Nodes, k \in Jobs :
             k \in handlers[m] => k \in handlers'[m] \/ k \in dropped'
      BY <2>1, <2>4, RestartEndsRuns DEF TypeOK, WorkerTypeOK
    <3>2. UNCHANGED status
      BY <2>4 DEF storeVars
    <3> QED  BY <2>2, <2>4, <3>1, <3>2, ListenerKeepsAgreement
  <2> QED  BY <2>3, <2>4 DEF ListenerFails
<1>6. CASE \E n \in Nodes : Crash(n)
  <2> PICK n \in Nodes : Crash(n)
    BY <1>6
  <2>1. Restart(n) /\ dropped' = dropped \cup handlers[n] /\ UNCHANGED storeVars
    BY DEF Crash
  <2>2. \A k \in Jobs : Pending(k) => Pending(k)' \/ k \in dropped'
    BY <2>1, RestartEndsRuns DEF Pending, TypeOK, WorkerTypeOK
  <2>3. \A m \in Nodes : handlers'[m] \subseteq handlers[m]
    BY <2>1, RestartEndsRuns DEF TypeOK, WorkerTypeOK
  <2> QED
    BY <2>1, <2>2, <2>3, RestartEndsRuns DEF AgreeInv, QueueAndRowAgree, HasRow, storeVars
<1>7. CASE \/ \E n \in Nodes, ids \in SUBSET Jobs \ {{}} : DeleteJobs(n, ids)
           \/ \E ids \in SUBSET Jobs \ {{}} : DeleteJobsFails(ids)
  BY <1>7, RemovalKeepsAgreement DEF DeleteJobs, DeleteJobsFails
<1>8. CASE \E s \in Slots : LoseLock(s)
  BY <1>8
  DEF LoseLock, DropLocks, AgreeInv, QueueAndRowAgree, Pending, HasRow, Running, storeVars, slotVars
<1>9. CASE UNCHANGED <<queueVars, slotVars, storeVars, handlers, dropped>>
  BY <1>9
  DEF AgreeInv, QueueAndRowAgree, Pending, HasRow, Running, queueVars, storeVars, slotVars
<1> QED
  BY <1>1, <1>2, <1>3, <1>4, <1>5, <1>6, <1>7, <1>8, <1>9
  DEF Next, DeleteObject, vars, workerVars, slotVars

LEMMA AgreeInvHolds == Spec => []AgreeInv
<1>1. Init => AgreeInv
  BY DEF Init, QueueInit, WorkerInit, AgreeInv, QueueAndRowAgree, Running
<1>2. TypeOK /\ RunsAreExclusive /\ AgreeInv /\ [Next]_vars => AgreeInv'
  BY AgreeInvStep
<1> QED  BY <1>1, <1>2, TypeCorrect, RunsAreExclusiveTheorem, PTL DEF Spec

\* The queue and the table agree on how a job ended.
THEOREM QueueAndRowAgreeTheorem == Spec => []QueueAndRowAgree
<1>1. AgreeInv => QueueAndRowAgree
  BY DEF AgreeInv
<1> QED  BY <1>1, AgreeInvHolds, PTL

-----------------------------------------------------------------------------
(* Every run comes to an end.  Liveness is beyond these provers, but what it *)
(* rests on is not: as long as a job has not ended, some actor is to make the *)
(* next step, and there is a number that every such step lowers.             *)

\* A lock belongs to an active job, and the slot that holds it runs that job.
\* Nobody would take back, or go on with, a job that has the lock of a slot
\* that runs something else.
LocksAreHeldByRuns ==
    \A j \in Jobs :
        owner[j] # NoSlot => qstate[j] = "active" /\ Running(owner[j], j)

\* How far a run is from its end, at most.
StepsToGo(at) ==
    CASE at = "inserting"    -> 13
      [] at = "marking"      -> 12
      [] at = "checking"     -> 11
      [] at = "converting"   -> 10
      [] at = "uploading"    -> 9
      [] at = "cleaning"     -> 8
      [] at = "completing"   -> 7
      [] at = "quarantining" -> 4
      [] at = "acking"       -> 3
      [] at = "failing"      -> 3
      [] at = "aborting"     -> 2
      [] at = "idle"         -> 1

\* The same for a job, within one round of waiting and running ...
ToGo(j) ==
    CASE qstate[j] = "none"    -> 17
      [] qstate[j] = "delayed" -> 15
      [] qstate[j] = "waiting" -> 14
      [] qstate[j] = "active"  -> IF owner[j] = NoSlot THEN 16 ELSE StepsToGo(pc[owner[j]])
      [] OTHER                 -> 0

\* ... and how many rounds there can be: a round ends with an attempt made, or
\* with a failure.
FailuresLeft == left["fault"] + left["crash"] + left["lock"]

Rounds(j) == (Attempts - attemptsMade[j]) + FailuresLeft

Rank(j) == 18 * Rounds(j) + ToGo(j)

\* What the queue and the holder of its lock have of job j.
ConcernOf(j) ==
    <<qstate[j], attemptsMade[j], stalls[j], owner[j],
      IF owner[j] = NoSlot THEN "idle" ELSE pc[owner[j]]>>

\* A step that does anything to job j lowers its rank, and no step raises it.
JobComesNearer(j) ==
    /\ Rank(j)' <= Rank(j)
    /\ ConcernOf(j)' = ConcernOf(j) \/ Rank(j)' < Rank(j)

\* A slot that does not begin a run comes nearer the end of the one it is in,
\* also when it has lost its lock.
SlotComesNearer(s) ==
    \/ pc'[s] = pc[s]
    \/ StepsToGo(pc'[s]) < StepsToGo(pc[s])
    \/ \E j \in Jobs : ClaimJob(s, j)

ComesNearer == (\A j \in Jobs : JobComesNearer(j)) /\ (\A s \in Slots : SlotComesNearer(s))

LEMMA LocksAreHeldByRunsStep ==
  ASSUME TypeOK, LocksAreHeldByRuns, [Next]_vars
  PROVE  LocksAreHeldByRuns'
<1> USE DEF LocksAreHeldByRuns
<1>1. CASE \E j \in Jobs : Submit(j) \/ EndBackoff(j) \/ RecoverStalled(j)
  BY <1>1
  DEF TypeOK, QueueTypeOK, Submit, EndBackoff, RecoverStalled, Enqueue, Promote, TakeBack,
      Holds, Running, workerVars
<1>2. CASE \E s \in Slots, j \in Jobs : ClaimJob(s, j) /\ UNCHANGED doomed
  BY <1>2
  DEF TypeOK, QueueTypeOK, WorkerTypeOK, ClaimJob, Claim, Running
<1>3. CASE \E s \in Slots, j \in Jobs : SlotStep(s, j) /\ UNCHANGED doomed
  <2> PICK s \in Slots, j \in Jobs : SlotStep(s, j)
    BY <1>3
  <2>1. CASE MidRun(s, j)
    BY <2>1, MidRunKeepsTheRun DEF queueVars, TypeOK, QueueTypeOK
  <2>2. CASE EndOfRun(s, j)
    BY <2>2, EndOfRunReleasesTheSlot
    DEF TypeOK, QueueTypeOK, EndRun, Holds, Running, queueVars
  <2> QED  BY <2>1, <2>2, SlotSteps
<1>4. CASE \E n \in Nodes, j \in Jobs : RecordFinalFailure(n, j) /\ UNCHANGED doomed
  BY <1>4 DEF RecordFinalFailure, Running, queueVars, slotVars
<1>5. CASE \E n \in Nodes : Restart(n)
  BY <1>5 DEF Restart, DropLocks, Running, TypeOK, QueueTypeOK, WorkerTypeOK
<1>6. CASE \E n \in Nodes, j \in Jobs : DeleteObject(n, j)
  BY <1>6 DEF DeleteObject, Running, queueVars, slotVars
<1>7. CASE \/ \E n \in Nodes, ids \in SUBSET Jobs \ {{}} : DeleteJobs(n, ids)
           \/ \E ids \in SUBSET Jobs \ {{}} : DeleteJobsFails(ids)
  BY <1>7 DEF DeleteJobs, DeleteJobsFails, Running, queueVars, slotVars
<1>8. CASE \E s \in Slots : LoseLock(s)
  BY <1>8 DEF TypeOK, QueueTypeOK, LoseLock, DropLocks, Running, slotVars
<1>9. CASE UNCHANGED vars
  BY <1>9 DEF vars, workerVars, queueVars, Running
<1> QED
  BY <1>1, <1>2, <1>3, <1>4, <1>5, <1>6, <1>7, <1>8, <1>9 DEF Next, Crash, ListenerFails

\* An active job is always somebody's: of the slot that runs it, or of the sweep.
THEOREM LocksAreHeldByRunsTheorem == Spec => []LocksAreHeldByRuns
<1>1. Init => LocksAreHeldByRuns
  BY DEF Init, QueueInit, LocksAreHeldByRuns
<1>2. TypeOK /\ LocksAreHeldByRuns /\ [Next]_vars => LocksAreHeldByRuns'
  BY LocksAreHeldByRunsStep
<1> QED  BY <1>1, <1>2, TypeCorrect, PTL DEF Spec

LEMMA StepsToGoValues ==
  /\ StepsToGo("inserting") = 13 /\ StepsToGo("marking") = 12 /\ StepsToGo("checking") = 11
  /\ StepsToGo("converting") = 10 /\ StepsToGo("uploading") = 9 /\ StepsToGo("cleaning") = 8
  /\ StepsToGo("completing") = 7 /\ StepsToGo("quarantining") = 4 /\ StepsToGo("acking") = 3
  /\ StepsToGo("failing") = 3 /\ StepsToGo("aborting") = 2 /\ StepsToGo("idle") = 1
  /\ \A at \in PC : StepsToGo(at) \in 1..13
  BY DEF StepsToGo, PC

LEMMA ToGoValues ==
  ASSUME NEW j \in Jobs, TypeOK
  PROVE  /\ qstate[j] = "none" => ToGo(j) = 17
         /\ qstate[j] = "delayed" => ToGo(j) = 15
         /\ qstate[j] = "waiting" => ToGo(j) = 14
         /\ qstate[j] = "active" /\ owner[j] = NoSlot => ToGo(j) = 16
         /\ qstate[j] = "active" /\ owner[j] # NoSlot => ToGo(j) = StepsToGo(pc[owner[j]])
         /\ qstate[j] \in {"completed", "failed"} => ToGo(j) = 0
         /\ ToGo(j) \in 0..17
<1>1. qstate[j] \in QueueState /\ owner[j] \in Slots \cup {NoSlot}
  BY DEF TypeOK, QueueTypeOK
<1>2. owner[j] # NoSlot => StepsToGo(pc[owner[j]]) \in 0..17
  BY <1>1, StepsToGoValues DEF TypeOK, WorkerTypeOK
<1> QED
  BY <1>1, <1>2 DEF ToGo, QueueState

LEMMA ToGoIsBounded == TypeOK => \A j \in Jobs : ToGo(j) \in 0..17
  BY ToGoValues

LEMMA ToGoStaysBounded == TypeOK' => (\A j \in Jobs : ToGo(j) \in 0..17)'
  BY ToGoIsBounded, PTL

\* The steps within a run go one way, and cost no more than a failure.
LEMMA MidRunComesNearer ==
  ASSUME TypeOK, NEW s \in Slots, NEW j \in Jobs, MidRun(s, j)
  PROVE  /\ StepsToGo(pc'[s]) < StepsToGo(pc[s])
         /\ FailuresLeft' <= FailuresLeft
<1> USE DEF TypeOK, WorkerTypeOK, Goto
<1>1. CASE QueryAnswers(s, j)
  BY <1>1, StepsToGoValues DEF QueryAnswers, Query, AfterQuery, FailuresLeft, Failure
<1>2. CASE QueryFails(s, j)
  BY <1>2, StepsToGoValues
  DEF QueryFails, Querying, Spend, Caught, isPermanentError, FailuresLeft, Failure
<1>3. CASE CheckInput(s, j) \/ Convert(s, j)
  BY <1>3, StepsToGoValues
  DEF CheckInput, Convert, Caught, isPermanentError, FailuresLeft, Failure
<1>4. CASE Upload(s, j) \/ CleanUp(s, j)
  BY <1>4, StepsToGoValues
  DEF Upload, CleanUp, Spend, Caught, isPermanentError, FailuresLeft, Failure
<1> QED  BY <1>1, <1>2, <1>3, <1>4 DEF MidRun

\* A step that moves job j alone, and lets no failure happen.
LEMMA OtherJobsStay ==
  ASSUME TypeOK, NEW j \in Jobs,
         UNCHANGED <<qstate[j], attemptsMade[j], stalls[j], owner[j]>>,
         TypeOK', FailuresLeft' <= FailuresLeft,
         owner[j] # NoSlot => pc'[owner[j]] = pc[owner[j]],
         LocksAreHeldByRuns
  PROVE  JobComesNearer(j)
<1>1. ToGo(j)' = ToGo(j)
  BY DEF ToGo
<1>2. ConcernOf(j)' = ConcernOf(j)
  BY DEF ConcernOf
<1>3. /\ Attempts \in Nat /\ attemptsMade[j] \in Nat
      /\ FailuresLeft \in Nat /\ FailuresLeft' \in Nat
      /\ ToGo(j) \in 0..17
  BY ToGoValues, QueueAssumption
  DEF TypeOK, QueueTypeOK, WorkerTypeOK, Failure, FailuresLeft
<1> QED
  BY <1>1, <1>2, <1>3 DEF JobComesNearer, Rank, Rounds

\* A round is over: whatever the next one has to go, the rank is lower.
LEMMA RoundIsOver ==
  ASSUME TypeOK, TypeOK', NEW j \in Jobs,
         Rounds(j)' < Rounds(j)
  PROVE  JobComesNearer(j)
<1>1. Rounds(j) \in Int /\ Rounds(j)' \in Int
  BY QueueAssumption DEF TypeOK, QueueTypeOK, WorkerTypeOK, Failure, FailuresLeft, Rounds
<1>2. ToGo(j) \in 0..17 /\ ToGo(j)' \in 0..17
  BY ToGoIsBounded, ToGoStaysBounded
<1> QED
  BY <1>1, <1>2 DEF JobComesNearer, Rank

\* Only an attempt that a job still had is counted.
RanksAreNatural == \A j \in Jobs : attemptsMade[j] <= Attempts /\ Rank(j) \in Nat

LEMMA RanksStayNatural ==
  ASSUME TypeOK, StartsInv, RanksAreNatural, [Next]_vars
  PROVE  RanksAreNatural'
<1> SUFFICES ASSUME NEW j \in Jobs
             PROVE  attemptsMade'[j] <= Attempts /\ Rank(j)' \in Nat
  BY DEF RanksAreNatural
<1>1. attemptsMade'[j] <= Attempts
  <2>1. CASE \E s \in Slots, k \in Jobs, to \in Outcome : EndRun(s, k, to)
    BY <2>1, QueueAssumption
    DEF EndRun, Holds, TypeOK, QueueTypeOK, StartsInv, RanksAreNatural
  <2>2. CASE UNCHANGED attemptsMade
    BY <2>2 DEF RanksAreNatural
  <2> QED
    BY <2>1, <2>2, StepIsOperation DEF queueVars, Enqueue, Promote, TakeBack, Claim, DropLocks
<1>2. TypeOK'
  BY StepTypeOK
<1>3. ToGo(j)' \in 0..17
  BY <1>2, ToGoStaysBounded
<1>4. attemptsMade'[j] \in Nat /\ FailuresLeft' \in Nat /\ Attempts \in Nat
  BY <1>2, QueueAssumption DEF TypeOK, QueueTypeOK, WorkerTypeOK, Failure, FailuresLeft
<1> QED
  BY <1>1, <1>3, <1>4 DEF Rank, Rounds

\* Locks that are lost cost a failure, and so does a restart.
LEMMA FailureEndsTheRound ==
  ASSUME TypeOK, TypeOK', NEW j \in Jobs, UNCHANGED attemptsMade, FailuresLeft' < FailuresLeft
  PROVE  JobComesNearer(j)
<1>1. /\ attemptsMade[j] \in Nat /\ Attempts \in Nat
      /\ FailuresLeft \in Nat /\ FailuresLeft' \in Nat
  BY QueueAssumption DEF TypeOK, QueueTypeOK, WorkerTypeOK, Failure, FailuresLeft
<1>2. Rounds(j)' < Rounds(j)
  BY <1>1 DEF Rounds
<1> QED
  BY <1>2, RoundIsOver

LEMMA SpendIsAFailure ==
  ASSUME TypeOK, NEW kind \in {"fault", "crash", "lock"}, Spend(kind)
  PROVE  FailuresLeft' < FailuresLeft
  BY DEF TypeOK, WorkerTypeOK, Spend, Failure, FailuresLeft

\* What the queue's timers and a claim do with one job.
LEMMA QueueStepComesNearer ==
  ASSUME TypeOK, TypeOK', LocksAreHeldByRuns, NEW k \in Jobs, UNCHANGED left,
         \/ Submit(k) \/ EndBackoff(k) \/ RecoverStalled(k)
         \/ \E s \in Slots : ClaimJob(s, k)
  PROVE  ComesNearer
<1>1. FailuresLeft' = FailuresLeft /\ FailuresLeft \in Nat
  BY DEF FailuresLeft, TypeOK, WorkerTypeOK, Failure
<1>2. ASSUME NEW j \in Jobs \ {k} PROVE JobComesNearer(j)
  <2>1. UNCHANGED <<qstate[j], attemptsMade[j], stalls[j], owner[j]>>
    BY DEF Submit, EndBackoff, RecoverStalled, Enqueue, Promote, TakeBack, ClaimJob, Claim,
           TypeOK, QueueTypeOK
  <2>2. owner[j] # NoSlot => pc'[owner[j]] = pc[owner[j]]
    BY DEF Submit, EndBackoff, RecoverStalled, ClaimJob, workerVars, TypeOK, QueueTypeOK,
           WorkerTypeOK, LocksAreHeldByRuns, Running
  <2> QED
    BY <1>1, <2>1, <2>2, OtherJobsStay
<1>3. JobComesNearer(k)
  <2>1. UNCHANGED attemptsMade[k]
    BY DEF Submit, EndBackoff, RecoverStalled, Enqueue, Promote, TakeBack, ClaimJob, Claim
  <2>2. ToGo(k)' < ToGo(k)
    <3>1. CASE Submit(k) \/ EndBackoff(k) \/ RecoverStalled(k)
      BY <3>1
      DEF Submit, EndBackoff, RecoverStalled, Enqueue, Promote, TakeBack, Holds, ToGo, TypeOK,
          QueueTypeOK
    <3>2. CASE \E s \in Slots : ClaimJob(s, k)
      <4> PICK s \in Slots : ClaimJob(s, k)
        BY <3>2
      <4>1. qstate[k] = "waiting" /\ qstate'[k] = "active" /\ owner'[k] = s
        BY DEF ClaimJob, Claim, TypeOK, QueueTypeOK
      <4>2. pc'[s] \in {"aborting", "inserting"}
        BY DEF ClaimJob, TypeOK, WorkerTypeOK
      <4>3. ToGo(k) = 14
        BY <4>1, ToGoValues
      <4>4. ToGo(k)' = StepsToGo(pc'[s])
        BY <4>1, QueueAssumption DEF ToGo
      <4> QED
        BY <4>2, <4>3, <4>4, StepsToGoValues
    <3> QED  BY <3>1, <3>2
  <2>3. Rounds(k)' = Rounds(k) /\ Rounds(k) \in Int
    BY <1>1, <2>1, QueueAssumption DEF Rounds, TypeOK, QueueTypeOK
  <2>4. ToGo(k) \in 0..17 /\ ToGo(k)' \in 0..17
    BY ToGoIsBounded, ToGoStaysBounded
  <2> QED
    BY <2>2, <2>3, <2>4 DEF JobComesNearer, Rank
<1>4. ASSUME NEW s \in Slots PROVE SlotComesNearer(s)
  BY DEF SlotComesNearer, Submit, EndBackoff, RecoverStalled, workerVars, ClaimJob, TypeOK,
         WorkerTypeOK
<1> QED
  BY <1>2, <1>3, <1>4 DEF ComesNearer

LEMMA MidRunIsProgress ==
  ASSUME TypeOK, TypeOK', LocksAreHeldByRuns, NEW s \in Slots, NEW k \in Jobs, MidRun(s, k)
  PROVE  ComesNearer
<1>1. /\ UNCHANGED queueVars /\ Running(s, k)
      /\ \A t \in Slots \ {s} : pc'[t] = pc[t]
      /\ UNCHANGED jobOf
  BY MidRunKeepsTheRun
<1>2. StepsToGo(pc'[s]) < StepsToGo(pc[s]) /\ FailuresLeft' <= FailuresLeft
  BY MidRunComesNearer
<1>3. ASSUME NEW j \in Jobs PROVE JobComesNearer(j)
  <2>1. owner[j] \in Slots \cup {NoSlot}
    BY DEF TypeOK, QueueTypeOK
  <2>2. CASE owner[j] # s
    <3>1. owner[j] # NoSlot => pc'[owner[j]] = pc[owner[j]]
      BY <1>1, <2>1, <2>2
    <3> QED
      BY <1>1, <1>2, <3>1, OtherJobsStay DEF queueVars
  <2>3. CASE owner[j] = s
    <3>1. qstate[j] = "active" /\ owner[j] # NoSlot
      BY <2>3, QueueAssumption DEF LocksAreHeldByRuns
    <3>2. ToGo(j) = StepsToGo(pc[s])
      BY <2>3, <3>1, ToGoValues
    <3>3. ToGo(j)' = StepsToGo(pc'[s])
      BY <1>1, <2>3, <3>1 DEF ToGo, queueVars
    <3>4. Rounds(j)' <= Rounds(j) /\ Rounds(j) \in Int /\ Rounds(j)' \in Int
      BY <1>1, <1>2, QueueAssumption
      DEF Rounds, FailuresLeft, TypeOK, QueueTypeOK, WorkerTypeOK, Failure, queueVars
    <3>5. ToGo(j) \in 0..17 /\ ToGo(j)' \in 0..17
      BY ToGoIsBounded, ToGoStaysBounded
    <3> QED
      BY <1>2, <3>2, <3>3, <3>4, <3>5 DEF JobComesNearer, Rank
  <2> QED  BY <2>2, <2>3
<1>4. ASSUME NEW t \in Slots PROVE SlotComesNearer(t)
  BY <1>1, <1>2 DEF SlotComesNearer
<1> QED  BY <1>3, <1>4 DEF ComesNearer

LEMMA EndOfRunIsProgress ==
  ASSUME TypeOK, TypeOK', LocksAreHeldByRuns, NEW s \in Slots, NEW k \in Jobs, EndOfRun(s, k)
  PROVE  ComesNearer
<1>1. /\ Running(s, k)
      /\ \A t \in Slots \ {s} : pc'[t] = pc[t] /\ jobOf'[t] = jobOf[t]
      /\ \/ EndRun(s, k, "completed") \/ EndRun(s, k, "delayed") \/ EndRun(s, k, "failed")
         \/ ~Holds(s, k) /\ UNCHANGED queueVars
      /\ UNCHANGED left
  BY EndOfRunReleasesTheSlot
<1>2. FailuresLeft' = FailuresLeft /\ FailuresLeft \in Nat
  BY <1>1 DEF FailuresLeft, TypeOK, WorkerTypeOK, Failure
<1>3. ASSUME NEW j \in Jobs,
             UNCHANGED <<qstate[j], attemptsMade[j], stalls[j], owner[j]>>, ~Holds(s, j)
      PROVE  JobComesNearer(j)
  <2>1. owner[j] # NoSlot => pc'[owner[j]] = pc[owner[j]]
    BY <1>1, <1>3 DEF LocksAreHeldByRuns, Holds, TypeOK, QueueTypeOK
  <2> QED
    BY <1>2, <1>3, <2>1, OtherJobsStay
<1>4. ASSUME NEW j \in Jobs \ {k} PROVE JobComesNearer(j)
  <2>1. ~Holds(s, j)
    BY <1>1, QueueAssumption DEF LocksAreHeldByRuns, Holds, Running
  <2>2. UNCHANGED <<qstate[j], attemptsMade[j], stalls[j], owner[j]>>
    BY <1>1 DEF EndRun, queueVars, TypeOK, QueueTypeOK
  <2> QED  BY <1>3, <2>1, <2>2
<1>5. JobComesNearer(k)
  <2>1. CASE ~Holds(s, k) /\ UNCHANGED queueVars
    BY <1>3, <2>1 DEF queueVars
  <2>2. CASE EndRun(s, k, "completed") \/ EndRun(s, k, "delayed") \/ EndRun(s, k, "failed")
    <3>1. Rounds(k)' < Rounds(k)
      BY <1>2, <2>2, QueueAssumption DEF EndRun, Rounds, TypeOK, QueueTypeOK
    <3> QED  BY <3>1, RoundIsOver
  <2> QED  BY <1>1, <2>1, <2>2
<1>6. ASSUME NEW t \in Slots PROVE SlotComesNearer(t)
  <2>1. pc[s] \in {"acking", "failing", "aborting"} /\ pc'[s] = "idle"
    BY DEF EndOfRun, Complete, Retry, FailForGood, FailRefused, Release, TypeOK, WorkerTypeOK
  <2>2. StepsToGo(pc'[s]) < StepsToGo(pc[s])
    BY <2>1, StepsToGoValues
  <2> QED  BY <1>1, <2>2 DEF SlotComesNearer
<1> QED  BY <1>4, <1>5, <1>6 DEF ComesNearer

\* A restart and a lost lock are paid for;  a slot they end is idle.
LEMMA FailureIsProgress ==
  ASSUME TypeOK, TypeOK', UNCHANGED attemptsMade, FailuresLeft' < FailuresLeft,
         UNCHANGED slotVars \/ \E n \in Nodes : Restart(n)
  PROVE  ComesNearer
<1>1. ASSUME NEW j \in Jobs PROVE JobComesNearer(j)
  BY FailureEndsTheRound
<1>2. ASSUME NEW s \in Slots PROVE SlotComesNearer(s)
  <2>1. CASE UNCHANGED slotVars
    BY <2>1 DEF slotVars, SlotComesNearer
  <2>2. CASE \E n \in Nodes : Restart(n)
    <3>1. pc'[s] \in {"idle", pc[s]} /\ pc[s] \in PC
      BY <2>2 DEF Restart, TypeOK, WorkerTypeOK
    <3>2. pc[s] # "idle" => StepsToGo("idle") < StepsToGo(pc[s])
      BY <3>1, StepsToGoValues DEF PC
    <3> QED
      BY <3>1, <3>2 DEF SlotComesNearer
  <2> QED  BY <2>1, <2>2
<1> QED  BY <1>1, <1>2 DEF ComesNearer

LEMMA EveryStepComesNearer ==
  ASSUME TypeOK, LocksAreHeldByRuns, [Next]_vars
  PROVE  ComesNearer
<1>0. TypeOK'
  BY StepTypeOK
<1>1. CASE \/ \E j \in Jobs : Submit(j) \/ EndBackoff(j) \/ RecoverStalled(j)
           \/ \E s \in Slots, j \in Jobs : ClaimJob(s, j)
  <2> PICK j \in Jobs : \/ Submit(j) \/ EndBackoff(j) \/ RecoverStalled(j)
                        \/ \E s \in Slots : ClaimJob(s, j)
    BY <1>1
  <2>1. UNCHANGED left
    BY DEF Submit, EndBackoff, RecoverStalled, ClaimJob, workerVars
  <2> QED  BY <1>0, <2>1, QueueStepComesNearer
<1>2. CASE \E s \in Slots, j \in Jobs : SlotStep(s, j)
  BY <1>0, <1>2, SlotSteps, MidRunIsProgress, EndOfRunIsProgress
<1>3. CASE \/ \E n \in Nodes : Crash(n)
           \/ \E n \in Nodes, j \in Jobs : ListenerFails(n, j)
           \/ \E s \in Slots : LoseLock(s)
  <2>1. FailuresLeft' < FailuresLeft
    <3>1. \E kind \in {"fault", "crash", "lock"} : Spend(kind)
      BY <1>3 DEF Crash, ListenerFails, LoseLock
    <3> QED  BY <3>1, SpendIsAFailure
  <2>2. UNCHANGED attemptsMade
    BY <1>3 DEF Crash, ListenerFails, LoseLock, Restart, DropLocks
  <2>3. UNCHANGED slotVars \/ \E n \in Nodes : Restart(n)
    BY <1>3 DEF Crash, ListenerFails, LoseLock
  <2> QED  BY <1>0, <2>1, <2>2, <2>3, FailureIsProgress
<1>4. CASE \/ \E n \in Nodes, j \in Jobs : RecordFinalFailure(n, j) \/ DeleteObject(n, j)
           \/ \E n \in Nodes, ids \in SUBSET Jobs \ {{}} : DeleteJobs(n, ids)
           \/ \E ids \in SUBSET Jobs \ {{}} : DeleteJobsFails(ids)
           \/ UNCHANGED vars
  <2>1. UNCHANGED queueVars /\ UNCHANGED slotVars
    BY <1>4
    DEF RecordFinalFailure, DeleteObject, DeleteJobs, DeleteJobsFails, vars, workerVars, slotVars
  <2>2. FailuresLeft' <= FailuresLeft
    BY <1>4
    DEF RecordFinalFailure, DeleteObject, DeleteJobs, DeleteJobsFails, vars, workerVars, Spend,
        FailuresLeft, TypeOK, WorkerTypeOK, Failure
  <2>3. \A j \in Jobs : JobComesNearer(j)
    BY <1>0, <2>1, <2>2, OtherJobsStay DEF queueVars, slotVars
  <2> QED
    BY <2>1, <2>3 DEF ComesNearer, SlotComesNearer, slotVars
<1> QED
  BY <1>1, <1>2, <1>3, <1>4 DEF Next

\* Every step of the system lowers the rank of the jobs it concerns, which is a
\* natural number, and raises none: a job makes at most 18 steps for each
\* attempt and each failure there can be, and 17 more, whatever the other jobs,
\* the slots and the nodes do.  With LocksAreHeldByRunsTheorem this is all of
\* EveryJobLeavesTheQueue but the fairness.
THEOREM EveryRunComesToAnEnd == Spec => []RanksAreNatural /\ [][ComesNearer]_vars
<1>1. Init => RanksAreNatural
  <2> SUFFICES ASSUME Init, NEW j \in Jobs
               PROVE  attemptsMade[j] <= Attempts /\ Rank(j) \in Nat
    BY DEF RanksAreNatural
  <2>1. TypeOK
    BY InitTypeOK
  <2>2. attemptsMade[j] = 0 /\ Attempts \in Nat
    BY QueueAssumption DEF Init, QueueInit
  <2>3. FailuresLeft \in Nat /\ ToGo(j) \in 0..17
    BY <2>1, ToGoIsBounded DEF FailuresLeft, TypeOK, WorkerTypeOK, Failure
  <2> QED
    BY <2>2, <2>3 DEF Rank, Rounds
<1>2. TypeOK /\ StartsInv /\ RanksAreNatural /\ [Next]_vars => RanksAreNatural'
  BY RanksStayNatural
<1>3. TypeOK /\ LocksAreHeldByRuns /\ [Next]_vars => ComesNearer
  BY EveryStepComesNearer
<1> QED
  BY <1>1, <1>2, <1>3, TypeCorrect, StartsInvHolds, LocksAreHeldByRunsTheorem, PTL DEF Spec

=============================================================================
