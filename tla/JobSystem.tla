----------------------------- MODULE JobSystem ------------------------------
(***************************************************************************)
(* The whole life of a job: POST /jobs puts it in the queue, the workers   *)
(* of the nodes process it, DELETE /jobs removes its row and its thumbnail,*)
(* and nodes crash, lose locks and restart meanwhile.                      *)
(***************************************************************************)
EXTENDS JobWorker

VARIABLE
    doomed     \* per node: S3 keys a DELETE handler has yet to delete

vars == <<queueVars, storeVars, fileVars, workerVars, doomed>>

TypeOK ==
    /\ QueueTypeOK
    /\ StoreTypeOK
    /\ FileTypeOK
    /\ WorkerTypeOK
    /\ doomed \in [Nodes -> SUBSET Jobs]

Init ==
    /\ QueueInit
    /\ StoreInit
    /\ FileInit
    /\ WorkerInit
    /\ doomed = [n \in Nodes |-> {}]

-----------------------------------------------------------------------------
(* The HTTP API.                                                           *)

\* The 201 path of createJob: no row is written, the job is only enqueued.
Submit(j) ==
    /\ Enqueue(j)
    /\ UNCHANGED <<storeVars, fileVars, workerVars, doomed>>

\* The jobs a DELETE may name: any list of ids, or all finished ones.
Removal(ids) == deleteJobsByIds(ids) \/ deleteAllFinishedJobs

\* deleteJobsHandler removes the rows and learns their thumbnail keys.
DeleteJobs(n, ids) ==
    /\ Spend("delete")
    /\ Removal(ids)
    /\ doomed' = [doomed EXCEPT ![n] = @ \cup (thumbnail \ thumbnail')]
    /\ UNCHANGED <<slotVars, handlers, dropped, ambiguous, starts, queueVars, fileVars>>

\* The DELETE took effect but its answer was lost: 500, and nobody has the keys.
DeleteJobsFails(ids) ==
    /\ left["delete"] > 0 /\ left["fault"] > 0
    /\ left' = [left EXCEPT !["delete"] = @ - 1, !["fault"] = @ - 1]
    /\ Removal(ids)
    /\ UNCHANGED <<slotVars, handlers, dropped, ambiguous, starts, queueVars, fileVars, doomed>>

\* Mutant of DeleteObject: the objects first, and the rows when all of them are
\* gone.
DeleteObjectFirst(n, j) ==
    /\ j \in thumbnail /\ Spend("delete")
    /\ deleteFileFromS3(j)
    /\ UNCHANGED <<slotVars, handlers, dropped, ambiguous, starts, queueVars, storeVars, doomed>>

\* It then deletes the objects one by one;  an error is logged and skipped.
DeleteObject(n, j) ==
    /\ j \in doomed[n]
    /\ doomed' = [doomed EXCEPT ![n] = @ \ {j}]
    /\ \/ deleteFileFromS3(j) /\ UNCHANGED left
       \/ UNCHANGED fileVars /\ Spend("fault")
    /\ UNCHANGED <<slotVars, handlers, dropped, ambiguous, starts, queueVars, storeVars>>

-----------------------------------------------------------------------------
(* Time and failures.                                                      *)

\* The backoff of a failed run ends.
EndBackoff(j) ==
    /\ Promote(j)
    /\ UNCHANGED <<storeVars, fileVars, workerVars, doomed>>

\* A running slot does not renew its lock in time: it goes on without it.
LoseLock(s) ==
    /\ \E j \in Jobs : Holds(s, j)
    /\ DropLocks({s})
    /\ Spend("lock")
    /\ UNCHANGED <<slotVars, handlers, dropped, ambiguous, starts, storeVars, fileVars, doomed>>

\* The stalled-job sweep.
RecoverStalled(j) ==
    /\ TakeBack(j)
    /\ UNCHANGED <<storeVars, fileVars, workerVars, doomed>>

\* The process of node n dies and the container is restarted.  What it kept in
\* memory is gone: its runs, its pending listeners and its DELETE handlers.
Restart(n) ==
    LET dead == {s \in Slots : NodeOf[s] = n}
    IN  /\ pc' = [s \in Slots |-> IF s \in dead THEN "idle" ELSE pc[s]]
        /\ jobOf' = [s \in Slots |-> IF s \in dead THEN NoJob ELSE jobOf[s]]
        /\ handlers' = [handlers EXCEPT ![n] = {}]
        /\ doomed' = [doomed EXCEPT ![n] = {}]
        /\ DropLocks(dead)
        /\ UNCHANGED <<starts, fileVars>>

Crash(n) ==
    /\ Spend("crash")
    /\ Restart(n)
    /\ dropped' = dropped \cup handlers[n]
    /\ UNCHANGED <<ambiguous, storeVars>>

\* The query of a "failed" listener fails.  Nothing awaits the listener, so
\* this is an unhandled rejection and ends the process.
ListenerFails(n, j) ==
    /\ j \in handlers[n]
    /\ Spend("fault")
    /\ Restart(n)
    /\ \/ UNCHANGED storeVars /\ dropped' = dropped \cup handlers[n]
       \/ markJobFailed(j) /\ dropped' = dropped \cup (handlers[n] \ {j})
    /\ ambiguous' = IF status' = status THEN ambiguous ELSE ambiguous \cup {j}

-----------------------------------------------------------------------------

Next ==
    \/ \E j \in Jobs : Submit(j) \/ EndBackoff(j) \/ RecoverStalled(j)
    \/ \E s \in Slots, j \in Jobs :
          \/ ClaimJob(s, j) /\ UNCHANGED doomed
          \/ SlotStep(s, j) /\ UNCHANGED doomed
    \/ \E n \in Nodes, j \in Jobs :
          \/ RecordFinalFailure(n, j) /\ UNCHANGED doomed
          \/ ListenerFails(n, j)
          \/ DeleteObject(n, j)
    \/ \E n \in Nodes, ids \in SUBSET Jobs \ {{}} : DeleteJobs(n, ids)
    \/ \E ids \in SUBSET Jobs \ {{}} : DeleteJobsFails(ids)
    \/ \E s \in Slots : LoseLock(s)
    \/ \E n \in Nodes : Crash(n)

Spec == Init /\ [][Next]_vars

\* The event loops, Redis' timers and the stalled-job sweep keep going;  no
\* fairness for requests or failures.
Fairness ==
    /\ \A s \in Slots : WF_vars(\E j \in Jobs : SlotStep(s, j) /\ UNCHANGED doomed)
    /\ \A j \in Jobs :
          /\ WF_vars(\E s \in Slots : ClaimJob(s, j) /\ UNCHANGED doomed)
          /\ WF_vars(EndBackoff(j))
          /\ WF_vars(RecoverStalled(j))
    /\ \A n \in Nodes, j \in Jobs :
          WF_vars(RecordFinalFailure(n, j) /\ UNCHANGED doomed)

FairSpec == Spec /\ Fairness

-----------------------------------------------------------------------------
(* Safety.                                                                 *)

\* A "failed" listener of some node still has to record j.
Pending(j) == \E n \in Nodes : j \in handlers[n]

\* A slot runs a job whose lock it does not hold only if that lock was lost,
\* and then the history variable knows.  In particular two slots never run
\* the same job, and write its row and files, unless a lock was lost
\* (worker.ts has no fencing of its own).
RunsAreExclusive ==
    \A j \in Jobs, s \in Slots :
        Running(s, j) /\ ~Holds(s, j) => j \in abandoned

\* The processor is started at most `attempts' times for a job, and once more
\* for each time the sweep may take it back: retries (queue.ts) and redelivery
\* of stalled jobs do not multiply, even if every run crashes its node.
ProcessorStartsAreBounded ==
    \A j \in Jobs : starts[j] <= Attempts + MaxStalled

\* No job ends up in the dead-letter state without a reason: its attempts are
\* exhausted, it stalled too often, sharp cannot read its image, there never
\* was such an image, or some job uploaded a thumbnail of that image (and
\* then deleted the input).  An input is not lost in any other way, and the
\* preset image never is.
DeadLetterHasCause ==
    \A j \in Jobs :
        qstate[j] = "failed" =>
            \/ attemptsMade[j] >= Attempts
            \/ GivenUp(j)
            \/ ImageOf[j] \in Corrupt \cup (Images \ Provided)
            \/ ImageOf[j] \notin Preset /\ \E k \in uploaded : ImageOf[k] = ImageOf[j]

\* A row that reads "completed" carries a key, and the object is in the bucket,
\* unless an administrator deleted the job: markJobCompleted never runs before
\* the PUT took effect, whichever run of the job is asked.
CompletedHasThumbnail ==
    \A j \in Jobs :
        status[j] = "completed" /\ j \notin purged =>
            j \in thumbnail /\ j \in objects

\* Redis and PostgreSQL agree on how a job ended, without a transaction that
\* spans them: when the queue calls a job completed, or failed with no listener
\* pending, so does its row.  The exceptions are named: a lost lock, a node
\* that died with the listener's query outstanding, a deleted row, and a job
\* whose row no attempt managed to insert.
QueueAndRowAgree ==
    \A j \in Jobs \ (abandoned \cup purged) :
        /\ qstate[j] = "completed" => status[j] = "completed"
        /\ qstate[j] = "failed" /\ ~Pending(j) /\ j \notin dropped
              => status[j] \in {"failed", "absent"}

\* What a client sees of a job is the life cycle of module JobLifecycle.
Ended(j) ==
    \/ status[j] \in {"completed", "failed"}
    \/ qstate[j] = "completed"
    \/ qstate[j] = "failed" /\ status[j] = "absent"
    \/ \E s \in Slots : Running(s, j) /\ pc[s] \in {"acking", "aborting"}

Lifecycle ==
    INSTANCE JobLifecycle WITH
        disturbed <- abandoned \cup ambiguous,
        settled   <- {j \in Jobs \ (abandoned \cup ambiguous) : Ended(j)}

ImplementsLifecycle == Lifecycle!Spec

-----------------------------------------------------------------------------
(* Liveness, with a bounded number of failures.                            *)

\* Every accepted job leaves the queue in the end, whatever crashes, lost locks
\* and query errors happen on the way: no schedule parks it in "active" or
\* "delayed" for ever.
EveryJobLeavesTheQueue ==
    \A j \in Jobs :
        qstate[j] = "waiting" ~> qstate[j] \in {"completed", "failed"}

\* A client that polls the row of a job sees it settle, unless the row was
\* deleted, a lock was lost or a node died before the listener's query.
EveryRowSettles ==
    \A j \in Jobs :
        status[j] = "in-progress" ~>
            \/ status[j] \in {"completed", "failed"}
            \/ j \in purged \cup abandoned \cup dropped

-----------------------------------------------------------------------------
(* What the documentation says and the code does not do.                   *)

\* learnings.md: "Transient Errors (...): BullMQ safely retries up to 3 times".
\* Then a job whose image is present and readable fails only when its attempts
\* (or its stalls) are exhausted.
DeadLettersAreDeserved ==
    \A j \in Jobs :
        qstate[j] = "failed" =>
            \/ attemptsMade[j] >= Attempts
            \/ GivenUp(j)
            \/ ImageOf[j] \in Corrupt \cup (Images \ Provided)

\* learnings.md: "When attempts are exhausted or an unrecoverable failure
\* occurs, the job is tagged as `[DLQ] <error>' in Neon PostgreSQL".
FailedJobsAreQuarantined ==
    \A j \in Jobs \ (purged \cup dropped) :
        qstate[j] = "failed" /\ ~Pending(j) => status[j] = "failed"

\* learnings.md: "Every time a job is cleared from the database, its physical
\* asset is cleaned up from the S3 bucket simultaneously."  Read generously:
\* once the job has ended and no DELETE is still at work on it.
ClearedJobsLeaveNoObject ==
    \A j \in purged :
        \/ qstate[j] \notin {"completed", "failed"}
        \/ HasRow(j)
        \/ \E s \in Slots : Running(s, j)
        \/ \E n \in Nodes : j \in doomed[n]
        \/ j \notin objects

\* learnings.md: "on server boot, any jobs with `status = 'in-progress'' are
\* automatically reset back to `'pending'' and re-queued so unfinished work is
\* never lost."
UnfinishedWorkIsNeverLost ==
    \A j \in Jobs : status[j] = "in-progress" ~> status[j] # "in-progress"

=============================================================================
