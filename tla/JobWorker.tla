----------------------------- MODULE JobWorker ------------------------------
(***************************************************************************)
(* The worker of src/src/worker.ts and the thread of src/src/cpu-worker.ts *)
(* it runs for each job.  A worker has a few concurrency slots;  a slot    *)
(* runs one job at a time and every step below is what it does between two *)
(* awaits (or between two file-system calls that another slot can tell     *)
(* apart).  A slot whose lock was lost is not told: it goes on with the    *)
(* job and only its last message to the queue is refused.                  *)
(*                                                                         *)
(* Calls to the database and to S3 may fail, in two ways: the call had no  *)
(* effect, or it took effect and only the answer was lost.                 *)
(***************************************************************************)
EXTENDS JobQueue, JobStore, FileStore

CONSTANTS
    Nodes,    \* server processes: each runs one worker and the HTTP API
    NodeOf,   \* the node of each slot
    NoJob,    \* what an idle slot works on
    Budget    \* how many failures of each kind a behaviour may contain

\* The kinds of failures whose number is bounded.
Failure == {"fault", "crash", "lock", "delete"}

ASSUME WorkerAssumption ==
    /\ NodeOf \in [Slots -> Nodes]
    /\ NoJob \notin Jobs
    /\ Budget \in [Failure -> Nat]

VARIABLES
    pc,        \* where each slot is in the processor function
    jobOf,     \* the job it runs
    handlers,  \* final failures a node's "failed" listener has yet to record
    dropped,   \* history: final failures that no listener will record
    ambiguous, \* history: jobs with a query that took effect and reported an error
    starts,    \* history: how often the processor was started for a job
    left       \* the failures that may still happen

slotVars   == <<pc, jobOf>>
workerVars == <<pc, jobOf, handlers, dropped, ambiguous, starts, left>>

PC == {"idle", "inserting", "marking", "checking", "converting", "uploading",
       "cleaning", "completing", "acking", "quarantining", "failing",
       "aborting"}

\* The places where the slot awaits a query.
Querying == {"inserting", "marking", "completing", "quarantining"}

WorkerTypeOK ==
    /\ pc \in [Slots -> PC]
    /\ jobOf \in [Slots -> Jobs \cup {NoJob}]
    /\ handlers \in [Nodes -> SUBSET Jobs]
    /\ dropped \in SUBSET Jobs
    /\ ambiguous \in SUBSET Jobs
    /\ starts \in [Jobs -> Nat]
    /\ left \in [Failure -> Nat]

WorkerInit ==
    /\ pc = [s \in Slots |-> "idle"]
    /\ jobOf = [s \in Slots |-> NoJob]
    /\ handlers = [n \in Nodes |-> {}]
    /\ dropped = {}
    /\ ambiguous = {}
    /\ starts = [j \in Jobs |-> 0]
    /\ left = Budget

-----------------------------------------------------------------------------

Spend(kind) ==
    /\ left[kind] > 0
    /\ left' = [left EXCEPT ![kind] = @ - 1]

\* Slot s moves on within its run.
Goto(s, to) ==
    /\ pc' = [pc EXCEPT ![s] = to]
    /\ UNCHANGED jobOf

\* Slot s ends its run.
Release(s) ==
    /\ pc' = [pc EXCEPT ![s] = "idle"]
    /\ jobOf' = [jobOf EXCEPT ![s] = NoJob]

Running(s, j) == pc[s] # "idle" /\ jobOf[s] = j

-----------------------------------------------------------------------------
(* The processor function.                                                 *)

\* BullMQ hands the job to a free slot.  A job that stalled too often is
\* failed with an UnrecoverableError instead of being processed.
ClaimJob(s, j) ==
    /\ pc[s] = "idle"
    /\ Claim(s, j)
    /\ pc' = [pc EXCEPT ![s] = IF GivenUp(j) THEN "aborting" ELSE "inserting"]
    /\ jobOf' = [jobOf EXCEPT ![s] = j]
    /\ starts' = [starts EXCEPT ![j] = IF GivenUp(j) THEN @ ELSE @ + 1]
    /\ UNCHANGED <<handlers, dropped, ambiguous, left, storeVars, fileVars>>

\* The statement slot s awaits.
Query(s, j) ==
    \/ /\ pc[s] = "inserting"
       /\ insertJob(j)
    \/ /\ pc[s] = "marking"
       /\ markJobInProgress(j)
    \/ /\ pc[s] = "completing"
       /\ markJobCompleted(j)
    \/ /\ pc[s] = "quarantining"
       /\ markJobFailed(j)

\* The errors of a run, by the text that decides: existsSync's "not found" and
\* sharp's "unsupported" match a pattern, and "ENOENT" or "missing" (a file that
\* vanished meanwhile), a query's and S3's errors match none.
isPermanentError(error) == error \in {"not found", "unsupported"}

\* The catch block of the processor.
Caught(error) == IF isPermanentError(error) THEN "quarantining" ELSE "failing"

\* What the processor does when the statement succeeds.
AfterQuery(at) ==
    CASE at = "inserting"    -> "marking"
      [] at = "marking"      -> "checking"
      [] at = "completing"   -> "acking"
      [] at = "quarantining" -> "aborting"

QueryAnswers(s, j) ==
    /\ Running(s, j)
    /\ Query(s, j)
    /\ Goto(s, AfterQuery(pc[s]))
    /\ UNCHANGED <<handlers, dropped, ambiguous, starts, left, queueVars, fileVars>>

\* Mutant of QueryFails: the error is swallowed.
QueryFailsSilently(s, j) ==
    /\ Running(s, j)
    /\ pc[s] \in Querying
    /\ Spend("fault")
    /\ Goto(s, AfterQuery(pc[s]))
    /\ UNCHANGED <<handlers, dropped, ambiguous, starts, queueVars, storeVars, fileVars>>

\* A query fails.  Only the completing query is inside the try.
QueryFails(s, j) ==
    /\ Running(s, j)
    /\ pc[s] \in Querying
    /\ Spend("fault")
    /\ \/ UNCHANGED storeVars /\ UNCHANGED ambiguous
       \/ Query(s, j) /\ ambiguous' = ambiguous \cup {j}
    /\ Goto(s, IF pc[s] = "completing" THEN Caught("query") ELSE "failing")
    /\ UNCHANGED <<handlers, dropped, starts, queueVars, fileVars>>

\* existsSync.
CheckInput(s, j) ==
    /\ Running(s, j)
    /\ pc[s] = "checking"
    /\ Goto(s, IF InputExists(j) THEN "converting" ELSE Caught("not found"))
    /\ UNCHANGED <<handlers, dropped, ambiguous, starts, left, queueVars, storeVars, fileVars>>

\* sharp: the input may be unreadable, or have vanished since existsSync.
Convert(s, j) ==
    /\ Running(s, j)
    /\ pc[s] = "converting"
    /\ \/ ~InputExists(j) /\ Goto(s, Caught("missing")) /\ UNCHANGED fileVars
       \/ InputExists(j) /\ ImageOf[j] \in Corrupt
             /\ Goto(s, Caught("unsupported")) /\ UNCHANGED fileVars
       \/ InputExists(j) /\ ImageOf[j] \notin Corrupt
             /\ Goto(s, "uploading") /\ WriteThumbnail(j)
    /\ UNCHANGED <<handlers, dropped, ambiguous, starts, left, queueVars, storeVars>>

\* Mutant of Upload: a failed PUT is logged and the run goes on.
UploadSilently(s, j) ==
    /\ Running(s, j)
    /\ pc[s] = "uploading"
    /\ \/ uploadFiletoS3(j) /\ UNCHANGED left
       \/ UNCHANGED fileVars /\ Spend("fault")
    /\ Goto(s, "cleaning")
    /\ UNCHANGED <<handlers, dropped, ambiguous, starts, queueVars, storeVars>>

\* The PUT.  Another run of the same job may have unlinked the output file.
Upload(s, j) ==
    /\ Running(s, j)
    /\ pc[s] = "uploading"
    /\ \/ uploadFiletoS3(j) /\ Goto(s, "cleaning") /\ UNCHANGED left
       \/ ~OutputExists(j) /\ Goto(s, Caught("ENOENT")) /\ UNCHANGED <<fileVars, left>>
       \/ /\ Spend("fault")
          /\ uploadFiletoS3(j) \/ UNCHANGED fileVars
          /\ Goto(s, Caught("S3"))
    /\ UNCHANGED <<handlers, dropped, ambiguous, starts, queueVars, storeVars>>

\* The thread removes its local files and posts its result.  The unlinks are
\* one synchronous stretch, and their errors are only logged.
CleanUp(s, j) ==
    /\ Running(s, j)
    /\ pc[s] = "cleaning"
    /\ \/ RemoveLocalFiles(j) /\ UNCHANGED left
       \/ RemoveSomeFiles(j) /\ Spend("fault")
    /\ Goto(s, "completing")
    /\ UNCHANGED <<handlers, dropped, ambiguous, starts, queueVars, storeVars>>

-----------------------------------------------------------------------------
(* What BullMQ's worker does with the outcome of the processor.            *)

\* The lock of the job was lost: the queue refuses the outcome.
Refused(s, j) == ~Holds(s, j) /\ UNCHANGED queueVars

Complete(s, j) ==
    /\ Running(s, j)
    /\ pc[s] = "acking"
    /\ EndRun(s, j, "completed") \/ Refused(s, j)
    /\ Release(s)
    /\ UNCHANGED <<handlers, dropped, ambiguous, starts, left, storeVars, fileVars>>

\* Mutant of Retry: the listener takes every failure for the final one.
RetryReported(s, j) ==
    /\ Running(s, j)
    /\ pc[s] = "failing"
    /\ ~LastAttempt(j)
    /\ EndRun(s, j, "delayed")
    /\ Release(s)
    /\ handlers' = [handlers EXCEPT ![NodeOf[s]] = @ \cup {j}]
    /\ UNCHANGED <<dropped, ambiguous, starts, left, storeVars, fileVars>>

\* The processor threw and attempts remain: the job waits for its backoff and
\* the "failed" listener finds that the attempt is not the final one.
Retry(s, j) ==
    /\ Running(s, j)
    /\ pc[s] = "failing"
    /\ ~LastAttempt(j)
    /\ EndRun(s, j, "delayed")
    /\ Release(s)
    /\ UNCHANGED <<handlers, dropped, ambiguous, starts, left, storeVars, fileVars>>

\* Mutant of FailForGood: the listener misses the attempt that exhausts them.
FailForGoodUnnoticed(s, j) ==
    /\ Running(s, j)
    /\ \/ pc[s] = "aborting"
       \/ pc[s] = "failing" /\ LastAttempt(j)
    /\ EndRun(s, j, "failed")
    /\ Release(s)
    /\ UNCHANGED <<handlers, dropped, ambiguous, starts, left, storeVars, fileVars>>

\* The attempts are exhausted or the error is unrecoverable: the job fails for
\* good and the "failed" listener of this node starts its query.
FailForGood(s, j) ==
    /\ Running(s, j)
    /\ \/ pc[s] = "aborting"
       \/ pc[s] = "failing" /\ LastAttempt(j)
    /\ EndRun(s, j, "failed")
    /\ Release(s)
    /\ handlers' = [handlers EXCEPT ![NodeOf[s]] = @ \cup {j}]
    /\ UNCHANGED <<dropped, ambiguous, starts, left, storeVars, fileVars>>

\* The processor threw in a run whose lock was lost: no retry, no event.
FailRefused(s, j) ==
    /\ Running(s, j)
    /\ pc[s] \in {"failing", "aborting"}
    /\ Refused(s, j)
    /\ Release(s)
    /\ UNCHANGED <<handlers, dropped, ambiguous, starts, left, storeVars, fileVars>>

\* The query of the "failed" listener.
RecordFinalFailure(n, j) ==
    /\ j \in handlers[n]
    /\ markJobFailed(j)
    /\ handlers' = [handlers EXCEPT ![n] = @ \ {j}]
    /\ UNCHANGED <<slotVars, dropped, ambiguous, starts, left, queueVars, fileVars>>

\* One step of the run of slot s.
SlotStep(s, j) ==
    \/ QueryAnswers(s, j) \/ QueryFails(s, j)
    \/ CheckInput(s, j) \/ Convert(s, j) \/ Upload(s, j) \/ CleanUp(s, j)
    \/ Complete(s, j) \/ Retry(s, j) \/ FailForGood(s, j) \/ FailRefused(s, j)

=============================================================================
