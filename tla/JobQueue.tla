------------------------------ MODULE JobQueue ------------------------------
(***************************************************************************)
(* The BullMQ queue "image-processing-queue", as src/src/queue.ts          *)
(* configures it and as the Worker of src/src/worker.ts drives it.  BullMQ *)
(* is a dependency, so what is here is its contract with this program:     *)
(*                                                                         *)
(*  - a claimed job is "active" and locked by the worker slot that claimed *)
(*    it;  only the holder of the lock can move the job on;                *)
(*  - a failed run is retried after a backoff ("delayed") until `attempts' *)
(*    runs were made, unless the error is an UnrecoverableError;           *)
(*  - an active job whose lock expired is handed out again by the stalled- *)
(*    job sweep;  after more than MaxStalled sweeps its next claim fails   *)
(*    it without running the processor.                                    *)
(*                                                                         *)
(* Priorities are left out: any waiting job may be claimed next, so the    *)
(* properties hold for every order in which jobs can be served.            *)
(***************************************************************************)
EXTENDS Naturals, JobIds

CONSTANTS
    Slots,       \* the concurrency slots of all workers of the cluster
    NoSlot,      \* the lock of a job that nobody holds
    Attempts,    \* defaultJobOptions.attempts
    MaxStalled   \* BullMQ's maxStalledCount

ASSUME QueueAssumption ==
    /\ NoSlot \notin Slots
    /\ Attempts \in Nat \ {0}
    /\ MaxStalled \in Nat

VARIABLES
    qstate,        \* the state BullMQ keeps the job in
    attemptsMade,  \* job.attemptsMade: runs that ended while the lock was held
    stalls,        \* how often the sweep took the job back
    owner,         \* the slot that holds the job's lock
    abandoned      \* history: jobs whose lock was lost while a slot ran them

queueVars == <<qstate, attemptsMade, stalls, owner, abandoned>>

QueueState == {"none", "waiting", "active", "delayed", "completed", "failed"}

QueueTypeOK ==
    /\ qstate \in [Jobs -> QueueState]
    /\ attemptsMade \in [Jobs -> Nat]
    /\ stalls \in [Jobs -> Nat]
    /\ owner \in [Jobs -> Slots \cup {NoSlot}]
    /\ abandoned \in SUBSET Jobs

QueueInit ==
    /\ qstate = [j \in Jobs |-> "none"]
    /\ attemptsMade = [j \in Jobs |-> 0]
    /\ stalls = [j \in Jobs |-> 0]
    /\ owner = [j \in Jobs |-> NoSlot]
    /\ abandoned = {}

-----------------------------------------------------------------------------

Holds(s, j) == qstate[j] = "active" /\ owner[j] = s

\* Mutant of LastAttempt: counts the attempts before this one only.
LastAttemptLate(j) == attemptsMade[j] >= Attempts

\* The run that ends now is the last one that `attempts' allows.
LastAttempt(j) == attemptsMade[j] + 1 >= Attempts

\* The sweep gave the job up: its next claim fails it.
GivenUp(j) == stalls[j] > MaxStalled

\* imageQueue.add: no delay, so the job can be claimed at once.
Enqueue(j) ==
    /\ qstate[j] = "none"
    /\ qstate' = [qstate EXCEPT ![j] = "waiting"]
    /\ UNCHANGED <<attemptsMade, stalls, owner, abandoned>>

Claim(s, j) ==
    /\ qstate[j] = "waiting"
    /\ qstate' = [qstate EXCEPT ![j] = "active"]
    /\ owner' = [owner EXCEPT ![j] = s]
    /\ UNCHANGED <<attemptsMade, stalls, abandoned>>

\* The holder of the lock ends its run and leaves the job in state `to'.
EndRun(s, j, to) ==
    /\ Holds(s, j)
    /\ qstate' = [qstate EXCEPT ![j] = to]
    /\ attemptsMade' = [attemptsMade EXCEPT ![j] = @ + 1]
    /\ owner' = [owner EXCEPT ![j] = NoSlot]
    /\ UNCHANGED <<stalls, abandoned>>

\* The backoff of a failed run is over.
Promote(j) ==
    /\ qstate[j] = "delayed"
    /\ qstate' = [qstate EXCEPT ![j] = "waiting"]
    /\ UNCHANGED <<attemptsMade, stalls, owner, abandoned>>

\* The locks of the slots S expire: their node died or could not renew them.
DropLocks(S) ==
    LET lost == {j \in Jobs : qstate[j] = "active" /\ owner[j] \in S}
    IN  /\ owner' = [j \in Jobs |-> IF j \in lost THEN NoSlot ELSE owner[j]]
        /\ abandoned' = abandoned \cup lost
        /\ UNCHANGED <<qstate, attemptsMade, stalls>>

\* Mutants of TakeBack: takes a job back although its lock is alive;  gives up
\* on a job by leaving it where it is.
TakeBackLive(j) ==
    /\ qstate[j] = "active"
    /\ qstate' = [qstate EXCEPT ![j] = "waiting"]
    /\ stalls' = [stalls EXCEPT ![j] = @ + 1]
    /\ UNCHANGED <<attemptsMade, owner, abandoned>>

TakeBackLimited(j) ==
    /\ Holds(NoSlot, j)
    /\ stalls[j] < MaxStalled
    /\ qstate' = [qstate EXCEPT ![j] = "waiting"]
    /\ stalls' = [stalls EXCEPT ![j] = @ + 1]
    /\ UNCHANGED <<attemptsMade, owner, abandoned>>

\* The stalled-job sweep of any worker finds an active job without a lock.
TakeBack(j) ==
    /\ Holds(NoSlot, j)
    /\ qstate' = [qstate EXCEPT ![j] = "waiting"]
    /\ stalls' = [stalls EXCEPT ![j] = @ + 1]
    /\ UNCHANGED <<attemptsMade, owner, abandoned>>

=============================================================================
