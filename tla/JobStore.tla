------------------------------ MODULE JobStore ------------------------------
(***************************************************************************)
(* The table `jobs' of src/src/db.ts.  Each operation is one SQL           *)
(* statement, hence atomic;  the model keeps the two columns other parts   *)
(* of the system branch on: status and thumbnail.  A job without a row has *)
(* status "absent".  None of the UPDATEs looks at the status it replaces,  *)
(* and each of them is a no-op when the row is gone.                       *)
(***************************************************************************)

EXTENDS JobIds

VARIABLES
    status,     \* the column `status', "absent" when there is no row
    thumbnail,  \* the jobs whose row carries an S3 key
    purged      \* history: jobs whose row some DELETE removed

storeVars == <<status, thumbnail, purged>>

RowStatus == {"absent", "in-progress", "completed", "failed"}

StoreTypeOK ==
    /\ status \in [Jobs -> RowStatus]
    /\ thumbnail \in SUBSET Jobs
    /\ purged \in SUBSET Jobs

StoreInit ==
    /\ status = [j \in Jobs |-> "absent"]
    /\ thumbnail = {}
    /\ purged = {}

HasRow(j) == status[j] # "absent"

\* INSERT ... ON CONFLICT (id) DO UPDATE SET updated_at: keeps the old status.
\* Its only caller inserts with status 'in-progress'.
insertJob(j) ==
    /\ status' = [status EXCEPT ![j] = IF HasRow(j) THEN @ ELSE "in-progress"]
    /\ UNCHANGED <<thumbnail, purged>>

UpdateStatus(j, new) ==
    status' = [status EXCEPT ![j] = IF HasRow(j) THEN new ELSE @]

markJobInProgress(j) ==
    /\ UpdateStatus(j, "in-progress")
    /\ UNCHANGED <<thumbnail, purged>>

\* Mutant of markJobCompleted: an upsert, which brings deleted rows back.
markJobCompletedUpsert(j) ==
    /\ status' = [status EXCEPT ![j] = "completed"]
    /\ thumbnail' = thumbnail \cup {j}
    /\ UNCHANGED purged

markJobCompleted(j) ==
    /\ UpdateStatus(j, "completed")
    /\ thumbnail' = IF HasRow(j) THEN thumbnail \cup {j} ELSE thumbnail
    /\ UNCHANGED purged

\* Mutant of markJobFailed: a status the rest of the code does not know.
markJobFailedAsError(j) ==
    /\ UpdateStatus(j, "error")
    /\ UNCHANGED <<thumbnail, purged>>

markJobFailed(j) ==
    /\ UpdateStatus(j, "failed")
    /\ UNCHANGED <<thumbnail, purged>>

\* DELETE ... RETURNING thumbnail, for the rows of the jobs in `ids'.
DeleteRows(ids) ==
    LET gone == {j \in ids : HasRow(j)}
    IN  /\ status' = [j \in Jobs |-> IF j \in gone THEN "absent" ELSE status[j]]
        /\ thumbnail' = thumbnail \ gone
        /\ purged' = purged \cup gone

deleteJobsByIds(ids) == DeleteRows(ids)

deleteAllFinishedJobs ==
    DeleteRows({j \in Jobs : status[j] \in {"completed", "failed"}})

=============================================================================
