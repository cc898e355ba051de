---------------------------- MODULE JobLifecycle ----------------------------
(***************************************************************************)
(* What GET /jobs promises a client about the status column of a job, with *)
(* everything behind it left out.  As long as nothing went wrong with a job*)
(* (it is not in `disturbed'), its row appears "in-progress", settles once,*)
(* as "completed" or "failed", and never changes again;  an administrator  *)
(* may remove it at any time, and a row removed after it settled does not  *)
(* come back.  Of a disturbed job nothing is promised.                     *)
(*                                                                         *)
(* A job that is only queued has no row: its status is "absent".           *)
(***************************************************************************)
EXTENDS JobIds

VARIABLES
    status,     \* the status a client reads, "absent" for 404
    settled,    \* the undisturbed jobs that reached a final status
    disturbed   \* the jobs about which nothing is promised any more

lifecycleVars == <<status, settled, disturbed>>

Final == {"completed", "failed"}

Init ==
    /\ status = [j \in Jobs |-> "absent"]
    /\ settled = {}
    /\ disturbed = {}

\* The status of job j alone becomes `new'.
Becomes(j, new) ==
    /\ status' = [status EXCEPT ![j] = new]
    /\ UNCHANGED disturbed

Start(j) ==
    /\ status[j] = "absent"
    /\ j \notin settled
    /\ Becomes(j, "in-progress")
    /\ UNCHANGED settled

\* A job that is unknown to the table when it ends (its row was removed, or no
\* attempt got as far as inserting one) settles without a row.
Settle(j) ==
    /\ j \notin settled
    /\ status[j] \in {"absent", "in-progress"}
    /\ IF status[j] = "absent"
         THEN UNCHANGED <<status, disturbed>>
         ELSE \E new \in Final : Becomes(j, new)
    /\ settled' = settled \cup {j}

\* A job whose row is removed may end without getting another one.
Remove(ids) ==
    /\ status' = [j \in Jobs |-> IF j \in ids THEN "absent" ELSE status[j]]
    /\ settled' \in {settled \cup also : also \in SUBSET (ids \ disturbed)}
    /\ UNCHANGED disturbed

\* Something goes wrong with the jobs in `ids', now or earlier: their rows may
\* change in any way.
Disturb(ids) ==
    /\ disturbed' = disturbed \cup ids
    /\ settled' = settled \ disturbed'
    /\ \A j \in Jobs \ disturbed' : status'[j] = status[j]
    /\ DOMAIN status' = Jobs

Next ==
    \/ \E j \in Jobs \ disturbed : Start(j) \/ Settle(j)
    \/ \E ids \in SUBSET Jobs : Remove(ids) \/ Disturb(ids)

Spec == Init /\ [][Next]_lifecycleVars

=============================================================================
