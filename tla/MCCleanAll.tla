----------------------------- MODULE MCCleanAll -----------------------------
(***************************************************************************)
(* An instance of CleanAll for TLC: a job on an upload that comes while the*)
(* script is at work and one on the preset image, on one slot of one node. *)
(***************************************************************************)
EXTENDS CleanAll, TLC

CONSTANTS j1, j2, s1, n1, cat, sample

UploadAndSample == j1 :> cat @@ j2 :> sample

OneNode == s1 :> n1

Failures == "fault" :> 1 @@ "crash" :> 1 @@ "lock" :> 0 @@ "delete" :> 0

=============================================================================
