------------------------------- MODULE JobIds -------------------------------
(***************************************************************************)
(* The identifiers that the queue, the database and the file names share:  *)
(* createJob draws one per request (`job-' and a random UUID), so they     *)
(* never collide.                                                          *)
(***************************************************************************)
CONSTANT Jobs    \* the job ids that createJob may generate
=============================================================================
