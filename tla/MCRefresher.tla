---------------------------- MODULE MCRefresher ----------------------------
(***************************************************************************)
(* Instances of MetricsRefresher for TLC.  A tick is half a second, so the *)
(* constants are those of the code: a lock of 4.5 s, metrics for 10 s, a   *)
(* cycle every 4 s.                                                        *)
(***************************************************************************)
EXTENDS MetricsRefresher

CONSTANTS n1, n2

=============================================================================
