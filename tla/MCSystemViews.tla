--------------------------- MODULE MCSystemViews ---------------------------
(***************************************************************************)
(* An instance of SystemViews for TLC: one job on one slot of one node,    *)
(* and tables with up to MaxRows latencies.                                 *)
(***************************************************************************)
EXTENDS SystemViews, TLC

CONSTANTS j1, s1, n1, cat, MaxRows

AscendingSamples ==
    {v \in UNION {[1..n -> {0, 1, 40}] : n \in 0..MaxRows} : Ascending(v)}

CatOnly  == j1 :> cat
OneNode  == s1 :> n1

Failures == "fault" :> 1 @@ "crash" :> 1 @@ "lock" :> 1 @@ "delete" :> 1

=============================================================================
