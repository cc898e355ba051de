---------------------------- MODULE MCJobSystem ----------------------------
(***************************************************************************)
(* Instances of JobSystem for TLC: up to two jobs, up to two nodes with a  *)
(* slot each, and a few failures of each kind.                             *)
(***************************************************************************)
EXTENDS JobSystem, TLC

CONSTANTS j1, j2, s1, s2, n1, n2, cat, ghost, bad, sample

AllImages == {cat, ghost, bad, sample}

\* What the jobs ask for: the preset image and an unreadable upload, one upload.
SampleAndBad   == j1 :> sample @@ j2 :> bad
CatOnly        == j1 :> cat

TwoNodes == s1 :> n1 @@ s2 :> n2
OneNode  == s1 :> n1

Failures(fault, crash, lock, delete) ==
    "fault" :> fault @@ "crash" :> crash @@ "lock" :> lock @@ "delete" :> delete

OneFault         == Failures(1, 0, 0, 0)
ThreeFaults      == Failures(3, 0, 0, 0)
OneDelete        == Failures(0, 0, 0, 1)
CrashAfterFaults == Failures(3, 1, 0, 0)
FaultAndLock     == Failures(1, 0, 1, 0)
OneOfEach        == Failures(1, 1, 1, 1)
ManyFailures     == Failures(3, 1, 1, 1)

=============================================================================
