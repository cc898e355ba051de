-------------------------- MODULE SystemViewsProofs --------------------------
(***************************************************************************)
(* Proofs about SystemViews: what a client is shown of any number of jobs  *)
(* while the system takes any steps between two reads of its request.      *)
(***************************************************************************)
EXTENDS SystemViews, JobSystemProofs, WellFoundedInduction

-----------------------------------------------------------------------------
(* The views only watch.                                                   *)

LEMMA ViewStepIsSystemStep == [ViewNext]_allVars => [Next]_vars
  BY DEF ViewNext, allVars, Ask, CountQueue, ReadRows, Sign, AllSigned, Answer, Age, SystemStep

\* Requests for metrics, health and lists do not disturb the system: whatever
\* they are interleaved with, it behaves as it does without them.  In particular
\* all that is proved about JobSystem holds while it is watched.
THEOREM ViewsOnlyWatch == ViewSpec => Spec
<1>1. ViewInit => Init
  BY DEF ViewInit
<1>2. [ViewNext]_allVars => [Next]_vars
  BY ViewStepIsSystemStep
<1> QED  BY <1>1, <1>2, PTL DEF ViewSpec, Spec

-----------------------------------------------------------------------------
(* How a job moves through the structures that are read.                   *)

\* A job that has a row, or is being run, was submitted.
SubmittedInv ==
    \A j \in Jobs :
        HasRow(j) \/ (\E s \in Slots : Running(s, j)) => qstate[j] # "none"

LEMMA SubmittedInvStep ==
  ASSUME TypeOK, SubmittedInv, [Next]_vars
  PROVE  SubmittedInv'
<1>1. \A j \in Jobs : qstate[j] # "none" => qstate'[j] # "none"
  BY JobMoves
<1>2. \A j \in Jobs : HasRow(j)' => qstate[j] # "none"
  BY OnlyRunsMakeThings DEF SubmittedInv
<1>3. \A s \in Slots, j \in Jobs : Running(s, j)' => qstate[j] # "none"
  BY RunsAreClaimed DEF SubmittedInv
<1> QED  BY <1>1, <1>2, <1>3 DEF SubmittedInv

LEMMA SubmittedInvHolds == Spec => []SubmittedInv
<1>1. Init => SubmittedInv
  BY DEF Init, StoreInit, WorkerInit, SubmittedInv, HasRow, Running
<1>2. TypeOK /\ SubmittedInv /\ [Next]_vars => SubmittedInv'
  BY SubmittedInvStep
<1> QED  BY <1>1, <1>2, TypeCorrect, AgreeInvHolds, PTL DEF Spec

\* Whatever its status says by now, a row with a key has its object, unless the
\* job was deleted.
KeyInv == thumbnail \subseteq objects \cup purged

\* An object that disappears was that of a deleted job.
LEMMA ObjectsGoWithTheirRows ==
  ASSUME TypeOK, ThumbnailInv, [Next]_vars
  PROVE  objects \subseteq objects' \cup purged
<1>1. CASE \E n \in Nodes, j \in Jobs : DeleteObject(n, j)
  BY <1>1 DEF DeleteObject, deleteFileFromS3, fileVars, ThumbnailInv
<1>2. CASE \E s \in Slots, j \in Jobs : SlotStep(s, j) /\ UNCHANGED doomed
  BY <1>2, SlotSteps, MidRunKeepsObjects, EndOfRunReleasesTheSlot DEF fileVars
<1>3. CASE UNCHANGED fileVars
  BY <1>3 DEF fileVars
<1> QED
  BY <1>1, <1>2, <1>3
  DEF Next, vars, fileVars, Submit, EndBackoff, RecoverStalled, ClaimJob, RecordFinalFailure,
      ListenerFails, Restart, DeleteJobs, DeleteJobsFails, LoseLock, Crash

LEMMA KeyInvStep ==
  ASSUME TypeOK, ThumbnailInv, KeyInv, [Next]_vars
  PROVE  KeyInv'
<1>1. purged \subseteq purged'
  BY JobMoves, StepIsOperation
  DEF storeVars, insertJob, markJobInProgress, markJobCompleted, markJobFailed, deleteJobsByIds,
      deleteAllFinishedJobs, DeleteRows
<1>2. CASE thumbnail' \subseteq thumbnail
  BY <1>1, <1>2, ObjectsGoWithTheirRows DEF KeyInv
<1>3. CASE \E s \in Slots, j \in Jobs : SlotStep(s, j) /\ UNCHANGED doomed
  <2> PICK s \in Slots, j \in Jobs : SlotStep(s, j)
    BY <1>3
  <2>1. thumbnail' \subseteq thumbnail \/ /\ thumbnail' \subseteq thumbnail \cup {j}
                                          /\ Running(s, j) /\ pc[s] = "completing"
    BY DEF SlotStep, QueryAnswers, QueryFails, Query, CheckInput, Convert, Upload, CleanUp, Complete,
           Retry, FailForGood, FailRefused, storeVars, insertJob, markJobInProgress,
           markJobCompleted, markJobFailed
  <2>2. CASE thumbnail' \subseteq thumbnail \cup {j} /\ Running(s, j) /\ pc[s] = "completing"
    BY <1>1, <2>2, ObjectsGoWithTheirRows DEF ThumbnailInv, KeyInv
  <2> QED  BY <1>2, <2>1, <2>2
<1>4. CASE ~\E s \in Slots, j \in Jobs : SlotStep(s, j) /\ UNCHANGED doomed
  BY <1>2, <1>4
  DEF Next, vars, storeVars, Submit, EndBackoff, RecoverStalled, ClaimJob, RecordFinalFailure,
      ListenerFails, markJobFailed, DeleteObject, DeleteJobs, DeleteJobsFails, Removal,
      deleteJobsByIds, deleteAllFinishedJobs, DeleteRows, LoseLock, Crash
<1> QED  BY <1>3, <1>4

LEMMA KeyInvHolds == Spec => []KeyInv
<1>1. Init => KeyInv
  BY DEF Init, StoreInit, KeyInv
<1>2. TypeOK /\ ThumbnailInv /\ KeyInv /\ [Next]_vars => KeyInv'
  BY KeyInvStep
<1> QED  BY <1>1, <1>2, TypeCorrect, ThumbnailInvHolds, PTL DEF Spec

-----------------------------------------------------------------------------
(* Type correctness of a request.                                          *)

\* A request is at one of the places its kind goes to, and begins from nothing.
PlaceInv ==
    CASE view = "none"    -> at = "start" /\ counted = {} /\ listed = {} /\ signed = {}
      [] view = "metrics" -> at \in {"waiting", "prioritized", "active", "delayed", "rows", "done"}
      [] view = "health"  -> at \in {"rows", "waiting", "prioritized", "active", "done"}
      [] view = "list"    -> at \in {"rows", "signing", "done"} /\ (at = "rows" => signed = {})

LEMMA AskIsPlaced ==
  ASSUME NEW v \in {"metrics", "health", "list"}, NEW limited \in BOOLEAN, PlaceInv, Ask(v, limited)
  PROVE  /\ view' \in {"metrics", "health", "list"}
         /\ at' \in Structure
         /\ PlaceInv'
  BY DEF Ask, NextRead, MetricsReads, HealthReads, ListReads, Structure, PlaceInv

LEMMA ReadIsPlaced ==
  ASSUME ViewTypeOK, PlaceInv, CountQueue \/ ReadRows
  PROVE  /\ view # "none" /\ UNCHANGED view
         /\ at' \in Structure \cup {"signing", "done"}
         /\ PlaceInv'
<1>1. view \in {"metrics", "health", "list"} /\ view' = view /\ at' = NextRead(view)[at]
      /\ at \in Structure
      /\ signed' = signed
  BY DEF CountQueue, ReadRows, ViewTypeOK, Structure
<1>2. CASE view = "metrics"
  BY <1>1, <1>2 DEF NextRead, MetricsReads, PlaceInv, Structure
<1>3. CASE view = "health"
  BY <1>1, <1>3 DEF NextRead, HealthReads, PlaceInv, Structure
<1>4. CASE view = "list"
  BY <1>1, <1>4 DEF NextRead, ListReads, PlaceInv, Structure
<1> QED  BY <1>1, <1>2, <1>3, <1>4

LEMMA ViewTypeOKStep ==
  ASSUME TypeOK, TypeOK', SubmittedInv, ViewTypeOK, PlaceInv, [ViewNext]_allVars
  PROVE  ViewTypeOK' /\ PlaceInv'
<1>1. ASSUME NEW v \in {"metrics", "health", "list"}, NEW limited \in BOOLEAN, Ask(v, limited)
      PROVE  ViewTypeOK' /\ PlaceInv'
  <2>1. counted' = {} /\ listed' = {} /\ signed' = {} /\ before' \subseteq Jobs /\ windowed' \in BOOLEAN
    BY <1>1 DEF Ask, PlaceInv
  <2>2. UNCHANGED <<latencies, qstate, status, old, slipped>>
    BY <1>1 DEF Ask, vars, queueVars, storeVars
  <2> QED
    BY <1>1, <2>1, <2>2, AskIsPlaced DEF ViewTypeOK, Structure, HasRow
<1>2. CASE CountQueue
  <2>1. UNCHANGED <<view, windowed, latencies, listed, signed, before, qstate, status, old, slipped>>
    BY <1>2 DEF CountQueue, vars, queueVars, storeVars
  <2>2. /\ counted' = counted \cup InStructure(at)
        /\ InStructure(at) \subseteq {j \in Jobs : qstate[j] # "none"}
    BY <1>2 DEF CountQueue, InStructure
  <2> QED
    BY <1>2, <2>1, <2>2, ReadIsPlaced DEF ViewTypeOK, Structure, HasRow
<1>3. CASE ReadRows
  <2>1. UNCHANGED <<view, windowed, signed, before, qstate, status, old, slipped>>
    BY <1>3 DEF ReadRows, vars, queueVars, storeVars
  <2>2. PICK page \in SUBSET Jobs, v \in Samples :
           /\ counted' = counted \cup RowsOf(page)
           /\ listed' = ToSign(RowsOf(page))
           /\ latencies' = IF view = "metrics" THEN v ELSE <<>>
    BY <1>3 DEF ReadRows
  <2>3. RowsOf(page) \subseteq {j \in Jobs : qstate[j] # "none"}
    BY DEF RowsOf, SubmittedInv
  <2>4. ToSign(RowsOf(page)) \subseteq RowsOf(page) /\ ToSign(RowsOf(page)) \cap signed = {}
    BY <1>3 DEF ToSign, ReadRows, PlaceInv
  <2> QED
    BY <1>3, <2>1, <2>2, <2>3, <2>4, ReadIsPlaced DEF ViewTypeOK, Structure, HasRow
<1>8. CASE (\E j \in Jobs : Sign(j)) \/ AllSigned
  <2>1. UNCHANGED <<view, windowed, counted, latencies, before, qstate, status, old, slipped>>
    BY <1>8 DEF Sign, AllSigned, vars, queueVars, storeVars
  <2>2. /\ listed' \subseteq listed /\ signed' \subseteq signed \cup listed
        /\ listed' \cap signed' = {}
    BY <1>8 DEF Sign, AllSigned, ViewTypeOK
  <2>3. view = "list" /\ at = "signing"
    BY <1>8 DEF Sign, AllSigned, ViewTypeOK, PlaceInv
  <2>4. at' \in {"signing", "done"}
    BY <1>8, <2>3 DEF Sign, AllSigned, NextRead, ListReads
  <2> QED
    BY <2>1, <2>2, <2>3, <2>4 DEF ViewTypeOK, PlaceInv, HasRow
<1>4. CASE Answer
  BY <1>4 DEF Answer, ViewTypeOK, PlaceInv, Structure, vars, storeVars, HasRow
<1>5. CASE \E j \in Jobs : Age(j)
  BY <1>5 DEF Age, ViewTypeOK, PlaceInv, sampleVars, vars, queueVars, storeVars, HasRow
<1>6. CASE SystemStep
  <2>1. UNCHANGED sampleVars /\ Next
    BY <1>6 DEF SystemStep
  <2>2. \A j \in Jobs : qstate[j] # "none" => qstate'[j] # "none"
    BY <2>1, JobMoves
  <2>3. old' \subseteq {j \in Jobs : HasRow(j)'} /\ slipped' \subseteq Jobs
    BY <1>6 DEF SystemStep, ViewTypeOK, HasRow
  <2> QED
    BY <2>1, <2>2, <2>3 DEF ViewTypeOK, PlaceInv, sampleVars
<1>7. CASE UNCHANGED allVars
  BY <1>7
  DEF allVars, viewVars, sampleVars, vars, queueVars, storeVars, ViewTypeOK, PlaceInv, HasRow
<1> QED  BY <1>1, <1>2, <1>3, <1>4, <1>5, <1>6, <1>7, <1>8 DEF ViewNext

LEMMA ViewInvHolds == ViewSpec => [](ViewTypeOK /\ PlaceInv)
<1>1. ViewInit => ViewTypeOK /\ PlaceInv
  BY DEF ViewInit, Idle, ViewTypeOK, PlaceInv
<1>2. TypeOK /\ TypeOK' /\ SubmittedInv /\ ViewTypeOK /\ PlaceInv /\ [ViewNext]_allVars
         => ViewTypeOK' /\ PlaceInv'
  BY ViewTypeOKStep
<1> QED
  BY <1>1, <1>2, ViewsOnlyWatch, TypeCorrect, SubmittedInvHolds, PTL DEF ViewSpec

\* A request and what it has collected keep their types: only jobs that were
\* there when it began, or were submitted since, are counted or listed.
THEOREM ViewTypeCorrect == ViewSpec => []ViewTypeOK
  BY ViewInvHolds, PTL

-----------------------------------------------------------------------------
(* Signed URLs.                                                            *)

\* A listed key, signed or not, is that of an object, unless its row was deleted
\* since, or came back after a DELETE.
LinkInv == listed \cup signed \subseteq objects \cup purged

LEMMA LinkInvStep ==
  ASSUME TypeOK, ThumbnailInv, KeyInv, LinkInv, [ViewNext]_allVars
  PROVE  LinkInv'
<1> USE DEF LinkInv
<1>1. CASE ReadRows
  <2>1. listed' \subseteq thumbnail /\ UNCHANGED <<signed, objects, purged>>
    BY <1>1 DEF ReadRows, ToSign, vars, storeVars, fileVars
  <2> QED  BY <2>1 DEF KeyInv
<1>2. CASE SystemStep
  <2>1. UNCHANGED <<listed, signed>> /\ Next
    BY <1>2 DEF SystemStep, sampleVars
  <2>2. objects \subseteq objects' \cup purged
    BY <2>1, ObjectsGoWithTheirRows
  <2>3. purged \subseteq purged'
    BY <2>1, StepIsOperation
    DEF storeVars, insertJob, markJobInProgress, markJobCompleted, markJobFailed,
        deleteJobsByIds, deleteAllFinishedJobs, DeleteRows
  <2> QED  BY <2>1, <2>2, <2>3
<1>3. CASE /\ listed' \cup signed' \subseteq listed \cup signed
           /\ UNCHANGED <<objects, purged>>
  BY <1>3
<1> QED
  BY <1>1, <1>2, <1>3
  DEF ViewNext, allVars, viewVars, sampleVars, vars, storeVars, fileVars, Ask, CountQueue, Sign,
      AllSigned, Answer, Age

\* For any number of listed rows, whatever the system does between the listing,
\* the signing of each key and the answer, the URL of a listed thumbnail leads to
\* an object, unless a DELETE removed the row since it was listed or the row had
\* come back after one.
THEOREM SignedUrlsWorkTheorem == ViewSpec => []SignedUrlsWork
<1>1. ViewInit => LinkInv
  BY DEF ViewInit, Idle, LinkInv
<1>2. TypeOK /\ ThumbnailInv /\ KeyInv /\ LinkInv /\ [ViewNext]_allVars => LinkInv'
  BY LinkInvStep
<1>3. LinkInv => SignedUrlsWork
  BY DEF LinkInv, SignedUrlsWork
<1> QED
  BY <1>1, <1>2, <1>3, ViewsOnlyWatch, TypeCorrect, ThumbnailInvHolds, KeyInvHolds, PTL DEF ViewSpec

-----------------------------------------------------------------------------
(* No job is overlooked.                                                   *)

\* The jobs that the metrics can still count when `place' is read next.
Ahead(place) ==
    CASE place = "waiting" ->
              {j \in Jobs : qstate[j] \in {"waiting", "active", "delayed"} \/ HasRow(j)}
      [] place = "prioritized" ->
              {j \in Jobs : \/ qstate[j] = "waiting" /\ j \in Prioritized
                            \/ qstate[j] \in {"active", "delayed"} \/ HasRow(j)}
      [] place = "active" ->
              {j \in Jobs : qstate[j] \in {"active", "delayed"} \/ HasRow(j)}
      [] place = "delayed" -> {j \in Jobs : qstate[j] = "delayed" \/ HasRow(j)}
      [] place = "rows"    -> {j \in Jobs : HasRow(j)}
      [] place = "done"    -> IF windowed THEN old ELSE {}

\* What has not been counted is still ahead.
ReadInv ==
    view = "metrics" => before \subseteq counted \cup slipped \cup purged \cup Ahead(at)

LEMMA CountTakesWhatIsNotAhead ==
  ASSUME NEW place \in {"waiting", "prioritized", "active", "delayed"}
  PROVE  Ahead(place) \subseteq InStructure(place) \cup Ahead(MetricsReads[place])
<1>1. CASE place = "waiting"
  BY <1>1 DEF Ahead, InStructure, MetricsReads
<1>2. CASE place = "prioritized"
  BY <1>2 DEF Ahead, InStructure, MetricsReads
<1>3. CASE place = "active"
  BY <1>3 DEF Ahead, InStructure, MetricsReads
<1>4. CASE place = "delayed"
  BY <1>4 DEF Ahead, InStructure, MetricsReads
<1> QED  BY <1>1, <1>2, <1>3, <1>4

\* The structures are read in the direction in which jobs move.
LEMMA JobsStayAhead ==
  ASSUME TypeOK, Next,
         NEW place \in {"waiting", "prioritized", "active", "delayed", "rows"},
         NEW j \in Ahead(place)
  PROVE  j \in Ahead(place)' \/ Slips(j) \/ j \in purged'
<1>0. j \in Jobs
  BY DEF Ahead
<1>1. /\ HasRow(j) => HasRow(j)' \/ j \in purged'
      /\ qstate[j] = "waiting" => qstate'[j] \in {"waiting", "active"}
      /\ qstate[j] = "active" => qstate'[j] \in {"active", "waiting", "delayed", "completed", "failed"}
      /\ qstate[j] = "delayed" => qstate'[j] \in {"delayed", "waiting"}
  BY <1>0, JobMoves DEF Outcome
<1>2. CASE HasRow(j)
  BY <1>0, <1>1, <1>2 DEF Ahead
<1>3. CASE qstate[j] = "waiting" /\ ~HasRow(j)
  BY <1>0, <1>1, <1>3 DEF Ahead
<1>4. CASE qstate[j] = "active" /\ ~HasRow(j)
  <2>1. CASE qstate'[j] = "waiting" \/ (qstate'[j] \in {"completed", "failed"} /\ status'[j] = "absent")
    BY <1>4, <2>1 DEF Slips
  <2>2. CASE qstate'[j] \in {"active", "delayed"} \/ HasRow(j)'
    BY <1>0, <1>4, <2>2 DEF Ahead
  <2> QED  BY <1>1, <1>4, <2>1, <2>2 DEF HasRow
<1>5. CASE qstate[j] = "delayed" /\ ~HasRow(j)
  <2>1. CASE qstate'[j] = "waiting"
    BY <1>5, <2>1 DEF Slips
  <2>2. CASE qstate'[j] = "delayed"
    BY <1>0, <1>5, <2>2 DEF Ahead
  <2> QED  BY <1>1, <1>5, <2>1, <2>2
<1> QED  BY <1>2, <1>3, <1>4, <1>5 DEF Ahead

LEMMA ReadInvStep ==
  ASSUME TypeOK, ViewTypeOK, PlaceInv, ReadInv, [ViewNext]_allVars
  PROVE  ReadInv'
<1>1. ASSUME NEW v \in {"metrics", "health", "list"}, NEW limited \in BOOLEAN, Ask(v, limited)
      PROVE  ReadInv'
  <2> SUFFICES ASSUME v = "metrics"  PROVE before' \subseteq Ahead(at)'
    BY <1>1 DEF ReadInv, Ask
  <2>1. at' = "waiting" /\ UNCHANGED <<qstate, status>>
    BY <1>1 DEF Ask, NextRead, MetricsReads, vars, queueVars, storeVars
  <2>2. before' = {j \in Jobs : qstate[j] \in {"waiting", "active", "delayed"} \/ HasRow(j)}
    BY <1>1 DEF Ask
  <2> QED  BY <2>1, <2>2 DEF Ahead, HasRow
<1>2. CASE CountQueue
  <2> SUFFICES ASSUME view = "metrics"  PROVE ReadInv'
    BY <1>2 DEF ReadInv, CountQueue
  <2>1. /\ at \in {"waiting", "prioritized", "active", "delayed"}
        /\ at' = MetricsReads[at]
        /\ counted' = counted \cup InStructure(at)
        /\ UNCHANGED <<view, windowed, before, slipped, purged, old, qstate, status>>
    BY <1>2 DEF CountQueue, NextRead, Structure, vars, queueVars, storeVars
  <2>2. Ahead(at) \subseteq InStructure(at) \cup Ahead(at')
    BY <2>1, CountTakesWhatIsNotAhead
  <2>3. Ahead(at)' = Ahead(at')
    BY <2>1 DEF Ahead, HasRow
  <2> QED  BY <2>1, <2>2, <2>3 DEF ReadInv
<1>3. CASE ReadRows
  <2> SUFFICES ASSUME view = "metrics"  PROVE ReadInv'
    BY <1>3 DEF ReadInv, ReadRows
  <2>1. /\ at = "rows" /\ at' = "done"
        /\ UNCHANGED <<view, windowed, before, slipped, purged, old, qstate, status>>
    BY <1>3 DEF ReadRows, NextRead, MetricsReads, vars, queueVars, storeVars
  <2>2. PICK page \in SUBSET Jobs : counted' = counted \cup RowsOf(page)
    BY <1>3 DEF ReadRows
  <2>3. Ahead("rows") \subseteq RowsOf(page) \cup Ahead("done")
    BY DEF Ahead, RowsOf
  <2>4. Ahead(at)' = Ahead("done")
    BY <2>1 DEF Ahead
  <2> QED  BY <2>1, <2>2, <2>3, <2>4 DEF ReadInv
<1>8. CASE (\E j \in Jobs : Sign(j)) \/ AllSigned
  BY <1>8 DEF Sign, AllSigned, ReadInv, PlaceInv
<1>4. CASE Answer
  BY <1>4 DEF Answer, ReadInv
<1>5. CASE \E j \in Jobs : Age(j)
  <2>1. /\ at # "done"
        /\ UNCHANGED <<view, at, counted, before, slipped, purged, qstate, status>>
    BY <1>5 DEF Age, sampleVars, vars, queueVars, storeVars
  <2>2. view = "metrics" => at \in {"waiting", "prioritized", "active", "delayed", "rows"}
    BY <2>1 DEF PlaceInv
  <2>3. view = "metrics" => Ahead(at)' = Ahead(at)
    BY <2>1, <2>2 DEF Ahead, HasRow
  <2> QED  BY <2>1, <2>3 DEF ReadInv
<1>6. CASE SystemStep
  <2> SUFFICES ASSUME view = "metrics"
               PROVE  before' \subseteq (counted \cup slipped \cup purged \cup Ahead(at))'
    BY <1>6 DEF ReadInv, SystemStep, sampleVars
  <2>1. /\ UNCHANGED <<view, at, counted, before>> /\ Next
        /\ slipped' = slipped \cup {j \in Jobs : Slips(j)}
        /\ at \in {"waiting", "prioritized", "active", "delayed", "rows"}
    BY <1>6 DEF SystemStep, sampleVars, PlaceInv
  <2>2. purged \subseteq purged'
    BY <2>1, StepIsOperation
    DEF storeVars, insertJob, markJobInProgress, markJobCompleted, markJobFailed,
        deleteJobsByIds, deleteAllFinishedJobs, DeleteRows
  <2>3. \A j \in Ahead(at) : j \in Ahead(at)' \/ Slips(j) \/ j \in purged'
    <3> TAKE j \in Ahead(at)
    <3>1. j \in Ahead(at) /\ UNCHANGED at
      BY <2>1
    <3> QED  BY <2>1, <3>1, JobsStayAhead
  <2>4. Ahead(at) \subseteq Jobs
    BY <2>1 DEF Ahead
  <2> QED  BY <2>1, <2>2, <2>3, <2>4 DEF ReadInv
<1>7. CASE UNCHANGED allVars
  <2>1. UNCHANGED <<view, at, windowed, counted, before, slipped, purged, old, qstate, status>>
    BY <1>7 DEF allVars, viewVars, sampleVars, vars, queueVars, storeVars
  <2>2. Ahead(at)' = Ahead(at)
    BY <2>1 DEF Ahead, HasRow
  <2> QED  BY <2>1, <2>2 DEF ReadInv
<1> QED  BY <1>1, <1>2, <1>3, <1>4, <1>5, <1>6, <1>7, <1>8 DEF ViewNext

\* GET /metrics overlooks no job that was there when the request came, for any
\* number of jobs and whatever moves between its five reads.
THEOREM NoJobIsOverlookedTheorem == ViewSpec => []NoJobIsOverlooked
<1>1. ViewInit => ReadInv
  BY DEF ViewInit, Idle, ReadInv
<1>2. TypeOK /\ ViewTypeOK /\ PlaceInv /\ ReadInv /\ [ViewNext]_allVars => ReadInv'
  BY ReadInvStep
<1>3. ReadInv => NoJobIsOverlooked
  BY DEF ReadInv, NoJobIsOverlooked, Ahead
<1> QED
  BY <1>1, <1>2, <1>3, ViewsOnlyWatch, TypeCorrect, ViewInvHolds, PTL DEF ViewSpec

-----------------------------------------------------------------------------
(* The percentiles of one distribution.                                    *)

LEMMA RoundEvenIsMonotone ==
  ASSUME NEW a \in Nat, NEW b \in Nat, a <= b
  PROVE  RoundEven(a, 100) <= RoundEven(b, 100)
  BY SMTT(30) DEF RoundEven, RoundUp

LEMMA RoundEvenIsExact ==
  ASSUME NEW c \in Nat
  PROVE  RoundEven(100 * c, 100) = c
  BY SMTT(30) DEF RoundEven, RoundUp

\* The rank that calculatePercentile takes is next to the position from which
\* percentile_cont interpolates.
LEMMA RankIsAPosition ==
  ASSUME NEW n \in Nat \ {0}, NEW p \in {50, 95, 99}
  PROVE  /\ NearestRank(n, p) \in 1..n
         /\ NearestRank(n, p) \in {Position(n, p) \div 100, (Position(n, p) + 99) \div 100}
<1>1. CASE p = 50
  BY <1>1, SMTT(30) DEF NearestRank, Position
<1>2. CASE p = 95
  BY <1>2, SMTT(30) DEF NearestRank, Position
<1>3. CASE p = 99
  BY <1>3, SMTT(30) DEF NearestRank, Position
<1> QED  BY <1>1, <1>2, <1>3

LEMMA PositionsAreIndices ==
  ASSUME NEW n \in Nat \ {0}, NEW a \in 100..(100 * n)
  PROVE  /\ a \div 100 \in 1..n
         /\ (a + 99) \div 100 \in 1..n
         /\ a \div 100 <= (a + 99) \div 100
         /\ a % 100 \in 0..99
  BY SMTT(30)

\* A hundred times the value at the index a / 100, between two neighbours.
Interpolated(v, a) ==
    100 * v[a \div 100] + (a % 100) * (v[(a + 99) \div 100] - v[a \div 100])

LEMMA BetweenIsBounded ==
  ASSUME NEW low \in Nat, NEW upp \in Nat, low <= upp, NEW f \in 0..99
  PROVE  /\ 100 * low + f * (upp - low) \in Nat
         /\ 100 * low <= 100 * low + f * (upp - low)
         /\ 100 * low + f * (upp - low) <= 100 * upp
<1> DEFINE d == upp - low
<1>1. d \in Nat /\ upp = low + d
  OBVIOUS
<1> HIDE DEF d
<1>2. f * d \in Nat /\ f * d <= 100 * d
  BY <1>1, SMTT(30)
<1>3. 100 * low + f * d \in Nat /\ 100 * low <= 100 * low + f * d /\ 100 * low + f * d <= 100 * upp
  BY <1>1, <1>2
<1> QED  BY <1>3 DEF d

LEMMA BetweenIsMonotone ==
  ASSUME NEW low \in Nat, NEW upp \in Nat, low <= upp, NEW f \in 0..99, NEW g \in 0..99, f <= g
  PROVE  100 * low + f * (upp - low) <= 100 * low + g * (upp - low)
<1> DEFINE d == upp - low
<1>1. d \in Nat
  OBVIOUS
<1> HIDE DEF d
<1>2. f * d \in Nat /\ g * d \in Nat /\ f * d <= g * d
  BY <1>1, SMTT(30)
<1>3. 100 * low + f * d <= 100 * low + g * d
  BY <1>1, <1>2
<1> QED  BY <1>3 DEF d

LEMMA InterpolationIsMonotone ==
  ASSUME NEW v \in Seq(Nat), Ascending(v), v # <<>>,
         NEW a \in 100..(100 * Len(v)), NEW b \in 100..(100 * Len(v)), a <= b
  PROVE  Interpolated(v, a) \in Nat /\ Interpolated(v, a) <= Interpolated(v, b)
<1> DEFINE i == a \div 100   k == (a + 99) \div 100   f == a % 100
           m == b \div 100   n == (b + 99) \div 100   g == b % 100
<1>0. Len(v) \in Nat \ {0}
  OBVIOUS
<1>1. /\ i \in 1..Len(v) /\ k \in 1..Len(v) /\ i <= k /\ f \in 0..99
      /\ m \in 1..Len(v) /\ n \in 1..Len(v) /\ m <= n /\ g \in 0..99
  BY <1>0, PositionsAreIndices
<1>2. \/ i = m /\ f <= g /\ k = n
      \/ i = m /\ f = 0 /\ k = i
      \/ k <= m
  BY SMTT(30)
<1>3. /\ Interpolated(v, a) = 100 * v[i] + f * (v[k] - v[i])
      /\ Interpolated(v, b) = 100 * v[m] + g * (v[n] - v[m])
  BY DEF Interpolated
<1> HIDE DEF i, k, f, m, n, g
<1>4. /\ v[i] \in Nat /\ v[k] \in Nat /\ v[m] \in Nat /\ v[n] \in Nat
      /\ v[i] <= v[k] /\ v[m] <= v[n] /\ (k <= m => v[k] <= v[m])
  <2>1. /\ DOMAIN v = 1..Len(v)
        /\ \A x \in 1..Len(v) : v[x] \in Nat
    OBVIOUS
  <2>2. \A x, y \in 1..Len(v) : x <= y => v[x] <= v[y]
    BY <2>1 DEF Ascending
  <2> QED  BY <1>1, <2>1, <2>2, Zenon
<1> DEFINE low == v[i]   upp == v[k]   nextLow == v[m]   nextUpp == v[n]
<1>5. /\ Interpolated(v, a) \in Nat
      /\ 100 * low <= Interpolated(v, a) /\ Interpolated(v, a) <= 100 * upp
  <2>1. low \in Nat /\ upp \in Nat /\ low <= upp /\ Interpolated(v, a) = 100 * low + f * (upp - low)
    BY <1>3, <1>4
  <2> HIDE DEF low, upp
  <2>2. /\ 100 * low + f * (upp - low) \in Nat
        /\ 100 * low <= 100 * low + f * (upp - low)
        /\ 100 * low + f * (upp - low) <= 100 * upp
    BY <1>1, <2>1, BetweenIsBounded, Zenon
  <2> QED  BY <2>1, <2>2
<1>6. /\ Interpolated(v, b) \in Nat
      /\ 100 * nextLow <= Interpolated(v, b)
  <2>1. /\ nextLow \in Nat /\ nextUpp \in Nat /\ nextLow <= nextUpp
        /\ Interpolated(v, b) = 100 * nextLow + g * (nextUpp - nextLow)
    BY <1>3, <1>4
  <2> HIDE DEF nextLow, nextUpp
  <2>2. /\ 100 * nextLow + g * (nextUpp - nextLow) \in Nat
        /\ 100 * nextLow <= 100 * nextLow + g * (nextUpp - nextLow)
    BY <1>1, <2>1, BetweenIsBounded, Zenon
  <2> QED  BY <2>1, <2>2
<1>7. CASE i = m /\ f <= g /\ k = n
  <2>1. /\ low \in Nat /\ upp \in Nat /\ low <= upp
        /\ Interpolated(v, a) = 100 * low + f * (upp - low)
        /\ Interpolated(v, b) = 100 * low + g * (upp - low)
    BY <1>3, <1>4, <1>7
  <2>2. Interpolated(v, a) <= Interpolated(v, b)
    <3> HIDE DEF low, upp
    <3> QED  BY <1>1, <1>7, <2>1, BetweenIsMonotone, Zenon
  <2> QED  BY <1>5, <2>2
<1>8. CASE i = m /\ k = i
  BY <1>4, <1>5, <1>6, <1>8
<1>9. CASE k <= m
  BY <1>4, <1>5, <1>6, <1>9
<1> QED  BY <1>2, <1>5, <1>7, <1>8, <1>9

LEMMA InterpolationAtTheEnds ==
  ASSUME NEW v \in Seq(Nat), v # <<>>
  PROVE  /\ Interpolated(v, 100) = 100 * v[1] /\ v[1] \in Nat
         /\ Interpolated(v, 100 * Len(v)) = 100 * v[Len(v)] /\ v[Len(v)] \in Nat
<1>1. Len(v) \in Nat \ {0} /\ v[1] \in Nat /\ v[Len(v)] \in Nat
  OBVIOUS
<1>2. \A n \in Nat : (100 * n) \div 100 = n /\ (100 * n + 99) \div 100 = n /\ (100 * n) % 100 = 0
  BY SMTT(30)
<1>3. 100 \div 100 = 1 /\ (100 + 99) \div 100 = 1 /\ 100 % 100 = 0
  OBVIOUS
<1> QED  BY <1>1, <1>2, <1>3 DEF Interpolated

LEMMA PercentilesOfSample ==
  ASSUME NEW v \in Seq(Nat), Ascending(v)
  PROVE  /\ Smallest(v) <= percentile_cont(v, 50)
         /\ percentile_cont(v, 50) <= percentile_cont(v, 95)
         /\ percentile_cont(v, 95) <= percentile_cont(v, 99)
         /\ percentile_cont(v, 99) <= Largest(v)
<1>1. CASE v = <<>>
  BY <1>1 DEF Smallest, Largest, percentile_cont
<1>2. CASE v # <<>>
  <2> DEFINE n == Len(v)
             at50 == Position(n, 50)   at95 == Position(n, 95)   at99 == Position(n, 99)
  <2>1. /\ 100 \in 100..(100 * n) /\ at50 \in 100..(100 * n) /\ at95 \in 100..(100 * n)
        /\ at99 \in 100..(100 * n) /\ 100 * n \in 100..(100 * n)
        /\ 100 <= at50 /\ at50 <= at95 /\ at95 <= at99 /\ at99 <= 100 * n
    <3>1. n \in Nat \ {0}
      BY <1>2
    <3> HIDE DEF n
    <3> QED  BY <3>1 DEF Position
  <2>2. /\ percentile_cont(v, 50) = RoundEven(Interpolated(v, at50), 100)
        /\ percentile_cont(v, 95) = RoundEven(Interpolated(v, at95), 100)
        /\ percentile_cont(v, 99) = RoundEven(Interpolated(v, at99), 100)
    BY <1>2, Zenon DEF percentile_cont, Interpolated
  <2> HIDE DEF n, at50, at95, at99
  <2>3. /\ Interpolated(v, 100) \in Nat /\ Interpolated(v, at50) \in Nat
        /\ Interpolated(v, at95) \in Nat /\ Interpolated(v, at99) \in Nat
        /\ Interpolated(v, 100 * n) \in Nat
        /\ Interpolated(v, 100) <= Interpolated(v, at50)
        /\ Interpolated(v, at50) <= Interpolated(v, at95)
        /\ Interpolated(v, at95) <= Interpolated(v, at99)
        /\ Interpolated(v, at99) <= Interpolated(v, 100 * n)
    BY <1>2, <2>1, InterpolationIsMonotone DEF n
  <2>4. /\ RoundEven(Interpolated(v, 100), 100) = Smallest(v)
        /\ RoundEven(Interpolated(v, 100 * n), 100) = Largest(v)
    BY <1>2, InterpolationAtTheEnds, RoundEvenIsExact DEF Smallest, Largest, n
  <2> QED  BY <2>2, <2>3, <2>4, RoundEvenIsMonotone
<1> QED  BY <1>1, <1>2

LEMMA LatenciesAreASample == ViewTypeOK => latencies \in Seq(Nat) /\ Ascending(latencies)
<1>1. <<>> \in Seq(Nat) /\ Ascending(<<>>)
  BY DEF Ascending
<1>2. ASSUME NEW v \in Samples \cup {<<>>}
      PROVE  v \in Seq(Nat) /\ Ascending(v)
  BY <1>1, ViewAssumption, Zenon
<1> QED  BY <1>2, Zenon DEF ViewTypeOK

\* For any number of rows, the reported percentiles are in order and between
\* the smallest and the largest latency.
THEOREM PercentilesAreOrderedTheorem == ViewSpec => []PercentilesAreOrdered
<1>1. ViewTypeOK => PercentilesAreOrdered
  BY LatenciesAreASample, PercentilesOfSample DEF PercentilesAreOrdered, Fractions
<1> QED  BY <1>1, ViewTypeCorrect, PTL

\* For any number of rows, the value calculatePercentile took is one of the two
\* that percentile_cont interpolates between.
THEOREM PushdownKeepsPercentilesTheorem == ViewSpec => []PushdownKeepsPercentiles
<1>1. ASSUME ViewTypeOK, NEW field \in DOMAIN Fractions, latencies # <<>>
      PROVE  LET p     == Fractions[field]
                 at100 == Position(Len(latencies), p)
             IN  /\ NearestRank(Len(latencies), p) \in DOMAIN latencies
                 /\ calculatePercentile(latencies, p) \in
                       {latencies[at100 \div 100], latencies[(at100 + 99) \div 100]}
  <2>1. Len(latencies) \in Nat \ {0} /\ DOMAIN latencies = 1..Len(latencies)
    BY <1>1, LatenciesAreASample
  <2>2. Fractions[field] \in {50, 95, 99}
    BY <1>1 DEF Fractions
  <2> DEFINE n    == Len(latencies)
             p    == Fractions[field]
             rank == NearestRank(n, p)
             pos  == Position(n, p)
  <2>3. rank \in 1..n /\ rank \in {pos \div 100, (pos + 99) \div 100}
    <3>1. n \in Nat \ {0} /\ p \in {50, 95, 99}
      BY <2>1, <2>2
    <3> HIDE DEF n, p
    <3>2. /\ NearestRank(n, p) \in 1..n
          /\ NearestRank(n, p) \in {Position(n, p) \div 100, (Position(n, p) + 99) \div 100}
      BY <3>1, RankIsAPosition
    <3> QED  BY <3>2, Zenon
  <2>4. calculatePercentile(latencies, p) = latencies[rank]
    BY <1>1, Zenon DEF calculatePercentile
  <2> HIDE DEF n, p, rank, pos
  <2>5. latencies[rank] \in {latencies[pos \div 100], latencies[(pos + 99) \div 100]}
    BY <2>3, Zenon
  <2>6. rank \in DOMAIN latencies
    BY <2>1, <2>3 DEF n
  <2> QED  BY <2>4, <2>5, <2>6 DEF n, p, rank, pos
<1>2. ViewTypeOK => PushdownKeepsPercentiles
  BY <1>1 DEF PushdownKeepsPercentiles
<1> QED  BY <1>2, ViewTypeCorrect, PTL

-----------------------------------------------------------------------------
(* The mean of one distribution.                                           *)

\* Induction over a set of natural numbers: the least number outside it would
\* be 0 or follow a number inside.
LEMMA InductiveSet ==
    ASSUME NEW S, NEW m \in Nat, 0 \in S, \A n \in Nat : n < m /\ n \in S => n + 1 \in S
    PROVE  \A n \in 0..m : n \in S
<1> DEFINE T == {n \in 0..m : n \notin S}
<1> SUFFICES ASSUME T # {} PROVE FALSE
    OBVIOUS
<1>1. T \subseteq Nat
  OBVIOUS
<1>2. \E n \in T : \A k \in T : ~(<<k, n>> \in OpToRel(<, Nat))
  <2> HIDE DEF T
  <2> QED  BY <1>1, NatLessThanWellFounded, WFMin, Zenon
<1>3. PICK n \in T : \A k \in T : ~(k < n)
  <2>1. \A k, n \in Nat : k < n => <<k, n>> \in OpToRel(<, Nat)
    BY DEF OpToRel
  <2> QED  BY <1>1, <1>2, <2>1
<1>4. n # 0 /\ n - 1 \in Nat /\ n - 1 < m /\ n - 1 \notin T /\ n - 1 \in 0..m
  BY <1>3
<1>5. n - 1 \in S
  BY <1>4
<1> QED  BY <1>3, <1>4, <1>5

\* f is the function of the running sums of v up to its position m.
Sums(v, f, m) == f = [n \in 0..m |-> IF n = 0 THEN 0 ELSE f[n - 1] + v[n]]

\* The recursion that Total is defined by has a solution, for a sample of any
\* length, and Total is its last value.
LEMMA TotalIsASum ==
    ASSUME NEW v \in Seq(Nat)
    PROVE  \E f : Sums(v, f, Len(v)) /\ Total(v) = f[Len(v)]
<1> DEFINE S == {m \in Nat : \E f : Sums(v, f, m)}
<1>1. 0 \in S
  <2>1. Sums(v, [n \in 0..0 |-> 0], 0)
    BY DEF Sums
  <2> QED  BY <2>1
<1>2. ASSUME NEW m \in Nat, m \in S PROVE m + 1 \in S
  <2>1. PICK f : Sums(v, f, m)
    BY <1>2
  <2> DEFINE g == [n \in 0..(m + 1) |-> IF n = m + 1 THEN f[m] + v[m + 1] ELSE f[n]]
  <2>2. \A n \in 0..m : f[n] = IF n = 0 THEN 0 ELSE f[n - 1] + v[n]
    BY <2>1 DEF Sums
  <2>3. ASSUME NEW n \in 0..(m + 1) PROVE g[n] = IF n = 0 THEN 0 ELSE g[n - 1] + v[n]
    <3>1. CASE n = m + 1
      BY <3>1
    <3>2. CASE n # m + 1
      <4>1. n \in 0..m /\ (n # 0 => n - 1 \in 0..m /\ n - 1 # m + 1)
        BY <3>2
      <4> QED  BY <2>2, <3>2, <4>1
    <3> QED  BY <3>1, <3>2
  <2>4. Sums(v, g, m + 1)
    BY <2>3 DEF Sums
  <2> QED  BY <2>4
<1>3. Len(v) \in S
  <2>1. Len(v) \in Nat /\ \A n \in Nat : n < Len(v) /\ n \in S => n + 1 \in S
    BY <1>2
  <2> HIDE DEF S
  <2>2. \A n \in 0..Len(v) : n \in S
    BY <1>1, <2>1, InductiveSet, Zenon
  <2> QED  BY <2>1, <2>2
<1>4. PICK f : Sums(v, f, Len(v))
  BY <1>3
<1> DEFINE sum == CHOOSE f_1 : Sums(v, f_1, Len(v))
<1>5. Sums(v, sum, Len(v))
  BY <1>4
<1>6. Total(v) = sum[Len(v)]
  BY Zenon DEF Total, Sums
<1> QED  BY <1>5, <1>6

\* What \div does.
LEMMA DivisionRounds ==
    ASSUME NEW a \in Nat, NEW b \in Nat \ {0}
    PROVE  /\ a \div b \in Nat
           /\ b * (a \div b) <= a
           /\ a < b * (a \div b) + b
OBVIOUS

\* By induction over the positions: every value of an ascending sample is between
\* the first and the last.
LEMMA TotalIsBounded ==
    ASSUME NEW v \in Seq(Nat), Ascending(v), v # <<>>
    PROVE  /\ Total(v) \in Nat
           /\ v[1] * Len(v) <= Total(v)
           /\ Total(v) <= v[Len(v)] * Len(v)
<1> DEFINE lo == v[1]
           hi == v[Len(v)]
<1>1. Len(v) \in Nat \ {0} /\ lo \in Nat /\ hi \in Nat
      /\ \A n \in 1..Len(v) : v[n] \in Nat /\ lo <= v[n] /\ v[n] <= hi
  BY DEF Ascending
<1>2. PICK f : Sums(v, f, Len(v)) /\ Total(v) = f[Len(v)]
  BY TotalIsASum
<1> DEFINE S == {n \in 0..Len(v) : f[n] \in Nat /\ lo * n <= f[n] /\ f[n] <= hi * n}
<1>3. f[0] = 0 /\ \A n \in 1..Len(v) : f[n] = f[n - 1] + v[n]
  <2>1. \A n \in 0..Len(v) : f[n] = IF n = 0 THEN 0 ELSE f[n - 1] + v[n]
    BY <1>2 DEF Sums
  <2> QED  BY <1>1, <2>1
<1>6. 0 \in S
  BY <1>1, <1>3
<1>4. ASSUME NEW n \in Nat, n < Len(v), n \in S PROVE n + 1 \in S
  <2>1. f[n + 1] = f[n] + v[n + 1] /\ n + 1 \in 1..Len(v)
    BY <1>1, <1>3, <1>4
  <2> HIDE DEF lo, hi
  <2>2. lo * (n + 1) = lo * n + lo /\ hi * (n + 1) = hi * n + hi /\ lo * n \in Nat /\ hi * n \in Nat
    BY <1>1
  <2>3. lo <= v[n + 1] /\ v[n + 1] <= hi /\ v[n + 1] \in Nat
    BY <1>1, <2>1
  <2> DEFINE ln == lo * n
             hn == hi * n
             lm == lo * (n + 1)
             hm == hi * (n + 1)
  <2>4. f[n] \in Nat /\ ln <= f[n] /\ f[n] <= hn
    BY <1>4
  <2>5. lm = ln + lo /\ hm = hn + hi /\ ln \in Nat /\ hn \in Nat
    BY <2>2
  <2> HIDE DEF ln, hn, lm, hm
  <2>6. f[n + 1] \in Nat /\ lm <= f[n + 1] /\ f[n + 1] <= hm
    BY <1>1, <2>1, <2>3, <2>4, <2>5
  <2>7. f[n + 1] \in Nat /\ lo * (n + 1) <= f[n + 1] /\ f[n + 1] <= hi * (n + 1)
    BY <2>6, Zenon DEF lm, hm
  <2>8. n + 1 \in 0..Len(v)
    BY <1>1, <2>1
  <2> QED  BY <2>7, <2>8, Zenon DEF lo, hi
<1>5. Len(v) \in S
  <2> HIDE DEF S
  <2>1. \A n \in 0..Len(v) : n \in S
    BY <1>1, <1>4, <1>6, InductiveSet, Zenon
  <2> QED  BY <1>1, <2>1
<1> QED  BY <1>2, <1>5

\* The nearest whole number to a quotient is between the whole numbers around it.
LEMMA RoundUpIsBetween ==
    ASSUME NEW a \in Nat, NEW b \in Nat \ {0}, NEW lo \in Nat, NEW hi \in Nat,
           lo * b <= a, a <= hi * b
    PROVE  RoundUp(a, b) \in lo..hi
<1> DEFINE q == (2 * a + b) \div (2 * b)
<1>1. q \in Nat /\ (2 * b) * q <= 2 * a + b /\ 2 * a + b < (2 * b) * q + 2 * b
  <2>1. 2 * a + b \in Nat /\ 2 * b \in Nat \ {0}
    OBVIOUS
  <2> QED  BY <2>1, DivisionRounds
<1>2. q <= hi
  <2> SUFFICES ASSUME hi + 1 <= q PROVE FALSE
    BY <1>1
  <2> HIDE DEF q
  <2>1. (hi + 1) * (2 * b) <= q * (2 * b)
    BY <1>1
  <2> QED  BY <1>1, <2>1
<1>3. lo <= q
  <2> SUFFICES ASSUME q + 1 <= lo PROVE FALSE
    BY <1>1
  <2> HIDE DEF q
  <2>1. (q + 1) * (2 * b) <= lo * (2 * b)
    BY <1>1
  <2> QED  BY <1>1, <2>1
<1> QED  BY <1>1, <1>2, <1>3 DEF RoundUp

LEMMA MeanOfSample ==
    ASSUME NEW v \in Seq(Nat), Ascending(v), v # <<>>
    PROVE  Mean(v) \in v[1]..v[Len(v)]
<1>1. Len(v) \in Nat \ {0} /\ v[1] \in Nat /\ v[Len(v)] \in Nat
  OBVIOUS
<1> QED  BY <1>1, TotalIsBounded, RoundUpIsBetween DEF Mean

\* For any number of rows, AVG and ROUND give a latency between the smallest and
\* the largest one that is reported with it.
THEOREM MeanIsInRangeTheorem == ViewSpec => []MeanIsInRange
<1>1. ASSUME ViewTypeOK PROVE MeanIsInRange
  <2>1. latencies \in Seq(Nat) /\ Ascending(latencies)
    BY <1>1, LatenciesAreASample
  <2>2. CASE latencies = <<>>
    BY <2>2 DEF MeanIsInRange, Mean, Smallest, Largest
  <2>3. CASE latencies # <<>>
    BY <2>1, <2>3, MeanOfSample DEF MeanIsInRange, Smallest, Largest
  <2> QED  BY <2>2, <2>3
<1> QED  BY <1>1, ViewTypeCorrect, PTL

=============================================================================
