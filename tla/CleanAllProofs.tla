--------------------------- MODULE CleanAllProofs ---------------------------
(***************************************************************************)
(* Proofs about CleanAll.  The script takes jobs, rows and files away      *)
(* behind the system's back, so that a behaviour of CleanSpec is not one   *)
(* of Spec: what is proved of Spec does not carry over, the lemmas about   *)
(* the steps of Next do.                                                   *)
(***************************************************************************)
EXTENDS CleanAll, JobLifecycleProofs

-----------------------------------------------------------------------------
(* Type correctness.                                                       *)

LEMMA TheOrder ==
  /\ Then("drain") = "pause"
  /\ Then("pause") = "obliterate"
  /\ Then("obliterate") = "rows"
  /\ Then("rows") = "list"
  /\ Then("list") = "delete"
  /\ Then("delete") = "readdir uploads"
  /\ Then("readdir uploads") = "uploads"
  /\ Then("uploads") = "readdir outputs"
  /\ Then("readdir outputs") = "outputs"
  /\ Then("outputs") = "done"
  BY DEF Then

\* Where the script goes on when the call fails, and which part it gives up.
LEMMA TheRecovery ==
  ASSUME NEW call \in Call
  PROVE  /\ PartOf(call) \in Part
         /\ call \in {"drain", "pause", "obliterate"} =>
               PartOf(call) = "queue" /\ Recovery(PartOf(call)) = "rows"
         /\ call = "rows" => PartOf(call) = "rows" /\ Recovery(PartOf(call)) = "list"
         /\ call \in {"list", "delete"} =>
               PartOf(call) = "objects" /\ Recovery(PartOf(call)) = "readdir uploads"
         /\ call \in {"readdir uploads", "uploads", "readdir outputs", "outputs"} =>
               PartOf(call) = "files" /\ Recovery(PartOf(call)) = "done"
  BY DEF Call, Part, PartOf, Recovery

\* Taking jobs out of the queue leaves the rest of the system as it is.
LEMMA RemovedJobs ==
  ASSUME TypeOK, NEW jobs \in SUBSET Jobs, RemoveFromQueue(jobs),
         UNCHANGED <<storeVars, fileVars, workerVars, doomed>>
  PROVE  /\ TypeOK'
         /\ \A j \in Jobs : qstate'[j] = IF j \in jobs THEN "none" ELSE qstate[j]
         /\ UNCHANGED <<attemptsMade, stalls>>
         /\ \A s \in Slots, j \in Jobs : Running(s, j)' <=> Running(s, j)
         /\ wiped' = wiped \cup jobs
<1>1. QueueTypeOK'
  BY DEF TypeOK, QueueTypeOK, QueueState, RemoveFromQueue
<1>2. StoreTypeOK' /\ FileTypeOK' /\ WorkerTypeOK'
  BY DEF TypeOK, StoreTypeOK, FileTypeOK, WorkerTypeOK, storeVars, fileVars, workerVars
<1> QED  BY <1>1, <1>2 DEF TypeOK, RemoveFromQueue, workerVars, Running

\* The steps beside the system: the calls of the script, and multer's writes.
ScriptStep ==
    \/ Drain \/ Pause \/ Obliterate \/ DeleteAllRows \/ List \/ DeleteListed
    \/ \E f \in Images : UnlinkUpload(f)
    \/ \E j \in Jobs : UnlinkOutput(j)
    \/ DirectoryDone \/ PartFails
    \/ \E f \in Uploading : StoreUpload(f)

LEMMA StepsOfTwo == CleanNext <=> ScriptStep \/ SystemStep
  BY DEF CleanNext, ScriptStep

LEMMA ScriptStepTypeOK ==
  ASSUME CleanTypeOK, ScriptStep
  PROVE  CleanTypeOK'
<1>0. TypeOK
  BY DEF CleanTypeOK
<1>1. CASE Drain
  <2>1. TypeOK' /\ \A j \in Jobs : j \in wiped' => qstate'[j] = "none"
    BY <1>0, <1>1, RemovedJobs DEF Drain, CleanTypeOK
  <2> QED
    BY <1>1, <2>1, TheOrder DEF Drain, RemoveFromQueue, CleanTypeOK, Call, fileVars
<1>2. CASE Obliterate
  <2>1. TypeOK' /\ \A j \in Jobs : j \in wiped' => qstate'[j] = "none"
    BY <1>0, <1>2, RemovedJobs DEF Obliterate, CleanTypeOK
  <2> QED
    BY <1>2, <2>1, TheOrder DEF Obliterate, RemoveFromQueue, CleanTypeOK, Call, fileVars
<1>3. CASE DeleteAllRows
  <2>1. StoreTypeOK'
    BY <1>0, <1>3 DEF TypeOK, DeleteAllRows, DeleteRows, StoreTypeOK, RowStatus
  <2> QED
    BY <1>0, <1>3, <2>1, TheOrder
    DEF DeleteAllRows, CleanTypeOK, TypeOK, QueueTypeOK, FileTypeOK, WorkerTypeOK, Call, queueVars,
        fileVars, workerVars, historyVars
<1>4. CASE List
  <2>1. TypeOK'
    BY <1>0, <1>4
    DEF List, TypeOK, QueueTypeOK, StoreTypeOK, FileTypeOK, WorkerTypeOK, vars, queueVars,
        storeVars, fileVars, workerVars
  <2>2. /\ script = "list" => listed' \subseteq Jobs /\ script' = "delete"
        /\ script = "readdir uploads" =>
              listed' \subseteq Provided \cup stored /\ script' = "uploads"
        /\ script = "readdir outputs" => listed' \subseteq Jobs /\ script' = "outputs"
    BY <1>0, <1>4, TheOrder DEF List, Listing, CleanTypeOK, TypeOK, FileTypeOK
  <2> QED
    BY <1>4, <2>1, <2>2 DEF List, CleanTypeOK, Call, vars, queueVars, fileVars, historyVars
<1>5. CASE DeleteListed
  <2>1. left' \in [Failure -> Nat] /\ objects' \subseteq objects /\ refused' \subseteq Jobs
    BY <1>0, <1>5
    DEF DeleteListed, Spend, Failure, CleanTypeOK, TypeOK, WorkerTypeOK, FileTypeOK
  <2>2. TypeOK'
    BY <1>0, <1>5, <2>1
    DEF DeleteListed, TypeOK, QueueTypeOK, StoreTypeOK, FileTypeOK, WorkerTypeOK, queueVars,
        storeVars, slotVars
  <2> QED
    BY <1>5, <2>1, <2>2, TheOrder DEF DeleteListed, CleanTypeOK, Call, queueVars
<1>6. CASE \E f \in Images : UnlinkUpload(f)
  BY <1>0, <1>6
  DEF UnlinkUpload, CleanTypeOK, TypeOK, QueueTypeOK, StoreTypeOK, FileTypeOK, WorkerTypeOK,
      queueVars, storeVars, workerVars
<1>7. CASE \E j \in Jobs : UnlinkOutput(j)
  BY <1>0, <1>7
  DEF UnlinkOutput, CleanTypeOK, TypeOK, QueueTypeOK, StoreTypeOK, FileTypeOK, WorkerTypeOK,
      queueVars, storeVars, workerVars, historyVars
<1>8. CASE DirectoryDone
  BY <1>0, <1>8, TheOrder
  DEF DirectoryDone, CleanTypeOK, TypeOK, QueueTypeOK, StoreTypeOK, FileTypeOK, WorkerTypeOK, Call,
      vars, queueVars, storeVars, fileVars, workerVars, historyVars
<1>9. CASE PartFails
  <2>1. TypeOK'
    <3>1. QueueTypeOK' /\ StoreTypeOK' /\ FileTypeOK' /\ doomed' = doomed
      BY <1>0, <1>9
      DEF PartFails, TypeOK, QueueTypeOK, StoreTypeOK, FileTypeOK, queueVars, storeVars, fileVars
    <3>2. left' \in [Failure -> Nat]
      BY <1>0, <1>9 DEF PartFails, Spend, Failure, TypeOK, WorkerTypeOK
    <3>3. WorkerTypeOK'
      BY <1>0, <1>9, <3>2 DEF PartFails, TypeOK, WorkerTypeOK, slotVars
    <3> QED  BY <1>0, <3>1, <3>3 DEF TypeOK
  <2>2. script' \in Call \cup {"done"} /\ cutShort' \subseteq Part
    BY <1>9, TheRecovery DEF PartFails, CleanTypeOK, Call, Part
  <2> QED
    BY <1>9, <2>1, <2>2 DEF PartFails, CleanTypeOK, queueVars, fileVars
<1>10. CASE Pause
  BY <1>0, <1>10, TheOrder
  DEF Pause, CleanTypeOK, TypeOK, QueueTypeOK, StoreTypeOK, FileTypeOK, WorkerTypeOK, Call,
      vars, queueVars, storeVars, fileVars, workerVars, historyVars
<1>11. CASE \E f \in Uploading : StoreUpload(f)
  <2> PICK f \in Uploading : StoreUpload(f)
    BY <1>11
  <2>1. f \in Images \ (Provided \cup Preset \cup stored) /\ uploads' = uploads \cup {f}
    BY CleanAssumption DEF StoreUpload
  <2>2. TypeOK'
    BY <1>0, <2>1
    DEF StoreUpload, TypeOK, QueueTypeOK, StoreTypeOK, FileTypeOK, WorkerTypeOK, queueVars,
        storeVars, workerVars
  <2>3. /\ unseen' \subseteq stored' /\ stored' = stored \cup {f} /\ stored' \subseteq Uploading
        /\ UNCHANGED <<script, listed, paused, wiped, late, swept, refused, cutShort, qstate>>
    BY DEF StoreUpload, CleanTypeOK, queueVars
  <2> QED  BY <2>1, <2>2, <2>3 DEF CleanTypeOK
<1> QED
  BY <1>1, <1>2, <1>3, <1>4, <1>5, <1>6, <1>7, <1>8, <1>9, <1>10, <1>11 DEF ScriptStep

LEMMA CleanStepTypeOK ==
  ASSUME CleanTypeOK, [CleanNext]_cleanVars
  PROVE  CleanTypeOK'
<1>1. CASE SystemStep
  <2>1. TypeOK' /\ uploads' \subseteq uploads
    BY <1>1, StepTypeOK, HopelessIsForGood DEF CleanTypeOK, SystemStep
  <2> QED  BY <1>1, <2>1 DEF CleanTypeOK, SystemStep
<1>2. CASE UNCHANGED cleanVars
  BY <1>2
  DEF CleanTypeOK, cleanVars, scriptVars, historyVars, vars, queueVars, storeVars, fileVars, workerVars, TypeOK,
      QueueTypeOK, StoreTypeOK, FileTypeOK, WorkerTypeOK
<1>3. CASE ScriptStep
  BY <1>3, ScriptStepTypeOK
<1> QED  BY <1>1, <1>2, <1>3, StepsOfTwo

\* The variables keep their types;  a job that the script removed from the queue
\* does not come back, nor does an upload that it removed from the disk.
THEOREM CleanTypeCorrect == CleanSpec => []CleanTypeOK
<1>1. CleanInit => CleanTypeOK
  BY InitTypeOK DEF CleanInit, CleanTypeOK, Call, Part, Init, FileInit
<1>2. CleanTypeOK /\ [CleanNext]_cleanVars => CleanTypeOK'
  BY CleanStepTypeOK
<1> QED  BY <1>1, <1>2, PTL DEF CleanSpec

-----------------------------------------------------------------------------
(* Why jobs end up dead while the script is at work.                       *)

\* An upload that a run used up, or that the script found and removed.
Missed(img) ==
    img \notin Preset /\ (img \in swept \ unseen \/ \E k \in uploaded : ImageOf[k] = img)

Lost(j) ==
    \/ GivenUp(j)
    \/ ImageOf[j] \in Corrupt \cup (Images \ (Provided \cup Uploading))
    \/ Missed(ImageOf[j])

\* The script removes what it has listed: never the preset image, nor an upload
\* that came after the listing.
SweepInv ==
    /\ script \in {"uploads", "readdir outputs", "outputs", "done"} \/ unseen = {}
    /\ script = "uploads" => listed \cap (Preset \cup unseen) = {}

\* CauseInv with one more way to lose an upload.  A job is queued after its upload
\* came, so that no run is too early.
SparingInv ==
    /\ SweepInv
    /\ \A img \in (Provided \cup stored) \ uploads : Missed(img)
    /\ \A j \in Jobs :
          ImageOf[j] \in Uploading \ stored =>
              qstate[j] = "none" /\ \A s \in Slots : ~Running(s, j)
    /\ \A s \in Slots, j \in Jobs :
          Running(s, j) =>
              /\ pc[s] = "cleaning" => j \in uploaded
              /\ pc[s] \in {"quarantining", "aborting"} => Lost(j)
    /\ \A j \in Jobs :
          qstate[j] = "failed" => attemptsMade[j] >= Attempts \/ Lost(j)

\* A step of the script starts no run and fails no job.
LEMMA ScriptStartsNothing ==
  ASSUME CleanTypeOK, ScriptStep
  PROVE  /\ UNCHANGED <<pc, jobOf, attemptsMade, stalls, uploaded>>
         /\ \A s \in Slots, j \in Jobs : Running(s, j)' <=> Running(s, j)
         /\ \A j \in Jobs : qstate'[j] # "none" => qstate'[j] = qstate[j]
<1> USE DEF Running, CleanTypeOK
<1>1. CASE Drain \/ Obliterate
  BY <1>1, RemovedJobs DEF Drain, Obliterate, workerVars, fileVars
<1>2. CASE DeleteAllRows \/ DeleteListed \/ \E f \in Uploading : StoreUpload(f)
  BY <1>2
  DEF DeleteAllRows, DeleteListed, StoreUpload, queueVars, fileVars, workerVars, slotVars
<1>3. CASE \/ \E f \in Images : UnlinkUpload(f)
           \/ \E j \in Jobs : UnlinkOutput(j)
  BY <1>3 DEF UnlinkUpload, UnlinkOutput, queueVars, workerVars
<1>4. CASE Pause \/ List \/ DirectoryDone \/ PartFails
  BY <1>4 DEF Pause, List, DirectoryDone, PartFails, vars, queueVars, fileVars, workerVars, slotVars
<1> QED  BY <1>1, <1>2, <1>3, <1>4 DEF ScriptStep

\* No upload goes that the script has not listed, and none comes twice.
LEMMA ScriptSweepsUploads ==
  ASSUME CleanTypeOK, SweepInv, ScriptStep
  PROVE  /\ SweepInv'
         /\ stored \subseteq stored' /\ stored' \ stored \subseteq uploads'
         /\ swept \ unseen \subseteq swept' \ unseen'
         /\ \A img \in uploads \ uploads' : img \notin Preset /\ img \in swept' \ unseen'
<1> USE TheOrder DEF SweepInv
<1>1. CASE Drain \/ Pause \/ Obliterate \/ DeleteAllRows
  <2>1. UNCHANGED <<uploads, swept, stored, unseen>> /\ script' \in Call \ {"uploads"} /\ unseen = {}
    BY <1>1
    DEF Drain, Pause, Obliterate, DeleteAllRows, vars, fileVars, historyVars, Call
  <2>2. script' \notin {"uploads", "readdir outputs", "outputs", "done"}
    BY <1>1 DEF Drain, Pause, Obliterate, DeleteAllRows
  <2> QED  BY <2>1, <2>2
<1>2. CASE List
  BY <1>2 DEF List, Listing, vars, fileVars, historyVars
<1>3. CASE DeleteListed \/ DirectoryDone
  BY <1>3 DEF DeleteListed, DirectoryDone, vars, fileVars, historyVars
<1>4. CASE \E f \in Images : UnlinkUpload(f)
  BY <1>4 DEF UnlinkUpload
<1>5. CASE \E j \in Jobs : UnlinkOutput(j)
  BY <1>5 DEF UnlinkOutput, historyVars
<1>6. CASE PartFails
  <2>1. UNCHANGED <<uploads, swept, stored, unseen>>
    BY <1>6 DEF PartFails, fileVars
  <2>2. /\ script' # "uploads"
        /\ script \in {"uploads", "readdir outputs", "outputs", "done"} => script' = "done"
    BY <1>6, TheRecovery DEF PartFails, Call
  <2> QED  BY <2>1, <2>2
<1>7. CASE \E f \in Uploading : StoreUpload(f)
  <2> PICK f \in Uploading : StoreUpload(f)
    BY <1>7
  <2>1. /\ f \notin Provided \cup Preset \cup stored
        /\ UNCHANGED <<script, listed, swept>>
        /\ uploads' = uploads \cup {f} /\ stored' = stored \cup {f}
        /\ unseen' = IF script \in {"uploads", "readdir outputs", "outputs", "done"}
                     THEN unseen \cup {f} ELSE unseen
    BY CleanAssumption DEF StoreUpload
  <2>2. f \notin swept /\ (script = "uploads" => f \notin listed)
    BY <2>1 DEF CleanTypeOK
  <2> QED  BY <2>1, <2>2
<1> QED  BY <1>1, <1>2, <1>3, <1>4, <1>5, <1>6, <1>7 DEF ScriptStep

LEMMA SparingInvStep ==
  ASSUME CleanTypeOK, SparingInv, [CleanNext]_cleanVars
  PROVE  SparingInv'
<1>0. TypeOK /\ SweepInv
  BY DEF CleanTypeOK, SparingInv
<1>1. CASE SystemStep
  <2>0. [Next]_vars /\ UNCHANGED <<script, listed, swept, stored, unseen>>
    BY <1>1 DEF SystemStep
  <2>1. /\ uploaded \subseteq uploaded'
        /\ \A img : Missed(img) => Missed(img)'
        /\ \A j \in Jobs : Lost(j) => Lost(j)'
    BY <1>0, <2>0, HopelessIsForGood DEF Missed, Lost
  <2>2. \A img \in (Provided \cup stored)' \ uploads' : Missed(img)'
    <3> TAKE img \in (Provided \cup stored)' \ uploads'
    <3>1. CASE img \notin uploads
      BY <2>0, <2>1, <3>1 DEF SparingInv
    <3>2. CASE img \in uploads
      <4>1. /\ img \notin Preset
            /\ \E s \in Slots, j \in Jobs :
                  Running(s, j) /\ pc[s] = "cleaning" /\ ImageOf[j] = img
        BY <1>0, <2>0, <3>2, InputsAreConsumed
      <4> QED  BY <2>1, <4>1 DEF SparingInv, Missed
    <3> QED  BY <3>1, <3>2
  <2>6. ASSUME NEW j \in Jobs, ImageOf[j] \in Uploading \ stored
        PROVE  /\ qstate[j] = "none" /\ qstate'[j] = "none"
               /\ \A s \in Slots : ~Running(s, j) /\ ~Running(s, j)'
    <3>1. qstate[j] = "none" /\ \A s \in Slots : ~Running(s, j)
      BY <2>6 DEF SparingInv
    <3>2. qstate'[j] = "none"
      BY <1>1, <2>6 DEF SystemStep
    <3>3. \A s \in Slots : ~Running(s, j)'
      BY <1>0, <2>0, <3>1, RunsAreClaimed
    <3> QED  BY <3>1, <3>2, <3>3
  <2>3. ASSUME NEW j \in Jobs, ImageOf[j] \notin Uploading \ stored
        PROVE  GivenUp(j) \/ ~InputExists(j) \/ ImageOf[j] \in Corrupt => Lost(j)
    BY <2>3, FileAssumption DEF SparingInv, InputExists, Lost
  <2>4. ASSUME NEW s \in Slots, NEW j \in Jobs, Running(s, j)'
        PROVE  /\ pc'[s] = "cleaning" => j \in uploaded'
               /\ pc'[s] \in {"quarantining", "aborting"} => Lost(j)'
    <3>1. ImageOf[j] \notin Uploading \ stored
      BY <2>4, <2>6
    <3> QED  BY <1>0, <2>0, <2>1, <2>3, <2>4, <3>1, RunsHaveReasons DEF SparingInv
  <2>5. ASSUME NEW j \in Jobs, qstate'[j] = "failed"
        PROVE  attemptsMade'[j] >= Attempts \/ Lost(j)'
    BY <1>0, <2>0, <2>1, <2>5, FailuresHaveReasons DEF SparingInv
  <2>7. SweepInv'
    BY <1>0, <2>0 DEF SweepInv
  <2> QED  BY <2>0, <2>2, <2>4, <2>5, <2>6, <2>7 DEF SparingInv
<1>2. CASE ScriptStep
  <2>1. /\ UNCHANGED <<pc, jobOf, attemptsMade, stalls, uploaded>>
        /\ \A s \in Slots, j \in Jobs : Running(s, j)' <=> Running(s, j)
        /\ \A j \in Jobs : qstate'[j] # "none" => qstate'[j] = qstate[j]
    BY <1>2, ScriptStartsNothing
  <2>2. /\ SweepInv'
        /\ stored \subseteq stored' /\ stored' \ stored \subseteq uploads'
        /\ swept \ unseen \subseteq swept' \ unseen'
        /\ \A img \in uploads \ uploads' : img \notin Preset /\ img \in swept' \ unseen'
    BY <1>0, <1>2, ScriptSweepsUploads
  <2>3. /\ \A img : Missed(img) => Missed(img)'
        /\ \A j \in Jobs : Lost(j) => Lost(j)'
    BY <2>1, <2>2 DEF Missed, Lost, GivenUp
  <2>4. \A img \in (Provided \cup stored)' \ uploads' : Missed(img)'
    BY <2>2, <2>3 DEF SparingInv, Missed
  <2>5. \A j \in Jobs :
           ImageOf[j] \in Uploading \ stored' =>
               qstate'[j] = "none" /\ \A s \in Slots : ~Running(s, j)'
    BY <2>1, <2>2 DEF SparingInv
  <2> QED  BY <2>1, <2>2, <2>3, <2>4, <2>5 DEF SparingInv
<1>3. CASE UNCHANGED cleanVars
  BY <1>3
  DEF cleanVars, scriptVars, historyVars, vars, queueVars, fileVars, workerVars, SparingInv,
      SweepInv, Missed, Lost, GivenUp, Running
<1> QED  BY <1>1, <1>2, <1>3, StepsOfTwo

\* A job that runs while the script is at work fails for a reason that
\* DeadLetterHasCause names, or because the script removed its upload: never a
\* job on the preset image, nor one on an upload that came after the listing.
THEOREM CleaningSparesThePresetTheorem == CleanSpec => []CleaningSparesThePreset
<1>1. CleanInit => SparingInv
  BY DEF CleanInit, Init, QueueInit, FileInit, WorkerInit, SparingInv, SweepInv, Running
<1>2. CleanTypeOK /\ SparingInv /\ [CleanNext]_cleanVars => SparingInv'
  BY SparingInvStep
<1>3. SparingInv => CleaningSparesThePreset
  BY DEF SparingInv, CleaningSparesThePreset, Lost, Missed
<1> QED  BY <1>1, <1>2, <1>3, CleanTypeCorrect, PTL DEF CleanSpec

-----------------------------------------------------------------------------
(* What the script leaves behind.                                          *)

\* The queue was emptied, and the calls for this part were made.
Undisturbed(part) == {"queue", part} \cap cutShort = {}

\* Once the queue is obliterated, only late jobs are queued or run.  A row, an
\* object or a file is made by a run;  so whatever is neither late nor still to
\* be removed is gone, part by part.
QueueIsLate ==
    script \notin {"drain", "pause", "obliterate"} /\ Undisturbed("queue") =>
        /\ \A j \in Jobs : qstate[j] # "none" => j \in late
        /\ \A s \in Slots, j \in Jobs : Running(s, j) => j \in late

RowsAreLate ==
    script \notin {"drain", "pause", "obliterate", "rows"} /\ Undisturbed("rows") =>
        \A j \in Jobs : HasRow(j) => j \in late

ObjectsAreLate ==
    script \notin {"drain", "pause", "obliterate", "rows", "list"} /\ Undisturbed("objects") =>
        \A j \in objects : j \in late \cup refused \/ (script = "delete" /\ j \in listed)

OutputsAreLate ==
    script \in {"outputs", "done"} /\ Undisturbed("files") =>
        \A j \in outputs : j \in late \/ (script = "outputs" /\ j \in listed)

UploadsAreGone ==
    script \in {"uploads", "readdir outputs", "outputs", "done"} /\ "files" \notin cutShort =>
        \A f \in uploads : f \in Preset \cup unseen \/ (script = "uploads" /\ f \in listed)

LeftInv ==
    QueueIsLate /\ RowsAreLate /\ ObjectsAreLate /\ OutputsAreLate /\ UploadsAreGone

\* The system makes nothing but for late jobs.
LEMMA SystemKeepsLeftInv ==
  ASSUME CleanTypeOK, LeftInv, SystemStep
  PROVE  LeftInv'
<1>0. /\ TypeOK /\ [Next]_vars
      /\ UNCHANGED <<script, listed, refused, unseen, cutShort>>
      /\ \A part : Undisturbed(part)' <=> Undisturbed(part)
  BY DEF CleanTypeOK, SystemStep, Undisturbed
<1>1. CASE script \in {"drain", "pause", "obliterate"}
  BY <1>0, <1>1
  DEF LeftInv, QueueIsLate, RowsAreLate, ObjectsAreLate, OutputsAreLate, UploadsAreGone
<1>2. CASE script \notin {"drain", "pause", "obliterate"}
  <2>1. late' = late \cup {j \in Jobs : qstate[j] = "none" /\ qstate'[j] = "waiting"}
    BY <1>2 DEF SystemStep
  <2>2. \A part : Undisturbed(part) => Undisturbed("queue")
    BY DEF Undisturbed
  <2>3. ASSUME Undisturbed("queue"), NEW j \in Jobs
        PROVE  /\ qstate'[j] # "none" => j \in late'
               /\ \A s \in Slots : Running(s, j)' => j \in late'
               /\ (\E s \in Slots : Running(s, j)) => j \in late
    <3>1. qstate[j] # "none" => j \in late
      BY <1>2, <2>3 DEF LeftInv, QueueIsLate
    <3>2. \A s \in Slots : Running(s, j) => j \in late
      BY <1>2, <2>3 DEF LeftInv, QueueIsLate
    <3>3. qstate'[j] # "none" => j \in late'
      BY <1>0, <2>1, <3>1, JobMoves
    <3>4. \A s \in Slots : Running(s, j)' => j \in late'
      BY <1>0, <2>1, <3>1, <3>2, RunsAreClaimed
    <3> QED  BY <3>2, <3>3, <3>4
  <2>4. QueueIsLate'
    BY <1>0, <2>3 DEF QueueIsLate
  <2>5. RowsAreLate'
    BY <1>0, <2>1, <2>2, <2>3, OnlyRunsMakeThings DEF LeftInv, RowsAreLate
  <2>6. objects' \subseteq Jobs /\ outputs' \subseteq Jobs /\ uploads' \subseteq uploads
    BY <1>0, StepTypeOK, HopelessIsForGood DEF TypeOK, FileTypeOK
  <2>7. ObjectsAreLate'
    <3>1. ASSUME Undisturbed("objects"), NEW j \in objects'
          PROVE  j \in late' \/ j \in objects
      BY <1>0, <2>1, <2>2, <2>3, <2>6, <3>1, OnlyRunsMakeThings
    <3> QED  BY <1>0, <2>1, <3>1 DEF LeftInv, ObjectsAreLate
  <2>8. OutputsAreLate'
    <3>1. ASSUME Undisturbed("files"), NEW j \in outputs'
          PROVE  j \in late' \/ j \in outputs
      BY <1>0, <2>1, <2>2, <2>3, <2>6, <3>1, OnlyRunsMakeThings
    <3> QED  BY <1>0, <2>1, <3>1 DEF LeftInv, OutputsAreLate
  <2>9. UploadsAreGone'
    BY <1>0, <2>6 DEF LeftInv, UploadsAreGone
  <2> QED  BY <2>4, <2>5, <2>7, <2>8, <2>9 DEF LeftInv
<1> QED  BY <1>1, <1>2

\* Behind the rows, a call that leaves queue and table alone keeps their parts.
LEMMA LaterCallsKeepQueueAndRows ==
  ASSUME QueueIsLate, RowsAreLate,
         UNCHANGED <<late, qstate, status, pc, jobOf>>,
         script \notin {"drain", "pause", "obliterate", "rows"},
         cutShort \subseteq cutShort'
  PROVE  QueueIsLate' /\ RowsAreLate'
<1>1. \A part : Undisturbed(part)' => Undisturbed(part)
  BY DEF Undisturbed
<1>2. QueueIsLate'
  BY <1>1 DEF QueueIsLate, Running
<1>3. RowsAreLate'
  BY <1>1 DEF RowsAreLate, HasRow
<1> QED  BY <1>2, <1>3

\* Each call of the script leaves what its part was to leave, and an upload that
\* comes too late for the listing is unseen.
LEMMA ScriptKeepsLeftInv ==
  ASSUME CleanTypeOK, LeftInv, ScriptStep
  PROVE  LeftInv'
<1>0. TypeOK /\ QueueIsLate /\ RowsAreLate
  BY DEF CleanTypeOK, LeftInv
<1>1. CASE Drain \/ Pause
  <2>1. script' \in {"drain", "pause", "obliterate"}
    BY <1>1, TheOrder DEF Drain, Pause
  <2> QED
    BY <2>1
    DEF LeftInv, QueueIsLate, RowsAreLate, ObjectsAreLate, OutputsAreLate, UploadsAreGone
<1>2. CASE Obliterate
  <2>1. script' = "rows" /\ late' = {j \in Jobs : \E s \in Slots : Running(s, j)}
    BY <1>2, TheOrder DEF Obliterate
  <2>2. /\ \A j \in Jobs : qstate'[j] = "none"
        /\ \A s \in Slots, j \in Jobs : Running(s, j)' <=> Running(s, j)
    BY <1>0, <1>2, RemovedJobs DEF Obliterate
  <2>3. QueueIsLate'
    BY <2>1, <2>2 DEF QueueIsLate
  <2> QED
    BY <2>1, <2>3 DEF LeftInv, RowsAreLate, ObjectsAreLate, OutputsAreLate, UploadsAreGone
<1>3. CASE DeleteAllRows
  <2>1. script = "rows" /\ script' = "list" /\ UNCHANGED <<late, cutShort, qstate, pc, jobOf>>
    BY <1>3, TheOrder DEF DeleteAllRows, queueVars, workerVars, historyVars
  <2>2. \A j \in Jobs : ~HasRow(j)'
    BY <1>3 DEF DeleteAllRows, DeleteRows, HasRow
  <2>3. QueueIsLate'
    BY <1>0, <2>1 DEF QueueIsLate, Undisturbed, Running
  <2>4. RowsAreLate'
    BY <2>2 DEF RowsAreLate
  <2> QED  BY <2>1, <2>3, <2>4 DEF LeftInv, ObjectsAreLate, OutputsAreLate, UploadsAreGone
<1>4. CASE List
  <2>1. UNCHANGED <<late, refused, unseen, cutShort, qstate, status, pc, jobOf, objects, outputs,
                    uploads>>
    BY <1>4 DEF List, vars, queueVars, storeVars, workerVars, fileVars, historyVars
  <2>2. \/ script = "list" /\ script' = "delete" /\ listed' = objects
        \/ script = "readdir uploads" /\ script' = "uploads" /\ listed' = uploads \ Preset
        \/ script = "readdir outputs" /\ script' = "outputs" /\ listed' = outputs
    BY <1>4, TheOrder DEF List, Listing
  <2>3. QueueIsLate' /\ RowsAreLate'
    BY <1>0, <2>1, <2>2, LaterCallsKeepQueueAndRows
  <2>4. ObjectsAreLate'
    BY <2>1, <2>2 DEF LeftInv, ObjectsAreLate, Undisturbed
  <2>5. OutputsAreLate' /\ UploadsAreGone'
    BY <2>1, <2>2 DEF LeftInv, OutputsAreLate, UploadsAreGone
  <2> QED  BY <2>3, <2>4, <2>5 DEF LeftInv
<1>5. CASE DeleteListed
  <2>1. UNCHANGED <<late, cutShort, qstate, status, pc, jobOf>>
    BY <1>5 DEF DeleteListed, queueVars, storeVars, slotVars
  <2>2. /\ script = "delete" /\ script' = "readdir uploads"
        /\ refused \subseteq refused' /\ objects' \subseteq (objects \ listed) \cup refused'
    BY <1>5, TheOrder DEF DeleteListed
  <2>3. QueueIsLate' /\ RowsAreLate'
    BY <1>0, <2>1, <2>2, LaterCallsKeepQueueAndRows
  <2>4. ObjectsAreLate'
    BY <2>1, <2>2 DEF LeftInv, ObjectsAreLate, Undisturbed
  <2> QED  BY <2>2, <2>3, <2>4 DEF LeftInv, OutputsAreLate, UploadsAreGone
<1>6. CASE \E f \in Images : UnlinkUpload(f)
  <2> PICK f \in Images : UnlinkUpload(f)
    BY <1>6
  <2>1. /\ UNCHANGED <<late, refused, unseen, cutShort, qstate, status, pc, jobOf, objects, script>>
        /\ script = "uploads" /\ uploads' = uploads \ {f} /\ listed' = listed \ {f}
    BY DEF UnlinkUpload, queueVars, storeVars, workerVars
  <2>2. QueueIsLate' /\ RowsAreLate'
    BY <1>0, <2>1, LaterCallsKeepQueueAndRows
  <2>3. ObjectsAreLate'
    BY <2>1 DEF LeftInv, ObjectsAreLate, Undisturbed
  <2>4. OutputsAreLate' /\ UploadsAreGone'
    BY <2>1 DEF LeftInv, OutputsAreLate, UploadsAreGone
  <2> QED  BY <2>2, <2>3, <2>4 DEF LeftInv
<1>7. CASE \E j \in Jobs : UnlinkOutput(j)
  <2> PICK j \in Jobs : UnlinkOutput(j)
    BY <1>7
  <2>1. /\ UNCHANGED <<late, refused, unseen, cutShort, qstate, status, pc, jobOf, objects, uploads,
                       script>>
        /\ script = "outputs" /\ outputs' = outputs \ {j} /\ listed' = listed \ {j}
    BY DEF UnlinkOutput, queueVars, storeVars, workerVars, historyVars
  <2>2. QueueIsLate' /\ RowsAreLate'
    BY <1>0, <2>1, LaterCallsKeepQueueAndRows
  <2>3. ObjectsAreLate' /\ OutputsAreLate'
    BY <2>1 DEF LeftInv, ObjectsAreLate, OutputsAreLate, Undisturbed
  <2>4. UploadsAreGone'
    BY <2>1 DEF LeftInv, UploadsAreGone
  <2> QED  BY <2>2, <2>3, <2>4 DEF LeftInv
<1>8. CASE DirectoryDone
  <2>1. UNCHANGED <<late, refused, unseen, cutShort, qstate, status, pc, jobOf, objects, outputs,
                    uploads>>
    BY <1>8 DEF DirectoryDone, vars, queueVars, storeVars, workerVars, fileVars, historyVars
  <2>2. /\ listed = {}
        /\ \/ script = "uploads" /\ script' = "readdir outputs"
           \/ script = "outputs" /\ script' = "done"
    BY <1>8, TheOrder DEF DirectoryDone
  <2>3. QueueIsLate' /\ RowsAreLate'
    BY <1>0, <2>1, <2>2, LaterCallsKeepQueueAndRows
  <2>4. ObjectsAreLate' /\ OutputsAreLate'
    BY <2>1, <2>2 DEF LeftInv, ObjectsAreLate, OutputsAreLate, Undisturbed
  <2>5. UploadsAreGone'
    BY <2>1, <2>2 DEF LeftInv, UploadsAreGone
  <2> QED  BY <2>3, <2>4, <2>5 DEF LeftInv
<1>9. CASE PartFails
  <2>1. UNCHANGED <<late, refused, qstate, status, pc, jobOf, objects>>
    BY <1>9 DEF PartFails, queueVars, storeVars, slotVars, fileVars
  <2>2. /\ script \in Call
        /\ script' = Recovery(PartOf(script))
        /\ cutShort' = cutShort \cup {PartOf(script)}
    BY <1>9 DEF PartFails
  <2>3. CASE script \in {"drain", "pause", "obliterate"}
    <3>1. "queue" \in cutShort' /\ script' = "rows"
      BY <2>2, <2>3, TheRecovery
    <3> QED
      BY <3>1
      DEF LeftInv, QueueIsLate, RowsAreLate, ObjectsAreLate, OutputsAreLate, UploadsAreGone,
          Undisturbed
  <2>4. CASE script = "rows"
    <3>1. script' = "list" /\ cutShort' = cutShort \cup {"rows"}
      BY <2>2, <2>4, TheRecovery
    <3>2. QueueIsLate'
      BY <1>0, <2>1, <2>4, <3>1 DEF QueueIsLate, Undisturbed, Running
    <3> QED
      BY <3>1, <3>2
      DEF LeftInv, RowsAreLate, ObjectsAreLate, OutputsAreLate, UploadsAreGone, Undisturbed
  <2>5. CASE script \in {"list", "delete"}
    <3>1. script' = "readdir uploads" /\ cutShort' = cutShort \cup {"objects"}
      BY <2>2, <2>5, TheRecovery
    <3>2. QueueIsLate' /\ RowsAreLate'
      BY <1>0, <2>1, <2>5, <3>1, LaterCallsKeepQueueAndRows
    <3> QED
      BY <3>1, <3>2 DEF LeftInv, ObjectsAreLate, OutputsAreLate, UploadsAreGone, Undisturbed
  <2>6. CASE script \in {"readdir uploads", "uploads", "readdir outputs", "outputs"}
    <3>1. script' = "done" /\ cutShort' = cutShort \cup {"files"}
      BY <2>2, <2>6, TheRecovery
    <3>2. QueueIsLate' /\ RowsAreLate'
      BY <1>0, <2>1, <2>6, <3>1, LaterCallsKeepQueueAndRows
    <3>3. ObjectsAreLate'
      BY <2>1, <2>6, <3>1 DEF LeftInv, ObjectsAreLate, Undisturbed
    <3> QED
      BY <3>1, <3>2, <3>3 DEF LeftInv, OutputsAreLate, UploadsAreGone, Undisturbed
  <2> QED  BY <2>2, <2>3, <2>4, <2>5, <2>6 DEF Call
<1>10. CASE \E f \in Uploading : StoreUpload(f)
  <2> PICK f \in Uploading : StoreUpload(f)
    BY <1>10
  <2>1. /\ UNCHANGED <<late, refused, cutShort, qstate, status, pc, jobOf, objects, outputs, script,
                       listed>>
        /\ uploads' = uploads \cup {f}
        /\ unseen' = IF script \in {"uploads", "readdir outputs", "outputs", "done"}
                     THEN unseen \cup {f} ELSE unseen
    BY DEF StoreUpload, queueVars, storeVars, workerVars
  <2>2. QueueIsLate' /\ RowsAreLate'
    BY <1>0, <2>1 DEF QueueIsLate, RowsAreLate, Undisturbed, Running, HasRow
  <2>3. ObjectsAreLate' /\ OutputsAreLate'
    BY <2>1 DEF LeftInv, ObjectsAreLate, OutputsAreLate, Undisturbed
  <2>4. UploadsAreGone'
    BY <2>1 DEF LeftInv, UploadsAreGone
  <2> QED  BY <2>2, <2>3, <2>4 DEF LeftInv
<1> QED
  BY <1>1, <1>2, <1>3, <1>4, <1>5, <1>6, <1>7, <1>8, <1>9, <1>10 DEF ScriptStep

\* When the script is done, what it left belongs to a job that was being run
\* when the queue was obliterated or came after that, or to a part that failed,
\* or is an object that S3 refused to delete or an upload that came after the
\* listing of uploads/: however many jobs, objects and uploads there are.
THEOREM LeftoversAreExplainedTheorem == CleanSpec => []LeftoversAreExplained
<1>1. CleanInit => LeftInv
  BY DEF CleanInit, LeftInv, QueueIsLate, RowsAreLate, ObjectsAreLate, OutputsAreLate,
         UploadsAreGone
<1>2. ASSUME CleanTypeOK, LeftInv, [CleanNext]_cleanVars
      PROVE  LeftInv'
  <2>1. CASE UNCHANGED cleanVars
    BY <1>2, <2>1
    DEF cleanVars, scriptVars, historyVars, vars, queueVars, storeVars, fileVars, workerVars, LeftInv,
        QueueIsLate, RowsAreLate, ObjectsAreLate, OutputsAreLate, UploadsAreGone, Undisturbed,
        Running, HasRow
  <2> QED  BY <1>2, <2>1, StepsOfTwo, SystemKeepsLeftInv, ScriptKeepsLeftInv
<1>3. CleanTypeOK /\ LeftInv => LeftoversAreExplained
  BY DEF LeftInv, QueueIsLate, RowsAreLate, ObjectsAreLate, OutputsAreLate, UploadsAreGone,
         Undisturbed, LeftoversAreExplained, CleanTypeOK, TypeOK, FileTypeOK
<1> QED  BY <1>1, <1>2, <1>3, CleanTypeCorrect, PTL DEF CleanSpec

-----------------------------------------------------------------------------
(* The life cycle of the rows beside the script.                           *)

\* Queue and table as the three kinds of calls of the script see them: jobs
\* leave the queue, rows leave the table, or neither changes.
EmptiesQueue ==
    /\ \E jobs \in SUBSET Jobs : RemoveFromQueue(jobs)
    /\ UNCHANGED <<storeVars, slotVars, handlers, dropped, ambiguous>>

EmptiesTable ==
    /\ DeleteRows(Jobs)
    /\ UNCHANGED <<queueVars, slotVars, handlers, dropped, ambiguous>>

LeavesBoth == UNCHANGED <<queueVars, storeVars, slotVars, handlers, dropped, ambiguous>>

LEMMA KindsOfCalls ==
  ASSUME ScriptStep
  PROVE  EmptiesQueue \/ EmptiesTable \/ LeavesBoth
<1>1. CASE Drain \/ Obliterate
  <2>1. {j \in Jobs : qstate[j] = "waiting"} \in SUBSET Jobs
    OBVIOUS
  <2>2. {j \in Jobs : qstate[j] # "none"} \in SUBSET Jobs
    OBVIOUS
  <2>3. \E jobs \in SUBSET Jobs : RemoveFromQueue(jobs)
    BY <1>1, <2>1, <2>2 DEF Drain, Obliterate
  <2>4. UNCHANGED <<storeVars, slotVars, handlers, dropped, ambiguous>>
    BY <1>1 DEF Drain, Obliterate, workerVars, slotVars
  <2> QED  BY <2>3, <2>4 DEF EmptiesQueue
<1>2. CASE DeleteAllRows
  BY <1>2 DEF DeleteAllRows, EmptiesTable, workerVars, slotVars
<1>3. CASE \/ DeleteListed \/ \E f \in Uploading : StoreUpload(f)
           \/ \E f \in Images : UnlinkUpload(f)
           \/ \E j \in Jobs : UnlinkOutput(j)
  BY <1>3
  DEF DeleteListed, StoreUpload, UnlinkUpload, UnlinkOutput, LeavesBoth, workerVars, slotVars
<1>4. CASE Pause \/ List \/ DirectoryDone \/ PartFails
  BY <1>4 DEF Pause, List, DirectoryDone, PartFails, LeavesBoth, vars, workerVars, slotVars
<1> QED  BY <1>1, <1>2, <1>3, <1>4 DEF ScriptStep

\* Jobs that leave the queue leave it to nobody: they are abandoned.
LEMMA EmptyingTheQueue ==
  ASSUME TypeOK, NEW jobs \in SUBSET Jobs, RemoveFromQueue(jobs),
         UNCHANGED <<storeVars, slotVars, handlers, dropped, ambiguous>>
  PROVE  /\ abandoned' = abandoned \cup jobs
         /\ \A j \in Jobs \ jobs : qstate'[j] = qstate[j] /\ owner'[j] = owner[j]
         /\ \A j \in Jobs : Untouched(j) \/ j \in jobs
<1>1. /\ abandoned' = abandoned \cup jobs
      /\ \A j \in Jobs \ jobs : qstate'[j] = qstate[j] /\ owner'[j] = owner[j]
  BY DEF RemoveFromQueue
<1>2. \A j \in Jobs \ jobs : Untouched(j)
  BY <1>1 DEF RemoveFromQueue, Untouched, Running, storeVars, slotVars
<1> QED  BY <1>1, <1>2

LEMMA EmptyingTheQueueIsSafe ==
  ASSUME LifecycleInv, EmptiesQueue
  PROVE  RunsAreExclusive' /\ AgreeInv' /\ Disturbs
<1> USE DEF LifecycleInv
<1> PICK jobs \in SUBSET Jobs : RemoveFromQueue(jobs)
  BY DEF EmptiesQueue
<1>1. UNCHANGED <<status, thumbnail, purged, pc, jobOf, handlers, dropped, ambiguous>>
  BY DEF EmptiesQueue, storeVars, slotVars
<1>2. /\ abandoned' = abandoned \cup jobs
      /\ \A j \in Jobs \ jobs : qstate'[j] = qstate[j] /\ owner'[j] = owner[j]
      /\ \A j \in Jobs : Untouched(j) \/ j \in jobs
  BY EmptyingTheQueue DEF EmptiesQueue
<1>3. \A s \in Slots, j \in Jobs : Running(s, j)' <=> Running(s, j)
  BY <1>1 DEF Running
<1>4. RunsAreExclusive'
  BY <1>2, <1>3 DEF RunsAreExclusive, Holds
<1>5. QueueAndRowAgree'
  BY <1>1, <1>2 DEF AgreeInv, QueueAndRowAgree, Pending
<1>6. \A s \in Slots, j \in Jobs :
         Running(s, j)' =>
             /\ pc'[s] \in HasInserted => HasRow(j)' \/ j \in purged'
             /\ pc'[s] = "acking" => status'[j] = "completed" \/ j \in (abandoned \cup purged)'
  BY <1>1, <1>2, <1>3 DEF AgreeInv, HasRow
<1>7. \A n \in Nodes : \A j \in handlers'[n] : qstate'[j] = "failed" \/ j \in abandoned'
  BY <1>1, <1>2 DEF AgreeInv, TypeOK, WorkerTypeOK
<1>8. Disturbs
  BY <1>1, <1>2 DEF Disturbs, Disturbed, TypeOK, QueueTypeOK, WorkerTypeOK
<1> QED  BY <1>4, <1>5, <1>6, <1>7, <1>8 DEF AgreeInv

LEMMA EmptyingTheTableIsSafe ==
  ASSUME LifecycleInv, EmptiesTable
  PROVE  RunsAreExclusive' /\ AgreeInv' /\ Removes
<1> USE DEF LifecycleInv
<1>1. Removal(Jobs) /\ UNCHANGED <<queueVars, slotVars, handlers, dropped>>
  BY DEF EmptiesTable, Removal, deleteJobsByIds
<1>2. RunsAreExclusive'
  BY <1>1 DEF RunsAreExclusive, Running, Holds, queueVars, slotVars
<1>3. AgreeInv'
  BY <1>1, RemovalKeepsAgreement
<1>4. \A k \in Jobs : status'[k] = status[k] \/ status'[k] = "absent"
  BY DEF EmptiesTable, DeleteRows
<1>5. UNCHANGED Disturbed
  BY DEF EmptiesTable, Disturbed, queueVars
<1> QED  BY <1>1, <1>2, <1>3, <1>4, <1>5 DEF Removes

LEMMA LeavingBothIsSafe ==
  ASSUME LifecycleInv, LeavesBoth
  PROVE  RunsAreExclusive' /\ AgreeInv' /\ Disturbs
<1> USE DEF LifecycleInv
<1>1. RunsAreExclusive'
  BY DEF LeavesBoth, RunsAreExclusive, Running, Holds, queueVars, slotVars
<1>2. AgreeInv'
  BY DEF LeavesBoth, AgreeInv, QueueAndRowAgree, Pending, HasRow, Running, queueVars, storeVars,
         slotVars
<1> QED  BY <1>1, <1>2, UnseenDisturbs DEF LeavesBoth

LEMMA LifecycleInvBesideTheScript ==
  ASSUME CleanTypeOK, LifecycleInv, [CleanNext]_cleanVars
  PROVE  /\ RunsAreExclusive' /\ AgreeInv' /\ OrderlyInv'
         /\ Lifecycle!Next
<1>1. TypeOK /\ OrderlyInv /\ StoreTypeOK'
  BY CleanStepTypeOK DEF CleanTypeOK, LifecycleInv, TypeOK
<1>2. CASE ScriptStep
  <2>1. RunsAreExclusive' /\ AgreeInv' /\ (Disturbs \/ Removes)
    BY <1>2, KindsOfCalls, EmptyingTheQueueIsSafe, EmptyingTheTableIsSafe, LeavingBothIsSafe
  <2>2. OrderlyInv'
    BY <2>1, OrderlyInvKept
  <2>3. Lifecycle!Next
    BY <1>1, <2>1, DisturbsIsDisturb, RemovesIsRemove
  <2> QED  BY <2>1, <2>2, <2>3
<1>3. CASE [Next]_vars
  <2>1. RunsAreExclusive' /\ AgreeInv' /\ OrderlyInv'
    BY <1>3, RunsAreExclusiveStep, AgreeInvStep, OrderlyInvStep DEF LifecycleInv
  <2> QED  BY <1>3, <2>1, StepRefines
<1> QED  BY <1>2, <1>3, StepsOfTwo DEF SystemStep, cleanVars

LEMMA CleanInitRefines == CleanInit => LifecycleInv /\ Lifecycle!Init
<1>1. CleanInit => Init /\ TypeOK /\ RunsAreExclusive /\ AgreeInv
  BY InitTypeOK
  DEF CleanInit, Init, QueueInit, WorkerInit, RunsAreExclusive, AgreeInv, QueueAndRowAgree, Running
<1> QED  BY <1>1, InitIsOrderly, InitRefines DEF LifecycleInv

LEMMA CleanLifecycleInvHolds == CleanSpec => []LifecycleInv
<1>1. CleanTypeOK /\ LifecycleInv /\ [CleanNext]_cleanVars => LifecycleInv'
  BY CleanStepTypeOK, LifecycleInvBesideTheScript DEF LifecycleInv, CleanTypeOK
<1> QED  BY <1>1, CleanInitRefines, CleanTypeCorrect, PTL DEF CleanSpec

\* The script empties the queue under the workers and the table under the
\* queue.  For the jobs it did not take out of the queue all is as without it:
\* two slots run one of them only after a lock was lost, and the queue and the
\* row, where there is one, agree on how it ended.
THEOREM CleaningSparesTheOthers == CleanSpec => []RunsAreExclusive /\ []QueueAndRowAgree
<1>1. LifecycleInv => RunsAreExclusive /\ QueueAndRowAgree
  BY DEF LifecycleInv, AgreeInv
<1> QED  BY <1>1, CleanLifecycleInvHolds, PTL

\* ... and what a client reads of the row of such a job is the life cycle of
\* JobLifecycle: DELETE FROM jobs takes rows away while retries still write
\* theirs, and no row that had settled comes back or changes.
THEOREM CleanSystemImplementsLifecycle == CleanSpec => ImplementsLifecycle
<1>1. CleanInit => Lifecycle!Init
  BY CleanInitRefines
<1>2. CleanTypeOK /\ LifecycleInv /\ [CleanNext]_cleanVars
         => [Lifecycle!Next]_(Lifecycle!lifecycleVars)
  BY LifecycleInvBesideTheScript
<1> QED
  BY <1>1, <1>2, CleanTypeCorrect, CleanLifecycleInvHolds, PTL
  DEF CleanSpec, ImplementsLifecycle, Lifecycle!Spec

=============================================================================
