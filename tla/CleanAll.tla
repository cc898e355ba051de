------------------------------ MODULE CleanAll -------------------------------
(***************************************************************************)
(* src/src/clean-all.ts, the script that empties the queue, the table, the *)
(* bucket and the directories, run while the system of module JobSystem is *)
(* at work.  Each of its four parts has a try block of its own: a part that*)
(* fails is given up where it stands and the next one begins.  Requests go *)
(* on meanwhile: multer stores uploads, and jobs on them are queued.       *)
(***************************************************************************)
EXTENDS JobSystem

CONSTANT Uploading  \* the images that clients upload while the script is at work

ASSUME CleanAssumption == Uploading \subseteq Images \ (Provided \cup Preset)

VARIABLES
    script,   \* the next call of the script
    listed,   \* what it has listed and not yet removed
    paused,   \* obliterate has paused the queue
    wiped,    \* history: the jobs it removed from the queue
    late,     \* history: the jobs being run when the queue was obliterated, and
              \* those submitted after that
    swept,    \* history: the uploads it removed
    refused,  \* history: the objects that DeleteObjects reported as not deleted
    stored,   \* history: the uploads that multer stored meanwhile
    unseen,   \* history: those of them stored after the directory was listed
    cutShort  \* history: the parts that failed

historyVars == <<wiped, late, swept, refused, stored, unseen, cutShort>>
scriptVars  == <<script, listed, paused, historyVars>>
cleanVars   == <<vars, scriptVars>>

Call == {"drain", "pause", "obliterate", "rows", "list", "delete", "readdir uploads", "uploads",
         "readdir outputs", "outputs"}
Part == {"queue", "rows", "objects", "files"}

CleanTypeOK ==
    /\ TypeOK
    /\ script \in Call \cup {"done"}
    /\ listed \subseteq (IF script \in {"delete", "outputs"} THEN Jobs
                         ELSE IF script = "uploads" THEN Provided \cup stored ELSE {})
    /\ wiped \subseteq {j \in Jobs : qstate[j] = "none"}
    /\ late \subseteq Jobs
    /\ paused \in BOOLEAN
    /\ unseen \subseteq stored /\ stored \subseteq Uploading
    /\ uploads \subseteq Provided \cup stored
    /\ swept \subseteq (Provided \cup stored) \ uploads
    /\ refused \subseteq Jobs
    /\ cutShort \subseteq Part

CleanInit ==
    /\ Init
    /\ script = "drain" /\ paused = FALSE
    /\ listed = {} /\ wiped = {} /\ late = {} /\ swept = {} /\ refused = {}
    /\ stored = {} /\ unseen = {} /\ cutShort = {}

-----------------------------------------------------------------------------

\* Mutant of Then: the table before the queue, the order of the script's stale
\* comments.
ThenRowsFirst(call) ==
    CASE call = "drain"           -> "rows"
      [] call = "rows"            -> "pause"
      [] call = "pause"           -> "obliterate"
      [] call = "obliterate"      -> "list"
      [] call = "list"            -> "delete"
      [] call = "delete"          -> "readdir uploads"
      [] call = "readdir uploads" -> "uploads"
      [] call = "uploads"         -> "readdir outputs"
      [] call = "readdir outputs" -> "outputs"
      [] call = "outputs"         -> "done"

\* The order of the calls.  obliterate pauses the queue and then removes the jobs.
Then(call) ==
    CASE call = "drain"           -> "pause"
      [] call = "pause"           -> "obliterate"
      [] call = "obliterate"      -> "rows"
      [] call = "rows"            -> "list"
      [] call = "list"            -> "delete"
      [] call = "delete"          -> "readdir uploads"
      [] call = "readdir uploads" -> "uploads"
      [] call = "uploads"         -> "readdir outputs"
      [] call = "readdir outputs" -> "outputs"
      [] call = "outputs"         -> "done"

\* The part a call belongs to, and where the script goes on when it fails.
PartOf(call) ==
    CASE call \in {"drain", "pause", "obliterate"} -> "queue"
      [] call = "rows"                             -> "rows"
      [] call \in {"list", "delete"}               -> "objects"
      [] OTHER                                     -> "files"

Recovery(part) ==
    CASE part = "queue"   -> "rows"
      [] part = "rows"    -> "list"
      [] part = "objects" -> "readdir uploads"
      [] part = "files"   -> "done"

\* The jobs that leave Redis leave their locks behind too: nothing is promised
\* of them any more, and the history counts them with the abandoned jobs.
RemoveFromQueue(jobs) ==
    /\ qstate' = [j \in Jobs |-> IF j \in jobs THEN "none" ELSE qstate[j]]
    /\ owner' = [j \in Jobs |-> IF j \in jobs THEN NoSlot ELSE owner[j]]
    /\ wiped' = wiped \cup jobs
    /\ abandoned' = abandoned \cup jobs
    /\ UNCHANGED <<attemptsMade, stalls>>

\* imageQueue.drain(): the waiting jobs, not the delayed ones.
Drain ==
    /\ script = "drain"
    /\ RemoveFromQueue({j \in Jobs : qstate[j] = "waiting"})
    /\ script' = Then(script)
    /\ UNCHANGED <<storeVars, fileVars, workerVars, doomed, listed, paused, late, swept, refused,
                   stored, unseen, cutShort>>

\* imageQueue.obliterate({ force: true }) first pauses the queue, so that no worker
\* takes a job any more.
Pause ==
    /\ script = "pause"
    /\ paused' = TRUE
    /\ script' = Then(script)
    /\ UNCHANGED <<vars, listed, historyVars>>

\* It then removes all jobs, those being run included, and the mark of the pause.
Obliterate ==
    /\ script = "obliterate"
    /\ RemoveFromQueue({j \in Jobs : qstate[j] # "none"})
    /\ late' = {j \in Jobs : \E s \in Slots : Running(s, j)}
    /\ paused' = FALSE
    /\ script' = Then(script)
    /\ UNCHANGED <<storeVars, fileVars, workerVars, doomed, listed, swept, refused, stored, unseen,
                   cutShort>>

\* DELETE FROM jobs.
DeleteAllRows ==
    /\ script = "rows"
    /\ DeleteRows(Jobs)
    /\ script' = Then(script)
    /\ UNCHANGED <<queueVars, fileVars, workerVars, doomed, listed, paused, historyVars>>

\* Mutant of Listing: forgets the preset image.
ListingAll(call) ==
    CASE call = "list"            -> objects
      [] call = "readdir uploads" -> uploads
      [] call = "readdir outputs" -> outputs

\* A page of keys, or the names in a directory.  (The objects are one page.)
Listing(call) ==
    CASE call = "list"            -> objects
      [] call = "readdir uploads" -> uploads \ Preset
      [] call = "readdir outputs" -> outputs

List ==
    /\ script \in {"list", "readdir uploads", "readdir outputs"}
    /\ listed' = Listing(script)
    /\ script' = Then(script)
    /\ UNCHANGED <<vars, paused, historyVars>>

\* Mutant of DeleteListed: the page is not dropped once its objects are deleted.
DeleteListedAgain ==
    /\ script = "delete"
    /\ objects' = objects \ listed
    /\ script' = Then(script)
    /\ UNCHANGED <<queueVars, storeVars, uploads, outputs, uploaded, workerVars, doomed,
                   listed, paused, historyVars>>

\* DeleteObjectsCommand: deletes by key, whatever is stored under it by now.  The
\* command succeeds even if some objects stay: S3 names them in Errors, which
\* nobody looks at.
DeleteListed ==
    /\ script = "delete"
    /\ \E kept \in SUBSET (listed \cap objects) :
          /\ IF kept = {} THEN UNCHANGED left ELSE Spend("fault")
          /\ objects' = objects \ (listed \ kept)
          /\ refused' = refused \cup kept
    /\ listed' = {}
    /\ script' = Then(script)
    /\ UNCHANGED <<queueVars, storeVars, uploads, outputs, uploaded, slotVars, handlers, dropped,
                   ambiguous, starts, doomed, paused, wiped, late, swept, stored, unseen, cutShort>>

\* unlinkSync of the next name, which a worker may have unlinked meanwhile.
UnlinkUpload(f) ==
    /\ script = "uploads" /\ f \in listed /\ f \in uploads
    /\ uploads' = uploads \ {f}
    /\ swept' = swept \cup {f}
    /\ listed' = listed \ {f}
    /\ UNCHANGED <<queueVars, storeVars, outputs, objects, uploaded, workerVars, doomed,
                   script, paused, wiped, late, refused, stored, unseen, cutShort>>

UnlinkOutput(j) ==
    /\ script = "outputs" /\ j \in listed /\ j \in outputs
    /\ outputs' = outputs \ {j}
    /\ listed' = listed \ {j}
    /\ UNCHANGED <<queueVars, storeVars, uploads, objects, uploaded, workerVars, doomed,
                   script, paused, historyVars>>

DirectoryDone ==
    /\ script \in {"uploads", "outputs"} /\ listed = {}
    /\ script' = Then(script)
    /\ UNCHANGED <<vars, listed, paused, historyVars>>

\* A worker has unlinked a name of the listing: unlinkSync will throw.
NameVanished ==
    \/ script = "uploads" /\ ~(listed \subseteq uploads)
    \/ script = "outputs" /\ ~(listed \subseteq outputs)

\* A part throws: a name has vanished, or a call fails without effect.  (A call
\* that took effect and lost its answer is that call and the failure of the next.)
\* Nothing resumes a queue that stays paused.
PartFails ==
    /\ script \in Call
    /\ \/ NameVanished /\ UNCHANGED left
       \/ Spend("fault")
    /\ script' = Recovery(PartOf(script))
    /\ listed' = {}
    /\ cutShort' = cutShort \cup {PartOf(script)}
    /\ UNCHANGED <<slotVars, handlers, dropped, ambiguous, starts, queueVars, storeVars, fileVars,
                   doomed, paused, wiped, late, swept, refused, stored, unseen>>

\* multer's write to uploads/ on a POST /jobs, under a name of its own.
StoreUpload(f) ==
    /\ f \in Uploading \ stored
    /\ uploads' = uploads \cup {f}
    /\ stored' = stored \cup {f}
    /\ unseen' = IF script \in {"uploads", "readdir outputs", "outputs", "done"}
                 THEN unseen \cup {f} ELSE unseen
    /\ UNCHANGED <<queueVars, storeVars, outputs, objects, uploaded, workerVars, doomed, script,
                   listed, paused, wiped, late, swept, refused, cutShort>>

\* Everything else goes on.  Ids are not used again, a job is queued after its
\* upload is stored, and no worker takes a job from a paused queue.
SystemStep ==
    /\ Next
    /\ \A j \in wiped : qstate'[j] = "none"
    /\ \A j \in Jobs : ImageOf[j] \in Uploading \ stored => qstate'[j] = "none"
    /\ paused => \A j \in Jobs : qstate[j] = "waiting" => qstate'[j] # "active"
    /\ late' = IF script \in {"drain", "pause", "obliterate"} THEN late
               ELSE late \cup {j \in Jobs : qstate[j] = "none" /\ qstate'[j] = "waiting"}
    /\ UNCHANGED <<script, listed, paused, wiped, swept, refused, stored, unseen, cutShort>>

CleanNext ==
    \/ Drain \/ Pause \/ Obliterate \/ DeleteAllRows \/ List \/ DeleteListed
    \/ \E f \in Images : UnlinkUpload(f)
    \/ \E j \in Jobs : UnlinkOutput(j)
    \/ DirectoryDone \/ PartFails
    \/ \E f \in Uploading : StoreUpload(f)
    \/ SystemStep

CleanSpec == CleanInit /\ [][CleanNext]_cleanVars

-----------------------------------------------------------------------------

\* What the script leaves behind belongs to a job that was being run when the
\* queue was obliterated or came after that, or to a part that failed;  or it is
\* an object that S3 refused to delete, or an upload that came after the listing.
\* A job that was waiting, delayed or done cannot leave a row, a file or an
\* object behind the script's back, and an upload that came in time is gone.
LeftoversAreExplained ==
    script = "done" =>
        LET Excused(part) == IF {"queue", part} \cap cutShort = {} THEN late ELSE Jobs
        IN  /\ {j \in Jobs : qstate[j] # "none"} \subseteq Excused("queue")
            /\ {j \in Jobs : HasRow(j)} \subseteq Excused("rows")
            /\ objects \subseteq Excused("objects") \cup refused
            /\ outputs \subseteq Excused("files")
            /\ "files" \in cutShort \/ uploads \subseteq Preset \cup unseen

\* A job that runs while the script is at work is dead-lettered for the reasons
\* DeadLetterHasCause names, or because the script removed its upload: never a
\* job on the preset image, and never one on an upload that came after the
\* listing unless another run used it up.
CleaningSparesThePreset ==
    \A j \in Jobs :
        qstate[j] = "failed" =>
            \/ attemptsMade[j] >= Attempts
            \/ GivenUp(j)
            \/ ImageOf[j] \in Corrupt \cup (Images \ (Provided \cup Uploading))
            \/ /\ ImageOf[j] \notin Preset
               /\ \/ ImageOf[j] \in swept \ unseen
                  \/ \E k \in uploaded : ImageOf[k] = ImageOf[j]

=============================================================================
