------------------------------ MODULE FileStore -----------------------------
(***************************************************************************)
(* The files a job touches: the uploads/ and output/ directories, which    *)
(* docker-compose.yml mounts from the host so that they survive a restart  *)
(* and are shared by the nodes on it, and the S3 bucket that s3.ts writes. *)
(* A file is present or absent;  its content is abstracted to whether      *)
(* sharp can decode it (Corrupt).                                          *)
(***************************************************************************)

EXTENDS JobIds

CONSTANTS
    Images,    \* image names that requests may carry
    ImageOf,   \* the image each job asks for
    Provided,  \* the images that exist in uploads/ when jobs are submitted
    Preset,    \* the images the server keeps for re-use (sample.jpg)
    Corrupt    \* the images that pass the magic-byte test but not sharp

ASSUME FileAssumption ==
    /\ ImageOf \in [Jobs -> Images]
    /\ Provided \subseteq Images
    /\ Preset \subseteq Images
    /\ Corrupt \subseteq Images

VARIABLES
    uploads,   \* input images on disk
    outputs,   \* jobs whose output/thumb-<id>.jpg is on disk
    objects,   \* jobs whose key thumbnails/thumb-<id>.jpg is in the bucket
    uploaded   \* history: jobs whose thumbnail some PUT stored

fileVars == <<uploads, outputs, objects, uploaded>>

FileTypeOK ==
    /\ uploads \in SUBSET Images
    /\ outputs \in SUBSET Jobs
    /\ objects \in SUBSET Jobs
    /\ uploaded \in SUBSET Jobs

FileInit ==
    /\ uploads = Provided
    /\ outputs = {}
    /\ objects = {}
    /\ uploaded = {}

InputExists(j)  == ImageOf[j] \in uploads
OutputExists(j) == j \in outputs

\* sharp(...).toFile(outputPath) overwrites what an earlier run left there.
WriteThumbnail(j) ==
    /\ outputs' = outputs \cup {j}
    /\ UNCHANGED <<uploads, objects, uploaded>>

\* uploadFiletoS3: the key depends on the job alone, so a PUT may overwrite.
uploadFiletoS3(j) ==
    /\ OutputExists(j)
    /\ objects' = objects \cup {j}
    /\ uploaded' = uploaded \cup {j}
    /\ UNCHANGED <<uploads, outputs>>

\* Mutant of Consumed: forgets the preset image.
ConsumedWithPreset(j) == {ImageOf[j]}

\* The input a successful run deletes: all but the server's preset image.
Consumed(j) == {ImageOf[j]} \ Preset

\* The unlinks of a finished run, each guarded by existsSync.
RemoveLocalFiles(j) ==
    /\ uploads' = uploads \ Consumed(j)
    /\ outputs' = outputs \ {j}
    /\ UNCHANGED <<objects, uploaded>>

\* The cleanup's try block was cut short: an unlink threw.
RemoveSomeFiles(j) ==
    /\ uploads' \in {uploads, uploads \ Consumed(j)}
    /\ UNCHANGED <<outputs, objects, uploaded>>

deleteFileFromS3(j) ==
    /\ objects' = objects \ {j}
    /\ UNCHANGED <<uploads, outputs, uploaded>>

=============================================================================
