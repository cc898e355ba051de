---------------------------- MODULE InputChecks -----------------------------
(***************************************************************************)
(* src/src/utils/security.ts and the part of createJob that calls it: which*)
(* image names and which files POST /jobs takes.                           *)
(*                                                                         *)
(* A name is a sequence of tokens;  "name" stands for any run of harmless  *)
(* characters, "NUL" for a null byte.  A file has the header of some kind  *)
(* of content, cut off after `length' bytes.                               *)
(***************************************************************************)
EXTENDS Naturals, Sequences

HasDots(name) ==
    \E i \in 1..(Len(name) - 1) : name[i] = "." /\ name[i + 1] = "."

\* Mutant of validatePathSafety: only two dots are looked for.
validateNoDots(name) == name # <<>> /\ ~HasDots(name)

validatePathSafety(name) ==
    /\ name # <<>>
    /\ ~HasDots(name)
    /\ \A i \in DOMAIN name : name[i] \notin {"NUL", "/", "\\"}

\* What the check is for: path.resolve(UPLOADS_DIR, name) is an entry of uploads/.
\* (The last check of the code, of the resolved path, holds of every path.)
StaysInside(name) ==
    /\ name \notin {<<>>, <<".">>, <<".", ".">>}
    /\ \A i \in DOMAIN name : name[i] \notin {"NUL", "/", "\\"}

\* The name of an upload, which multer makes up.
UploadName == <<"name">>

-----------------------------------------------------------------------------

\* The first bytes of the formats, and of two things that are not images: a
\* WAV file, which shares RIFF with WEBP, and a script.
Header == [
    jpeg |-> <<255, 216, 255, 224>>,
    png  |-> <<137, 80, 78, 71>>,
    gif  |-> <<71, 73, 70, 56>>,
    webp |-> <<82, 73, 70, 70, 1, 1, 1, 1, 87, 69, 66, 80>>,
    wav  |-> <<82, 73, 70, 70, 1, 1, 1, 1, 87, 65, 86, 69>>,
    text |-> <<35, 33, 47, 98>>]

ImageKinds == {"jpeg", "png", "gif", "webp"}

Files == [kind : DOMAIN Header, length : {0, 3, 4, 8, 12, 16}]

\* The zero-filled buffer of 16 bytes after readSync.
Buffer(file) ==
    [i \in 1..16 |->
        IF i <= file.length /\ i \in DOMAIN Header[file.kind]
        THEN Header[file.kind][i] ELSE 0]

HoldsBytes(buffer, first, bytes) == \A i \in DOMAIN bytes : buffer[first + i] = bytes[i]

\* Mutant of validateImageMagicBytes: RIFF is enough.
validateMagicPrefix(file) ==
    /\ file.length >= 4
    /\ \E kind \in ImageKinds : HoldsBytes(Buffer(file), 0, SubSeq(Header[kind], 1, 3))

validateImageMagicBytes(file) ==
    /\ file.length >= 4
    /\ LET buffer == Buffer(file)
       IN  \/ HoldsBytes(buffer, 0, <<255, 216, 255>>)
           \/ HoldsBytes(buffer, 0, <<137, 80, 78, 71>>)
           \/ HoldsBytes(buffer, 0, <<71, 73, 70, 56>>)
           \/ HoldsBytes(buffer, 0, <<82, 73, 70, 70>>) /\ HoldsBytes(buffer, 8, <<87, 69, 66, 80>>)

-----------------------------------------------------------------------------

\* What existsSync finds under the name: a directory under the names made of dots,
\* else nothing, a file, or a file that a worker deletes before it is opened.
FoundUnder(name) ==
    IF name \in {<<".">>, <<".", ".">>} THEN [kind : {"directory"}, length : {0}]
    ELSE Files \cup [kind : {"nothing", "vanishing"}, length : {0}]

\* createJob goes on with an image that does not exist (yet).
Accepts(name, found) ==
    /\ validatePathSafety(name)
    /\ found \in Files => validateImageMagicBytes(found)
    /\ found.kind \notin {"directory", "vanishing"}

=============================================================================
