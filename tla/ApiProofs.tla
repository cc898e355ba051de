----------------------------- MODULE ApiProofs ------------------------------
(***************************************************************************)
(* What holds of the API for any number of requests and nodes: keys are    *)
(* checked before anything happens, correlation ids do not mix, and no     *)
(* upload is left over without a reason.                                   *)
(***************************************************************************)
EXTENDS Api, SequenceTheorems, FiniteSetTheorems, FunctionTheorems, WellFoundedInduction, TLAPS

Stages == {"new", "correlated", "admitted", "stored", "answered", "done"}
Codes  == {0, 200, 201, 400, 401, 403, 404, 500, 503}

Shapes ==
    /\ DOMAIN call = Requests /\ DOMAIN query = Requests
    /\ stage \in [Requests -> Stages]
    /\ id \in [Requests -> Ids]
    /\ status \in [Requests -> Codes]
    /\ files \subseteq Requests
    /\ deleters \subseteq Requests
    /\ job \in [Requests -> JobRecord \cup {NoJob}]

\* The log lines: their type, and the ids in them.
LinesAre(e, ids) ==
    /\ e \in [Nodes -> Seq(Line)]
    /\ \A n \in Nodes : \A k \in DOMAIN e[n] : e[n][k].id \in {"absent", ids[e[n][k].by]}

Lines == LinesAre(emitted, id)

IsAdmin(c) == extractApiKey(c) = "admin"

\* All that a handler does, and what of it answers without an effect.
Serve(r) == Timely(r) \/ Untimed(r)

Reads(r) == ReadViews(r) \/ ReadCache(r) \/ ServeFile(r)

\* What holds of each request: how far it has come tells what it can have done.
Fine(r) ==
    /\ stage[r] = "new" =>
          id[r] = "absent" /\ job[r] = NoJob /\ query[r] = NoQuery /\ r \notin deleters
    /\ stage[r] \in {"admitted", "stored"} => MayEnter(call[r])
    /\ r \in files => /\ stage[r] \in {"stored", "answered", "done"}
                      /\ KeyIsFound(call[r])
                      /\ \/ stage[r] = "stored" \/ job[r] # NoJob
                         \/ status[r] \in {403, 503} \/ r \in cut
    /\ job[r] # NoJob => KeyIsFound(call[r]) /\ job[r].id = id[r]
    /\ r \in deleters \/ query[r] # NoQuery => IsAdmin(call[r])
    /\ id[r] \notin {"absent", r} => id[r] = call[r].header

IInv == Shapes /\ Lines /\ \A r \in Requests : Fine(r)

-----------------------------------------------------------------------------

LEMMA Implied == IInv => NothingBeforeTheKey /\ IdsDoNotMix /\ UploadsAreAccountedFor
<1> SUFFICES ASSUME IInv PROVE NothingBeforeTheKey /\ IdsDoNotMix /\ UploadsAreAccountedFor
    OBVIOUS
<1>1. NothingBeforeTheKey
  BY DEF IInv, Fine, NothingBeforeTheKey, IsAdmin
<1>2. IdsDoNotMix
  BY DEF IInv, Fine, Lines, LinesAre, IdsDoNotMix
<1>3. UploadsAreAccountedFor
  BY DEF IInv, Shapes, Fine, UploadsAreAccountedFor
<1> QED  BY <1>1, <1>2, <1>3

\* A key is asked for on every route but /health and the files, and an administrator's for two.
LEMMA Entered ==
    ASSUME NEW c, MayEnter(c)
    PROVE  /\ c.route = "POST /jobs" => KeyIsFound(c)
           /\ AdminOnly(c.route) => IsAdmin(c)
BY DEF MayEnter, Public, AdminOnly, Role, IsAdmin, Keys

\* A job is a record with a state other than "none".
LEMMA JobIsNotNoJob ==
    ASSUME NEW j \in JobRecord
    PROVE  j # NoJob
BY DEF JobRecord, NoJob

LEMMA Initially == ApiInit => IInv
<1> SUFFICES ASSUME ApiInit PROVE IInv
    OBVIOUS
<1>1. Shapes
  BY DEF ApiInit, Shapes, Stages, Codes, Ids
<1>2. Lines
  BY DEF ApiInit, Lines, LinesAre
<1>3. ASSUME NEW r \in Requests PROVE Fine(r)
  BY DEF ApiInit, Fine
<1> QED  BY <1>1, <1>2, <1>3 DEF IInv

-----------------------------------------------------------------------------
(* The lines                                                               *)

\* A line with the id of its request, or without one, leaves the ids apart.
LEMMA OwnLine ==
    ASSUME NEW e, NEW ids, LinesAre(e, ids), NEW n \in Nodes, NEW line \in Line,
           line.id \in {"absent", ids[line.by]}
    PROVE  LinesAre([e EXCEPT ![n] = Append(@, line)], ids)
<1> DEFINE new == [e EXCEPT ![n] = Append(@, line)]
<1>1. new \in [Nodes -> Seq(Line)]
  BY DEF LinesAre
<1>2. ASSUME NEW m \in Nodes, NEW k \in DOMAIN new[m]
      PROVE  new[m][k].id \in {"absent", ids[new[m][k].by]}
  <2>1. CASE m # n
    BY <2>1, <1>2 DEF LinesAre
  <2>2. CASE m = n
    <3>1. new[n] = Append(e[n], line) /\ e[n] \in Seq(Line)
      BY DEF LinesAre
    <3>2. CASE k = Len(e[n]) + 1
      BY <2>2, <3>1, <3>2
    <3>3. CASE k # Len(e[n]) + 1
      <4>1. k \in DOMAIN e[n] /\ new[n][k] = e[n][k]
        BY <1>2, <2>2, <3>1, <3>3
      <4> QED  BY <4>1, <2>2 DEF LinesAre
    <3> QED  BY <3>2, <3>3
  <2> QED  BY <2>1, <2>2
<1> QED  BY <1>1, <1>2 DEF LinesAre

\* Until a request has its id, its lines have none.
LEMMA NewId ==
    ASSUME NEW e, NEW ids \in [Requests -> Ids], LinesAre(e, ids),
           NEW r \in Requests, ids[r] = "absent", NEW i \in Ids
    PROVE  LinesAre(e, [ids EXCEPT ![r] = i])
<1> DEFINE new == [ids EXCEPT ![r] = i]
<1>1. ASSUME NEW n \in Nodes, NEW k \in DOMAIN e[n]
      PROVE  e[n][k].id \in {"absent", new[e[n][k].by]}
  <2>1. e[n] \in Seq(Line)
    BY <1>1 DEF LinesAre
  <2>2. e[n][k] \in Line
    BY <1>1, <2>1, ElementOfSeq
  <2>3. e[n][k].by \in Requests
    BY <2>2 DEF Line
  <2> QED  BY <1>1, <2>3 DEF LinesAre
<1> QED  BY <1>1 DEF LinesAre

\* What a request logs before its answer, or with it.
LEMMA Logged ==
    ASSUME Lines, NEW n \in Nodes, NEW r \in Requests, id[r] \in Ids,
           NEW level \in {"info", "warn", "error"},
           Log(n, LineOf(r, id[r], level)), id' = id
    PROVE  Lines'
<1> DEFINE line == LineOf(r, id[r], level)
<1>1. line \in Line /\ line.id = id[line.by]
  BY DEF Line, LineOf
<1>2. LinesAre([emitted EXCEPT ![n] = Append(@, line)], id)
  <2> HIDE DEF line
  <2> QED  BY <1>1, OwnLine DEF Lines
<1> QED  BY <1>2 DEF Lines, Log

-----------------------------------------------------------------------------
(* The answers                                                             *)

\* An answer keeps what holds if a file that stays is excused by the status,
\* and if what an administrator's route does is done for an administrator.
LEMMA AnswerKeeps ==
    ASSUME IInv, NEW r \in Requests, stage[r] # "new", NEW code \in Codes, Answered(r, code),
           UNCHANGED <<call, id, job, cut>>, Lines',
           \/ files' = files \ {r}
           \/ files' = files /\ (r \in files => code \in {403, 503}),
           deleters' = deleters \/ deleters' = deleters \cup {r},
           DOMAIN query' = Requests, \A q \in Requests \ {r} : query'[q] = query[q],
           (r \in deleters' /\ r \notin deleters) \/ query'[r] # query[r] => IsAdmin(call[r])
    PROVE  IInv'
<1>1. Shapes'
  BY DEF IInv, Shapes, Answered, Stages
<1>2. ASSUME NEW q \in Requests PROVE Fine(q)'
  <2>1. CASE q = r
    <3>1. stage'[r] = "answered" /\ status'[r] = code
      BY DEF IInv, Shapes, Answered
    <3>2. r \in files' => code \in {403, 503} /\ r \in files
      OBVIOUS
    <3>3. r \in deleters' \/ query'[r] # NoQuery => IsAdmin(call[r])
      BY DEF IInv, Fine
    <3> QED  BY <2>1, <3>1, <3>2, <3>3 DEF IInv, Fine
  <2>2. CASE q # r
    <3>1. stage'[q] = stage[q] /\ status'[q] = status[q] /\ query'[q] = query[q]
      BY <2>2 DEF IInv, Shapes, Answered
    <3>2. (q \in files' <=> q \in files) /\ (q \in deleters' <=> q \in deleters)
      BY <2>2
    <3> QED  BY <3>1, <3>2 DEF IInv, Fine
  <2> QED  BY <2>1, <2>2
<1> QED  BY <1>1, <1>2 DEF IInv

\* The answers of every action but the one that adds a job.
LEMMA AnsweringKeeps ==
    ASSUME IInv, NEW r \in Requests,
           \/ RefuseKey(r) \/ RefuseRole(r) \/ RefuseImage(r) \/ RefuseNothing(r)
           \/ DeleteJobs(r) \/ Reads(r) \/ ShowLogs(r)
    PROVE  IInv'
<1>0. /\ NodeOf[r] \in Nodes /\ id[r] \in Ids /\ Lines /\ DOMAIN query = Requests
      /\ stage[r] # "stored" /\ stage[r] # "answered" /\ stage[r] # "done" => r \notin files
  BY ApiAssumption DEF IInv, Shapes, Fine
<1>1. CASE RefuseKey(r)
  <2>1. stage[r] = "correlated" /\ Answered(r, 401) /\ Log(NodeOf[r], LineOf(r, id[r], "warn"))
        /\ UNCHANGED <<call, id, job, cut, files, deleters, query>>
    BY <1>1 DEF RefuseKey, effects
  <2>2. Lines'
    BY <1>0, <2>1, Logged
  <2> QED  BY <1>0, <2>1, <2>2, AnswerKeeps DEF Codes
<1>2. CASE RefuseRole(r)
  <2>1. stage[r] = "correlated" /\ Answered(r, 403) /\ Log(NodeOf[r], LineOf(r, id[r], "warn"))
        /\ UNCHANGED <<call, id, job, cut, files, deleters, query>>
    BY <1>2 DEF RefuseRole, effects
  <2>2. Lines'
    BY <1>0, <2>1, Logged
  <2> QED  BY <1>0, <2>1, <2>2, AnswerKeeps DEF Codes
<1>3. CASE RefuseImage(r)
  <2>1. stage[r] \in {"stored", "admitted"} /\ Answered(r, 400) /\ files' = files \ {r}
        /\ UNCHANGED <<call, id, job, cut, deleters, query, emitted>>
    BY <1>3 DEF RefuseImage, InHandler, tracks
  <2>2. Lines'
    BY <1>0, <2>1 DEF Lines
  <2> QED  BY <1>0, <2>1, <2>2, AnswerKeeps DEF Codes
<1>4. CASE RefuseNothing(r)
  <2>1. stage[r] = "admitted" /\ Answered(r, 500)
        /\ UNCHANGED <<call, id, job, cut, files, deleters, query, emitted>>
    BY <1>4 DEF RefuseNothing, InHandler, effects, tracks
  <2>2. Lines'
    BY <1>0, <2>1 DEF Lines
  <2> QED  BY <1>0, <2>1, <2>2, AnswerKeeps DEF Codes
<1>5. CASE DeleteJobs(r)
  <2>1. PICK code \in {200, 500} :
           /\ Answered(r, code)
           /\ deleters' = deleters \/ deleters' = deleters \cup {r}
    BY <1>5 DEF DeleteJobs
  <2>2. stage[r] = "admitted" /\ UNCHANGED <<call, id, job, cut, files, query, emitted>>
    BY <1>5 DEF DeleteJobs, tracks
  <2>3. IsAdmin(call[r])
    <3>1. call[r].route = "DELETE /jobs" /\ MayEnter(call[r])
      BY <1>5, <2>2 DEF DeleteJobs, IInv, Fine
    <3> QED  BY <3>1, Entered DEF AdminOnly, IsAdmin
  <2>4. Lines'
    BY <1>0, <2>2 DEF Lines
  <2> QED  BY <1>0, <2>1, <2>2, <2>3, <2>4, AnswerKeeps DEF Codes
<1>6. CASE Reads(r)
  <2>1. PICK code \in {200, 404, 500, 503} : Answered(r, code)
    <3>1. CASE ReadViews(r)
      <4>1. PICK code \in {200, 500} \cup (IF call[r].route = "GET /jobs" THEN {404} ELSE {}) :
               Answered(r, code)
        BY <3>1 DEF ReadViews
      <4>2. code \in {200, 404, 500, 503}
        BY <4>1, Zenon
      <4> QED  BY <4>1, <4>2
    <3>2. CASE ReadCache(r)
      <4>1. PICK code \in {200, 500, 503} : Answered(r, code)
        BY <3>2 DEF ReadCache
      <4>2. code \in {200, 404, 500, 503}
        BY <4>1, Zenon
      <4> QED  BY <4>1, <4>2
    <3>3. CASE ServeFile(r)
      <4>1. PICK code \in {200, 404} : Answered(r, code)
        BY <3>3 DEF ServeFile
      <4>2. code \in {200, 404, 500, 503}
        BY <4>1, Zenon
      <4> QED  BY <4>1, <4>2
    <3> QED  BY <1>6, <3>1, <3>2, <3>3 DEF Reads
  <2>2. stage[r] = "admitted"
        /\ UNCHANGED <<call, id, job, cut, files, deleters, query, emitted>>
    BY <1>6 DEF Reads, ReadViews, ReadCache, ServeFile, effects, tracks
  <2>3. Lines'
    BY <1>0, <2>2 DEF Lines
  <2> QED  BY <1>0, <2>1, <2>2, <2>3, AnswerKeeps DEF Codes
<1>7. CASE ShowLogs(r)
  <2>1. stage[r] = "correlated" /\ Answered(r, 200)
        /\ UNCHANGED <<call, id, job, cut, files, deleters, emitted>>
    BY <1>7 DEF ShowLogs, tracks
  <2>2. DOMAIN query' = Requests /\ \A q \in Requests \ {r} : query'[q] = query[q]
    BY <1>0, <1>7 DEF ShowLogs
  <2>3. IsAdmin(call[r])
    BY <1>7, Entered DEF ShowLogs, AdminOnly
  <2>4. Lines'
    BY <1>0, <2>1 DEF Lines
  <2> QED  BY <1>0, <2>1, <2>2, <2>3, <2>4, AnswerKeeps DEF Codes
<1> QED  BY <1>1, <1>2, <1>3, <1>4, <1>5, <1>6, <1>7

-----------------------------------------------------------------------------
(* The steps on the way                                                    *)

LEMMA RefuseBodyKeeps ==
    ASSUME IInv, NEW r \in Requests, RefuseBody(r)
    PROVE  IInv'
<1>1. stage[r] = "new" /\ UNCHANGED <<id, files, job, deleters, query, emitted, cut>>
      /\ stage' = [stage EXCEPT ![r] = "done"] /\ status' = [status EXCEPT ![r] = 400]
  BY DEF RefuseBody, effects, tracks
<1>2. DOMAIN call' = Requests /\ \A q \in Requests \ {r} : call'[q] = call[q]
  BY DEF RefuseBody, IInv, Shapes
<1>3. Shapes'
  BY <1>1, <1>2 DEF IInv, Shapes, Stages, Codes
<1>4. ASSUME NEW q \in Requests PROVE Fine(q)'
  <2>1. CASE q = r
    BY <1>1, <2>1 DEF IInv, Shapes, Fine
  <2>2. CASE q # r
    BY <1>1, <1>2, <2>2 DEF IInv, Shapes, Fine
  <2> QED  BY <2>1, <2>2
<1> QED  BY <1>1, <1>3, <1>4 DEF IInv, Lines

LEMMA AdmitKeeps ==
    ASSUME IInv, NEW r \in Requests, Admit(r)
    PROVE  IInv'
<1>1. stage[r] = "correlated" /\ MayEnter(call[r]) /\ stage' = [stage EXCEPT ![r] = "admitted"]
      /\ UNCHANGED <<call, id, status, files, job, deleters, query, emitted, cut>>
  BY DEF Admit, effects, tracks
<1>2. Shapes'
  BY <1>1 DEF IInv, Shapes, Stages
<1>3. ASSUME NEW q \in Requests PROVE Fine(q)'
  <2>1. CASE q = r
    BY <1>1, <2>1 DEF IInv, Shapes, Fine
  <2>2. CASE q # r
    BY <1>1, <2>2 DEF IInv, Shapes, Fine
  <2> QED  BY <2>1, <2>2
<1> QED  BY <1>1, <1>2, <1>3 DEF IInv, Lines

LEMMA StoreUploadKeeps ==
    ASSUME IInv, NEW r \in Requests, StoreUpload(r)
    PROVE  IInv'
<1>1. stage[r] = "admitted" /\ call[r].route = "POST /jobs"
      /\ UNCHANGED <<call, id, job, deleters, query, emitted, cut>>
  BY DEF StoreUpload, Posts, tracks
<1>2. KeyIsFound(call[r]) /\ r \notin files
  BY <1>1, Entered DEF IInv, Fine
<1>3. Lines'
  BY <1>1 DEF IInv, Lines
<1>4. CASE Answered(r, 500) /\ UNCHANGED files
  <2>1. DOMAIN query = Requests
    BY DEF IInv, Shapes
  <2>2. 500 \in Codes /\ stage[r] # "new" /\ UNCHANGED <<call, id, job, cut>>
        /\ deleters' = deleters /\ query' = query /\ files' = files /\ r \notin files
    BY <1>1, <1>2, <1>4 DEF Codes
  <2> QED  BY <1>3, <1>4, <2>1, <2>2, AnswerKeeps
<1>5. CASE files' = files \cup {r} /\ stage' = [stage EXCEPT ![r] = "stored"] /\ UNCHANGED status
  <2>1. Shapes'
    BY <1>1, <1>5 DEF IInv, Shapes, Stages
  <2>2. ASSUME NEW q \in Requests PROVE Fine(q)'
    <3>1. CASE q = r
      BY <1>1, <1>2, <1>5, <3>1 DEF IInv, Shapes, Fine
    <3>2. CASE q # r
      BY <1>1, <1>5, <3>2 DEF IInv, Shapes, Fine
    <3> QED  BY <3>1, <3>2
  <2> QED  BY <1>3, <2>1, <2>2 DEF IInv
<1> QED  BY <1>4, <1>5 DEF StoreUpload

LEMMA SanitizedId ==
    ASSUME NEW r \in Requests, NEW c \in Calls[r]
    PROVE  LET i == sanitizeCorrelationId(r, c.header)
           IN  i \in Ids /\ (i # r => i = c.header)
BY DEF sanitizeCorrelationId, Ids

LEMMA CorrelateKeeps ==
    ASSUME IInv, NEW r \in Requests, Correlate(r)
    PROVE  IInv'
<1>1. PICK c \in Calls[r] :
         LET i == sanitizeCorrelationId(r, c.header)
         IN  /\ call' = [call EXCEPT ![r] = c]
             /\ id' = [id EXCEPT ![r] = i]
             /\ \/ emitted' = [emitted EXCEPT ![NodeOf[r]] =
                                  @ \o <<LineOf(r, "absent", "warn"), LineOf(r, i, "info")>>]
                \/ emitted' = [emitted EXCEPT ![NodeOf[r]] = Append(@, LineOf(r, i, "info"))]
  BY Zenon DEF Correlate, Log
<1> DEFINE i == sanitizeCorrelationId(r, c.header)
           n == NodeOf[r]
           warning == LineOf(r, "absent", "warn")
           incoming == LineOf(r, i, "info")
           new == [id EXCEPT ![r] = i]
           warned == [emitted EXCEPT ![n] = Append(@, warning)]
<1>2. stage[r] = "new" /\ stage' = [stage EXCEPT ![r] = "correlated"]
      /\ UNCHANGED <<status, files, job, deleters, query, cut>>
  BY DEF Correlate, effects
<1>3. i \in Ids /\ (i # r => i = c.header)
  BY SanitizedId
<1>4. n \in Nodes
  BY ApiAssumption
<1>5. Lines'
  <2>1. LinesAre(emitted, new)
    BY <1>2, <1>3, NewId DEF IInv, Shapes, Fine, Lines
  <2>2. warning \in Line /\ warning.id = "absent" /\ incoming \in Line /\ incoming.id = new[incoming.by]
    BY <1>3 DEF Line, LineOf, Ids, IInv, Shapes
  <2> HIDE DEF i, n, warning, incoming, new
  <2>3. LinesAre([emitted EXCEPT ![n] = Append(@, incoming)], new)
    BY <1>4, <2>1, <2>2, OwnLine
  <2>4. LinesAre(warned, new)
    BY <1>4, <2>1, <2>2, OwnLine
  <2>5. LinesAre([warned EXCEPT ![n] = Append(@, incoming)], new)
    <3> HIDE DEF warned
    <3> QED  BY <1>4, <2>2, <2>4, OwnLine
  <2>6. [warned EXCEPT ![n] = Append(@, incoming)] = [emitted EXCEPT ![n] = @ \o <<warning, incoming>>]
    <3>1. emitted \in [Nodes -> Seq(Line)]
      BY <2>1 DEF LinesAre
    <3>2. Append(Append(emitted[n], warning), incoming) = emitted[n] \o <<warning, incoming>>
      BY <1>4, <2>2, <3>1
    <3> QED  BY <1>4, <3>1, <3>2 DEF warned
  <2>7. id' = new
    BY <1>1 DEF new, i
  <2>8. \/ emitted' = [emitted EXCEPT ![n] = @ \o <<warning, incoming>>]
        \/ emitted' = [emitted EXCEPT ![n] = Append(@, incoming)]
    BY <1>1 DEF i, n, warning, incoming
  <2> QED  BY <2>3, <2>5, <2>6, <2>7, <2>8 DEF Lines
<1>6. Shapes'
  <2> HIDE DEF i
  <2> QED  BY <1>1, <1>2, <1>3 DEF IInv, Shapes, Stages, i
<1>7. ASSUME NEW q \in Requests PROVE Fine(q)'
  <2>1. CASE q = r
    <3>1. stage'[r] = "correlated" /\ id'[r] = i /\ call'[r] = c
      BY <1>1, <1>2 DEF IInv, Shapes
    <3>2. r \notin files' /\ job'[r] = NoJob /\ query'[r] = NoQuery /\ r \notin deleters'
      BY <1>2 DEF IInv, Fine
    <3> HIDE DEF i
    <3> QED  BY <2>1, <3>1, <3>2, <1>3 DEF Fine
  <2>2. CASE q # r
    BY <1>1, <1>2, <2>2 DEF IInv, Shapes, Fine
  <2> QED  BY <2>1, <2>2
<1> QED  BY <1>5, <1>6, <1>7 DEF IInv

\* What createJob takes.  The header of a WAV file or of a script passes for no
\* image, however short the file is, what is no file is refused, and so is every
\* name that leads out of uploads/:  those with a path by validatePathSafety, the
\* dots by what is found under them.
LEMMA TakenAreImages ==
    ASSUME NEW r, NEW image \in Taken(r)
    PROVE  /\ image.kind \in {"image", "missing"}
           /\ image.name \in Names \cup {UploadName}
           /\ StaysInside(image.name)
<1>1. PICK c \in Candidates(r) :
         Accepts(c[1], c[2]) /\ image = [name |-> c[1], kind |-> KindOf(c[2])]
  BY DEF Taken
<1> DEFINE name == c[1]
           found == c[2]
<1>2. \/ name = UploadName /\ found \in Files
      \/ name \in Names /\ found \in FoundUnder(name)
  BY DEF Candidates
<1>3. image.name = name /\ image.kind = KindOf(found) /\ Accepts(name, found)
  BY <1>1
<1> HIDE DEF name, found
<1>4. CASE found \notin Files
  <2>1. found.kind = "nothing" /\ name \notin {<<".">>, <<".", ".">>}
    BY <1>2, <1>3, <1>4 DEF FoundUnder, Accepts
  <2> QED  BY <1>2, <1>3, <2>1, <1>4 DEF KindOf, Accepts, validatePathSafety, StaysInside
<1>5. CASE found \in Files
  <2>1. validateImageMagicBytes(found) /\ found.length >= 4 /\ found.length \in Nat
    BY <1>3, <1>5 DEF Accepts, validateImageMagicBytes, Files
  <2>2. ASSUME found.kind = "wav" PROVE FALSE
    <3>1. Buffer(found)[1] = 82 /\ Buffer(found)[10] \in {0, 65}
      BY <2>1, <2>2 DEF Buffer, Header
    <3> HIDE DEF Buffer
    <3> QED  BY <2>1, <3>1 DEF validateImageMagicBytes, HoldsBytes
  <2>3. ASSUME found.kind = "text" PROVE FALSE
    <3>1. Buffer(found)[1] = 35
      BY <2>1, <2>3 DEF Buffer, Header
    <3> QED  BY <2>1, <3>1 DEF validateImageMagicBytes, HoldsBytes
  <2>4. found.kind \in {"jpeg", "png", "gif", "webp", "wav", "text"}
    BY <1>5 DEF Files, Header
  <2>5. KindOf(found) = "image"
    BY <2>2, <2>3, <2>4 DEF KindOf, ImageKinds
  <2>6. name \notin {<<".">>, <<".", ".">>}
    <3>1. name = UploadName \/ found \in FoundUnder(name)
      BY <1>2
    <3>2. found.kind # "directory"
      BY <2>4
    <3> QED  BY <3>1, <3>2 DEF FoundUnder, UploadName
  <2>7. StaysInside(name)
    BY <1>3, <2>6 DEF Accepts, validatePathSafety, StaysInside
  <2> QED  BY <1>2, <1>3, <2>5, <2>7
<1> QED  BY <1>4, <1>5

LEMMA CreateJobKeeps ==
    ASSUME IInv, NEW r \in Requests, CreateJob(r)
    PROVE  IInv'
<1>1. /\ stage[r] \in {"admitted", "stored"} /\ call[r].route = "POST /jobs"
      /\ UNCHANGED <<call, id, files, deleters, query, emitted, cut>>
  BY DEF CreateJob, Enqueue, InHandler, Posts, effects, tracks
<1>2. KeyIsFound(call[r])
  BY <1>1, Entered DEF IInv, Fine
<1>3. Lines'
  BY <1>1 DEF IInv, Lines
<1>4. DOMAIN query = Requests
  BY DEF IInv, Shapes
<1>5. CASE job' = job /\ (Answered(r, 403) \/ Answered(r, 503))
  <2>1. stage[r] # "new" /\ UNCHANGED <<call, id, job, cut>>
        /\ deleters' = deleters /\ query' = query /\ files' = files
    BY <1>1, <1>5
  <2>2. CASE Answered(r, 403)
    BY <1>3, <1>4, <2>1, <2>2, AnswerKeeps DEF Codes
  <2>3. CASE Answered(r, 503)
    BY <1>3, <1>4, <2>1, <2>3, AnswerKeeps DEF Codes
  <2> QED  BY <1>5, <2>2, <2>3
<1>6. ASSUME NEW image \in Taken(r), NEW code \in {201, 503}, Answered(r, code), Enqueue(r, image)
      PROVE  IInv'
  <2>1. stage' = [stage EXCEPT ![r] = "answered"] /\ status' = [status EXCEPT ![r] = code]
        /\ job' = [job EXCEPT ![r] = NewJob(r, image)]
    BY <1>6 DEF Answered, Enqueue
  <2>2. NewJob(r, image) \in JobRecord /\ NewJob(r, image).id = id[r]
    <3>1. image.kind \in {"image", "missing"} /\ image.name \in Names \cup {UploadName}
      BY TakenAreImages
    <3> QED  BY <3>1 DEF NewJob, JobFor, JobRecord, IInv, Shapes
  <2>3. Shapes'
    <3>1. stage' \in [Requests -> Stages] /\ status' \in [Requests -> Codes]
      BY <2>1 DEF IInv, Shapes, Stages, Codes
    <3>2. job' \in [Requests -> JobRecord \cup {NoJob}]
      BY <2>1, <2>2 DEF IInv, Shapes
    <3> QED  BY <1>1, <3>1, <3>2 DEF IInv, Shapes
  <2>4. ASSUME NEW q \in Requests PROVE Fine(q)'
    <3>1. CASE q = r
      <4>1. stage'[r] = "answered" /\ job'[r] = NewJob(r, image)
        BY <2>1 DEF IInv, Shapes
      <4>2. job'[r] # NoJob /\ job'[r].id = id[r]
        BY <2>2, <4>1, JobIsNotNoJob
      <4>3. call' = call /\ id' = id /\ deleters' = deleters /\ query' = query /\ Fine(r)
        BY <1>1 DEF IInv
      <4> QED  BY <1>2, <3>1, <4>1, <4>2, <4>3 DEF Fine
    <3>2. CASE q # r
      <4>1. stage'[q] = stage[q] /\ status'[q] = status[q] /\ job'[q] = job[q]
        BY <2>1, <3>2 DEF IInv, Shapes
      <4>2. call' = call /\ id' = id /\ files' = files /\ deleters' = deleters
            /\ query' = query /\ cut' = cut /\ Fine(q)
        BY <1>1 DEF IInv
      <4> QED  BY <4>1, <4>2 DEF Fine
    <3> QED  BY <3>1, <3>2
  <2> QED  BY <1>3, <2>3, <2>4 DEF IInv
<1> QED  BY <1>5, <1>6 DEF CreateJob, effects

LEMMA LevelIsOne == ASSUME NEW code \in Codes PROVE LevelOf(code) \in {"info", "warn", "error"}
BY DEF LevelOf

LEMMA FinishKeeps ==
    ASSUME IInv, NEW r \in Requests, Finish(r)
    PROVE  IInv'
<1>1. /\ stage[r] = "answered" /\ stage' = [stage EXCEPT ![r] = "done"]
      /\ query' = [query EXCEPT ![r] = NoQuery]
      /\ UNCHANGED <<call, id, status, files, job, deleters, cut>>
  BY DEF Finish
<1>2. Lines'
  <2>1. CASE UNCHANGED tracks
    BY <1>1, <2>1 DEF tracks, IInv, Lines
  <2>2. CASE Log(NodeOf[r], LineOf(r, id[r], LevelOf(status[r])))
    <3>1. LevelOf(status[r]) \in {"info", "warn", "error"} /\ NodeOf[r] \in Nodes /\ id[r] \in Ids
      BY LevelIsOne, ApiAssumption DEF IInv, Shapes
    <3> QED  BY <1>1, <2>2, <3>1, Logged DEF IInv
  <2> QED  BY <2>1, <2>2 DEF Finish
<1>3. Shapes'
  BY <1>1 DEF IInv, Shapes, Stages
<1>4. ASSUME NEW q \in Requests PROVE Fine(q)'
  <2>1. call' = call /\ id' = id /\ status' = status /\ files' = files /\ job' = job
        /\ deleters' = deleters /\ cut' = cut /\ Fine(q)
    BY <1>1 DEF IInv
  <2>2. CASE q = r
    <3>1. stage'[q] = "done" /\ query'[q] = NoQuery
      BY <1>1, <2>2 DEF IInv, Shapes
    <3> QED  BY <1>1, <2>1, <2>2, <3>1 DEF Fine
  <2>3. CASE q # r
    <3>1. stage'[q] = stage[q] /\ query'[q] = query[q]
      BY <1>1, <2>3 DEF IInv, Shapes
    <3> QED  BY <2>1, <3>1 DEF Fine
  <2> QED  BY <2>2, <2>3
<1> QED  BY <1>2, <1>3, <1>4 DEF IInv

-----------------------------------------------------------------------------
(* The jobs and the node                                                   *)

\* A job keeps its id whatever becomes of it, and only a run may take a file
\* away.
LEMMA JobStepKeeps ==
    ASSUME IInv, Lines', UNCHANGED <<call, id, status, deleters, query>>,
           stage' \in [Requests -> Stages], files' \subseteq files, cut \subseteq cut',
           \A q \in Requests : stage'[q] = stage[q] \/ (stage[q] # "new" /\ stage'[q] = "done" /\ q \in cut'),
           job' = [q \in Requests |-> job'[q]],
           \A q \in Requests :
              \/ job'[q] = job[q]
              \/ job[q] # NoJob /\ job'[q] \in JobRecord /\ job'[q].id = job[q].id
    PROVE  IInv'
<1>1. Shapes'
  <2>1. job' \in [Requests -> JobRecord \cup {NoJob}]
    <3>1. \A q \in Requests : job'[q] \in JobRecord \cup {NoJob}
      BY DEF IInv, Shapes
    <3> QED  BY <3>1
  <2> QED  BY <2>1 DEF IInv, Shapes
<1>2. ASSUME NEW q \in Requests PROVE Fine(q)'
  <2>1. call' = call /\ id' = id /\ status' = status /\ deleters' = deleters /\ query' = query /\ Fine(q)
    BY DEF IInv
  <2>2. (job[q] = NoJob <=> job'[q] = NoJob) /\ (job'[q] # NoJob => job'[q].id = job[q].id)
    BY JobIsNotNoJob
  <2>3. (q \in files' => q \in files) /\ (q \in cut => q \in cut')
    OBVIOUS
  <2>4. CASE stage'[q] = stage[q]
    BY <2>1, <2>2, <2>3, <2>4 DEF Fine
  <2>5. CASE stage[q] # "new" /\ stage'[q] = "done" /\ q \in cut'
    BY <2>1, <2>2, <2>3, <2>5 DEF Fine
  <2> QED  BY <2>4, <2>5
<1> QED  BY <1>1, <1>2 DEF IInv

LEMMA RunningJob ==
    ASSUME IInv, NEW r \in Requests, job[r].state # "none"
    PROVE  job[r] \in JobRecord /\ job[r] # NoJob /\ job[r].id = id[r] /\ id[r] \in Ids
<1>1. job[r] \in JobRecord \cup {NoJob} /\ id[r] \in Ids
  BY DEF IInv, Shapes
<1>2. job[r] # NoJob
  BY DEF NoJob
<1> QED  BY <1>1, <1>2 DEF IInv, Fine

LEMMA ClaimJobKeeps ==
    ASSUME IInv, NEW r \in Requests, NEW n \in Nodes, ClaimJob(r, n)
    PROVE  IInv'
<1>1. job[r] \in JobRecord /\ job[r] # NoJob /\ job[r].id = id[r] /\ id[r] \in Ids
  BY RunningJob DEF ClaimJob
<1>2. job' = [job EXCEPT ![r] = [job[r] EXCEPT !.state = "running", !.node = n]]
      /\ UNCHANGED <<call, stage, id, status, files, deleters, query, cut>>
  BY DEF ClaimJob
<1>3. Lines'
  BY <1>1, <1>2, Logged DEF ClaimJob, IInv
<1>4. job' = [q \in Requests |-> job'[q]] /\ job'[r] = [job[r] EXCEPT !.state = "running", !.node = n]
      /\ \A q \in Requests \ {r} : job'[q] = job[q]
  BY <1>2 DEF IInv, Shapes
<1>5. [job[r] EXCEPT !.state = "running", !.node = n] \in JobRecord
      /\ [job[r] EXCEPT !.state = "running", !.node = n].id = job[r].id
  BY <1>1 DEF JobRecord
<1>6. stage' \in [Requests -> Stages] /\ \A q \in Requests : stage'[q] = stage[q]
  BY <1>2 DEF IInv, Shapes
<1>7. \A q \in Requests :
        \/ job'[q] = job[q]
        \/ job[q] # NoJob /\ job'[q] \in JobRecord /\ job'[q].id = job[q].id
  BY <1>1, <1>4, <1>5
<1>8. files' \subseteq files /\ cut \subseteq cut' /\ UNCHANGED <<call, id, status, deleters, query>>
  BY <1>2
<1>9. job' = [q \in Requests |-> job'[q]]
  BY <1>4
<1> QED  BY <1>3, <1>6, <1>7, <1>8, <1>9, JobStepKeeps

LEMMA EndRunKeeps ==
    ASSUME IInv, NEW r \in Requests, EndRun(r)
    PROVE  IInv'
<1>1. job[r] \in JobRecord /\ job[r] # NoJob /\ job[r].id = id[r] /\ id[r] \in Ids
  BY RunningJob DEF EndRun
<1>2. UNCHANGED <<call, stage, id, status, deleters, query, cut>> /\ files' \subseteq files
  BY DEF EndRun
<1>3. PICK state \in {"queued", "ended"} : job' = [job EXCEPT ![r] = [job[r] EXCEPT !.state = state]]
  BY DEF EndRun
<1>4. Lines'
  <2>1. CASE UNCHANGED tracks
    BY <1>2, <2>1 DEF tracks, IInv, Lines
  <2>2. ASSUME NEW level \in {"info", "warn", "error"}, Log(job[r].node, LineOf(r, job[r].id, level))
        PROVE  Lines'
    <3>1. CASE job[r].node \in Nodes
      BY <1>1, <1>2, <2>2, <3>1, Logged DEF IInv
    <3>2. CASE job[r].node \notin Nodes
      <4>1. emitted' = emitted
        BY <2>2, <3>2 DEF Log, IInv, Lines, LinesAre
      <4> QED  BY <1>2, <4>1 DEF IInv, Lines
    <3> QED  BY <3>1, <3>2
  <2> QED  BY <2>1, <2>2 DEF EndRun
<1>5. job' = [q \in Requests |-> job'[q]] /\ job'[r] = [job[r] EXCEPT !.state = state]
      /\ \A q \in Requests \ {r} : job'[q] = job[q]
  BY <1>3 DEF IInv, Shapes
<1>6. [job[r] EXCEPT !.state = state] \in JobRecord /\ [job[r] EXCEPT !.state = state].id = job[r].id
  BY <1>1 DEF JobRecord
<1>7. stage' \in [Requests -> Stages] /\ \A q \in Requests : stage'[q] = stage[q]
  BY <1>2 DEF IInv, Shapes
<1>8. \A q \in Requests :
        \/ job'[q] = job[q]
        \/ job[q] # NoJob /\ job'[q] \in JobRecord /\ job'[q].id = job[q].id
  BY <1>1, <1>5, <1>6
<1>9. cut \subseteq cut' /\ UNCHANGED <<call, id, status, deleters, query>>
  BY <1>2
<1>10. job' = [q \in Requests |-> job'[q]]
  BY <1>5
<1> QED  BY <1>2, <1>4, <1>7, <1>8, <1>9, <1>10, JobStepKeeps

LEMMA RestartKeeps ==
    ASSUME IInv, NEW n \in Nodes, Restart(n)
    PROVE  IInv'
<1> DEFINE lost == {r \in Requests : NodeOf[r] = n /\ stage[r] \notin {"new", "done"}}
<1>1. /\ UNCHANGED <<call, id, status, files, deleters, query>>
      /\ emitted' = [emitted EXCEPT ![n] = <<>>]
      /\ stage' = [r \in Requests |-> IF r \in lost THEN "done" ELSE stage[r]]
      /\ cut' = cut \cup lost
      /\ job' = [r \in Requests |->
            IF job[r].state = "running" /\ job[r].node = n
            THEN [job[r] EXCEPT !.state = "queued"] ELSE job[r]]
  BY DEF Restart
<1>2. Lines'
  BY <1>1 DEF IInv, Lines, LinesAre
<1>3. stage' \in [Requests -> Stages]
      /\ \A q \in Requests : stage'[q] = stage[q] \/ (stage[q] # "new" /\ stage'[q] = "done" /\ q \in cut')
  <2>1. stage' \in [Requests -> Stages]
    BY <1>1 DEF IInv, Shapes, Stages
  <2>2. ASSUME NEW q \in Requests
        PROVE  stage'[q] = stage[q] \/ (stage[q] # "new" /\ stage'[q] = "done" /\ q \in cut')
    <3>1. stage'[q] = IF q \in lost THEN "done" ELSE stage[q]
      BY <1>1
    <3>2. q \in lost => stage[q] # "new" /\ q \in cut'
      BY <1>1
    <3> HIDE DEF lost
    <3> QED  BY <3>1, <3>2
  <2> QED  BY <2>1, <2>2
<1>4. ASSUME NEW q \in Requests
      PROVE  \/ job'[q] = job[q]
             \/ job[q] # NoJob /\ job'[q] \in JobRecord /\ job'[q].id = job[q].id
  <2>1. CASE job[q].state = "running" /\ job[q].node = n
    <3>1. job[q] \in JobRecord /\ job[q] # NoJob
      BY <2>1, RunningJob
    <3>2. job'[q] = [job[q] EXCEPT !.state = "queued"]
      BY <1>1, <2>1
    <3> QED  BY <3>1, <3>2 DEF JobRecord
  <2>2. CASE ~(job[q].state = "running" /\ job[q].node = n)
    BY <1>1, <2>2
  <2> QED  BY <2>1, <2>2
<1>5. job' = [q \in Requests |-> job'[q]] /\ files' \subseteq files /\ cut \subseteq cut'
  BY <1>1
<1> HIDE DEF lost
<1> QED  BY <1>1, <1>2, <1>3, <1>4, <1>5, JobStepKeeps

LEMMA DisconnectKeeps ==
    ASSUME IInv, NEW r \in Requests, Disconnect(r)
    PROVE  IInv'
<1>1. UNCHANGED <<call, stage, id, status, files, job, deleters, query, emitted, cut>>
  BY DEF Disconnect, effects, tracks
<1> QED  BY <1>1 DEF IInv, Shapes, Lines, Fine

LEMMA StutterKeeps == IInv /\ UNCHANGED apiVars => IInv'
<1> SUFFICES ASSUME IInv, UNCHANGED apiVars PROVE IInv'
    OBVIOUS
<1>1. UNCHANGED <<call, stage, id, status, files, job, deleters, query, emitted, cut>>
  BY DEF apiVars, effects, tracks
<1> QED  BY <1>1 DEF IInv, Shapes, Lines, Fine

-----------------------------------------------------------------------------

THEOREM Invariance == ApiSpec => []IInv
<1>1. ApiInit => IInv
  BY Initially
<1>2. IInv /\ [ApiNext]_apiVars => IInv'
  <2> SUFFICES ASSUME IInv, [ApiNext]_apiVars PROVE IInv'
      OBVIOUS
  <2>1. ASSUME NEW r \in Requests, RefuseBody(r) \/ Correlate(r) \/ Disconnect(r) \/ EndRun(r)
        PROVE  IInv'
    BY <2>1, RefuseBodyKeeps, CorrelateKeeps, DisconnectKeeps, EndRunKeeps
  <2>2. ASSUME NEW r \in Requests, Serve(r)
        PROVE  IInv'
    BY <2>2, AnsweringKeeps, AdmitKeeps, StoreUploadKeeps, CreateJobKeeps, FinishKeeps DEF Serve, Timely, Untimed, Reads
  <2>3. ASSUME NEW r \in Requests, NEW n \in Nodes, ClaimJob(r, n)
        PROVE  IInv'
    BY <2>3, ClaimJobKeeps
  <2>4. ASSUME NEW n \in Nodes, Restart(n)
        PROVE  IInv'
    BY <2>4, RestartKeeps
  <2>5. CASE UNCHANGED apiVars
    BY <2>5, StutterKeeps
  <2> QED  BY <2>1, <2>2, <2>3, <2>4, <2>5 DEF ApiNext, Serve
<1> QED  BY <1>1, <1>2, PTL DEF ApiSpec

\* apiKeyAuthMiddleware and requireRole come before everything that has an
\* effect: a request that stored or queued something gave a key that the lookup
\* in API_KEYS finds (one of the three, or a name that every object inherits), and
\* one that deleted rows or saw log lines gave the administrator's.
THEOREM KeyTheorem == ApiSpec => []NothingBeforeTheKey
BY Invariance, Implied, PTL

\* The id that correlationMiddleware chose for a request is the one in its job
\* and in every line that the request or the job logs on any node.
THEOREM IdTheorem == ApiSpec => []IdsDoNotMix
BY Invariance, Implied, PTL

\* What createJob and multer leave in uploads/: the files of jobs, of requests in
\* progress, and of those that were refused as 403 or 503 or cut off.
THEOREM UploadTheorem == ApiSpec => []UploadsAreAccountedFor
BY Invariance, Implied, PTL

-----------------------------------------------------------------------------
(* The jobs and their images                                               *)

\* A job keeps its image from createJob to its end.
LEMMA ImagesKeep ==
    ASSUME IInv, OnlyImagesAreProcessed, [ApiNext]_apiVars
    PROVE  OnlyImagesAreProcessed'
<1>0. \A q \in Requests : job[q] \in JobRecord \cup {NoJob}
  BY DEF IInv, Shapes
<1>1. CASE job' = job
  BY <1>1 DEF OnlyImagesAreProcessed
<1>2. ASSUME NEW r \in Requests, NEW new, new.image \in {"image", "missing"},
             StaysInside(new.name), job' = [job EXCEPT ![r] = new]
      PROVE  OnlyImagesAreProcessed'
  <2>1. job'[r] = new /\ \A q \in Requests \ {r} : job'[q] = job[q]
    BY <1>2 DEF IInv, Shapes
  <2> QED  BY <1>2, <2>1 DEF OnlyImagesAreProcessed
<1>3. ASSUME NEW r \in Requests, CreateJob(r) PROVE OnlyImagesAreProcessed'
  <2>1. ASSUME NEW image \in Taken(r), Enqueue(r, image)
        PROVE  OnlyImagesAreProcessed'
    <3>1. /\ NewJob(r, image).image \in {"image", "missing"}
          /\ StaysInside(NewJob(r, image).name)
      BY TakenAreImages DEF NewJob, JobFor
    <3>2. job' = [job EXCEPT ![r] = NewJob(r, image)]
      BY <2>1 DEF Enqueue
    <3>3. job'[r] = NewJob(r, image) /\ \A q \in Requests \ {r} : job'[q] = job[q]
      BY <3>2 DEF IInv, Shapes
    <3> QED  BY <3>1, <3>3 DEF OnlyImagesAreProcessed
  <2> QED  BY <1>1, <1>3, <2>1 DEF CreateJob, effects
<1>4. ASSUME NEW r \in Requests, NEW n \in Nodes, ClaimJob(r, n) PROVE OnlyImagesAreProcessed'
  <2>1. job[r] \in JobRecord /\ job[r] # NoJob
    BY <1>4, RunningJob DEF ClaimJob
  <2>2. job' = [job EXCEPT ![r] = [job[r] EXCEPT !.state = "running", !.node = n]]
    BY <1>4 DEF ClaimJob
  <2> QED  BY <1>2, <2>1, <2>2 DEF OnlyImagesAreProcessed, JobRecord
<1>5. ASSUME NEW r \in Requests, EndRun(r) PROVE OnlyImagesAreProcessed'
  <2>1. job[r] \in JobRecord /\ job[r] # NoJob
    BY <1>5, RunningJob DEF EndRun
  <2>2. PICK state \in {"queued", "ended"} : job' = [job EXCEPT ![r] = [job[r] EXCEPT !.state = state]]
    BY <1>5 DEF EndRun
  <2> QED  BY <1>2, <2>1, <2>2 DEF OnlyImagesAreProcessed, JobRecord
<1>6. ASSUME NEW n \in Nodes, Restart(n) PROVE OnlyImagesAreProcessed'
  <2>1. ASSUME NEW q \in Requests, job'[q] # NoJob PROVE job'[q].image \in {"image", "missing"} /\ StaysInside(job'[q].name)
    <3>1. CASE job[q].state = "running" /\ job[q].node = n
      <4>1. job[q] \in JobRecord /\ job[q] # NoJob /\ job'[q] = [job[q] EXCEPT !.state = "queued"]
        BY <1>6, <3>1, RunningJob DEF Restart
      <4> QED  BY <4>1 DEF OnlyImagesAreProcessed, JobRecord
    <3>2. CASE ~(job[q].state = "running" /\ job[q].node = n)
      BY <1>6, <2>1, <3>2 DEF Restart, OnlyImagesAreProcessed
    <3> QED  BY <3>1, <3>2
  <2> QED  BY <2>1 DEF OnlyImagesAreProcessed
<1>7. CASE UNCHANGED apiVars
  BY <1>1, <1>7 DEF apiVars, effects
<1>8. ASSUME NEW r \in Requests, RefuseBody(r) \/ Correlate(r) \/ Disconnect(r)
      PROVE  OnlyImagesAreProcessed'
  BY <1>1, <1>8 DEF RefuseBody, Correlate, Disconnect, effects
<1>9. ASSUME NEW r \in Requests, Serve(r) PROVE OnlyImagesAreProcessed'
  <2>1. CASE RefuseKey(r) \/ RefuseRole(r) \/ Admit(r) \/ RefuseNothing(r) \/ Reads(r)
    BY <1>1, <2>1 DEF RefuseKey, RefuseRole, Admit, RefuseNothing, Reads, ReadViews, ReadCache, ServeFile, effects
  <2>2. CASE StoreUpload(r) \/ RefuseImage(r) \/ DeleteJobs(r) \/ ShowLogs(r) \/ Finish(r)
    BY <1>1, <2>2 DEF StoreUpload, RefuseImage, DeleteJobs, ShowLogs, Finish
  <2> QED  BY <1>3, <1>9, <2>1, <2>2 DEF Serve, Timely, Untimed, Reads
<1> QED  BY <1>4, <1>5, <1>6, <1>7, <1>8, <1>9 DEF ApiNext, Serve

\* validatePathSafety and validateImageMagicBytes in front of the queue: no job is
\* for a file that is no image, and none for a name that leads out of uploads/,
\* whatever names the bodies carry.
THEOREM ImagesTheorem == ApiSpec => []OnlyImagesAreProcessed
<1>1. ApiInit => OnlyImagesAreProcessed
  BY DEF ApiInit, OnlyImagesAreProcessed
<1>2. IInv /\ OnlyImagesAreProcessed /\ [ApiNext]_apiVars => OnlyImagesAreProcessed'
  BY ImagesKeep
<1> QED  BY <1>1, <1>2, Invariance, PTL DEF ApiSpec

-----------------------------------------------------------------------------
(* What GET /logs searches                                                 *)

Recent(lines) == SubSeq(lines, FirstKept(lines), Len(lines))

\* What an administrator was shown is the search's result for the newest lines
\* of the node at the moment of the search.
NewestAreSearched ==
    \A r \in Requests :
        LET q == query[r]
        IN  q # NoQuery => /\ q.all \in Seq(Line)
                           /\ q.shown = Search(Recent(q.all), q.id, q.level, q.limit)

LEMMA RecentLines ==
    ASSUME NEW lines \in Seq(Line)
    PROVE  LET kept == Len(lines) + 1 - FirstKept(lines)
           IN  /\ Recent(lines) \in Seq(Line)
               /\ FirstKept(lines) \in 1..(Len(lines) + 1)
               /\ Len(Recent(lines)) = kept
               /\ kept = IF Len(lines) > Capacity THEN Capacity ELSE Len(lines)
               /\ \A k \in 1..kept : Recent(lines)[k] = lines[FirstKept(lines) + k - 1]
<1>1. Len(lines) \in Nat /\ Capacity \in Nat \ {0}
  BY ApiAssumption
<1>2. /\ FirstKept(lines) \in 1..(Len(lines) + 1)
      /\ Len(lines) + 1 - FirstKept(lines) = IF Len(lines) > Capacity THEN Capacity ELSE Len(lines)
  BY <1>1 DEF FirstKept
<1>3. \A k \in FirstKept(lines)..Len(lines) : lines[k] \in Line
  BY <1>1, <1>2
<1> DEFINE m == FirstKept(lines)
           n == Len(lines)
<1>4. m \in Int /\ n \in Int /\ m <= n + 1 /\ \A k \in m..n : lines[k] \in Line
  BY <1>1, <1>2, <1>3
<1>5. /\ SubSeq(lines, m, n) \in Seq(Line)
      /\ Len(SubSeq(lines, m, n)) = IF m <= n THEN n - m + 1 ELSE 0
      /\ \A k \in 1..(n - m + 1) : SubSeq(lines, m, n)[k] = lines[m + k - 1]
  <2> HIDE DEF m, n
  <2> QED  BY <1>4, SubSeqProperties
<1>6. n - m + 1 = n + 1 - m /\ (IF m <= n THEN n - m + 1 ELSE 0) = n + 1 - m
  <2> HIDE DEF m, n
  <2> QED  BY <1>4
<1> QED  BY <1>2, <1>5, <1>6 DEF Recent

LEMMA NothingIsRecent == Recent(<<>>) = <<>>
<1>1. Len(<<>>) = 0 /\ FirstKept(<<>>) = 1
  BY ApiAssumption DEF FirstKept
<1> QED  BY <1>1, SubSeqEmpty DEF Recent

\* The buffer that drops its oldest line and takes a new one is what is recent
\* of the lines with the new one.
LEMMA PushedIsRecent ==
    ASSUME NEW lines \in Seq(Line), NEW line \in Line
    PROVE  Push(Recent(lines), line) = Recent(Append(lines, line))
<1> DEFINE now    == Append(lines, line)
           buffer == Recent(lines)
           pushed == Push(buffer, line)
           first  == FirstKept(lines)
<1>1. /\ Len(lines) \in Nat /\ Capacity \in Nat \ {0}
      /\ now \in Seq(Line) /\ Len(now) = Len(lines) + 1
      /\ \A k \in 1..Len(lines) : now[k] = lines[k]
      /\ now[Len(lines) + 1] = line
  BY ApiAssumption, AppendProperties
<1>2. /\ buffer \in Seq(Line) /\ first \in 1..(Len(lines) + 1)
      /\ Len(buffer) = Len(lines) + 1 - first
      /\ Len(buffer) = IF Len(lines) > Capacity THEN Capacity ELSE Len(lines)
      /\ \A k \in 1..Len(buffer) : buffer[k] = lines[first + k - 1]
  BY RecentLines
<1>3. CASE Len(lines) < Capacity
  <2>1. first = 1 /\ FirstKept(now) = 1
    BY <1>1, <1>3 DEF FirstKept
  <2>2. buffer = lines /\ Recent(now) = now
    <3> HIDE DEF now
    <3> QED  BY <1>1, <2>1, SubSeqFull DEF Recent
  <2>3. pushed = now
    BY <1>1, <1>3, <2>2 DEF Push
  <2> QED  BY <2>2, <2>3
<1>4. CASE Len(lines) >= Capacity
  <2>1. Len(buffer) = Capacity /\ buffer # <<>> /\ FirstKept(now) = first + 1
        /\ first + Capacity = Len(lines) + 1
    <3>1. Len(buffer) = Capacity
      BY <1>1, <1>2, <1>4
    <3>2. buffer # <<>>
      BY <1>1, <1>2, <3>1, EmptySeq
    <3>3. FirstKept(now) = first + 1
      <4>1. FirstKept(now) = Len(lines) + 2 - Capacity
        <5> HIDE DEF now
        <5> QED  BY <1>1, <1>4 DEF FirstKept
      <4> QED  BY <1>1, <1>2, <3>1, <4>1
    <3> QED  BY <1>1, <1>2, <3>1, <3>2, <3>3
  <2> DEFINE tail == Tail(buffer)
  <2>2. /\ tail \in Seq(Line) /\ Len(tail) = Capacity - 1
        /\ \A k \in 1..(Capacity - 1) : tail[k] = buffer[k + 1]
    <3> HIDE DEF buffer
    <3> QED  BY <1>2, <2>1, HeadTailProperties
  <2>3. pushed = Append(tail, line)
    BY <1>1, <2>1 DEF Push
  <2>4. /\ pushed \in Seq(Line) /\ Len(pushed) = Capacity
        /\ \A k \in 1..(Capacity - 1) : pushed[k] = tail[k]
        /\ pushed[Capacity] = line
    <3> HIDE DEF tail, pushed
    <3> QED  BY <1>1, <2>2, <2>3, AppendProperties
  <2>5. /\ Recent(now) \in Seq(Line) /\ Len(Recent(now)) = Capacity
        /\ \A k \in 1..Capacity : Recent(now)[k] = now[first + k]
    <3>1. /\ Recent(now) \in Seq(Line)
          /\ Len(Recent(now)) = Len(now) + 1 - FirstKept(now)
          /\ \A k \in 1..(Len(now) + 1 - FirstKept(now)) : Recent(now)[k] = now[FirstKept(now) + k - 1]
      <4> HIDE DEF now
      <4> QED  BY <1>1, RecentLines
    <3>2. Len(now) + 1 - FirstKept(now) = Capacity
      <4> HIDE DEF now, first
      <4> QED  BY <1>1, <1>2, <2>1
    <3>3. \A k \in 1..Capacity : FirstKept(now) + k - 1 = first + k
      <4> HIDE DEF now, first
      <4> QED  BY <1>1, <1>2, <2>1
    <3> HIDE DEF now, first
    <3> QED  BY <3>1, <3>2, <3>3
  <2>6. ASSUME NEW k \in 1..Capacity PROVE pushed[k] = Recent(now)[k]
    <3> HIDE DEF now, buffer, pushed, first, tail
    <3>1. CASE k = Capacity
      <4>1. first + k = Len(lines) + 1
        BY <1>1, <1>2, <2>1, <3>1
      <4> QED  BY <1>1, <2>4, <2>5, <3>1, <4>1
    <3>2. CASE k # Capacity
      <4>1. k \in 1..(Capacity - 1) /\ k + 1 \in 1..Len(buffer) /\ first + k \in 1..Len(lines)
            /\ first + (k + 1) - 1 = first + k
        BY <1>1, <1>2, <2>1, <3>2
      <4>2. pushed[k] = buffer[k + 1] /\ buffer[k + 1] = lines[first + k]
        BY <1>2, <2>2, <2>4, <4>1
      <4>3. Recent(now)[k] = lines[first + k]
        BY <1>1, <2>5, <4>1
      <4> QED  BY <4>2, <4>3
    <3> QED  BY <3>1, <3>2
  <2> HIDE DEF now, buffer, pushed
  <2> QED  BY <2>4, <2>5, <2>6, SeqEqual DEF now, buffer, pushed
<1> QED  BY <1>1, <1>3, <1>4

\* One line of one node, or of none.
LEMMA LogKeepsRing ==
    ASSUME emitted \in [Nodes -> Seq(Line)], RingHoldsTheNewest,
           NEW n, NEW line \in Line, Log(n, line)
    PROVE  RingHoldsTheNewest'
<1>1. /\ ring = [m \in Nodes |-> Recent(emitted[m])]
      /\ ring' = [ring EXCEPT ![n] = Push(@, line)]
      /\ emitted' = [emitted EXCEPT ![n] = Append(@, line)]
  BY DEF RingHoldsTheNewest, Log, Recent
<1>2. ASSUME NEW m \in Nodes PROVE ring'[m] = Recent(emitted'[m])
  <2>1. CASE m = n
    <3>1. ring'[m] = Push(Recent(emitted[m]), line) /\ emitted'[m] = Append(emitted[m], line)
      BY <1>1, <2>1
    <3>2. emitted[m] \in Seq(Line)
      OBVIOUS
    <3> QED  BY <3>1, <3>2, PushedIsRecent
  <2>2. CASE m # n
    BY <1>1, <2>2
  <2> QED  BY <2>1, <2>2
<1>3. ring' = [m \in Nodes |-> ring'[m]]
  BY <1>1
<1>4. ring' = [m \in Nodes |-> Recent(emitted'[m])]
  BY <1>2, <1>3
<1> QED  BY <1>4 DEF RingHoldsTheNewest, Recent

LEMMA CorrelateKeepsRing ==
    ASSUME IInv, RingHoldsTheNewest, NEW r \in Requests, Correlate(r)
    PROVE  RingHoldsTheNewest'
<1>1. PICK c \in Calls[r] :
         LET i == sanitizeCorrelationId(r, c.header)
             warning == LineOf(r, "absent", "warn")
             incoming == LineOf(r, i, "info")
             n == NodeOf[r]
         IN  \/ /\ ring' = [ring EXCEPT ![n] = Push(Push(@, warning), incoming)]
                /\ emitted' = [emitted EXCEPT ![n] = @ \o <<warning, incoming>>]
             \/ Log(n, incoming)
  BY Zenon DEF Correlate
<1> DEFINE i == sanitizeCorrelationId(r, c.header)
           n == NodeOf[r]
           warning == LineOf(r, "absent", "warn")
           incoming == LineOf(r, i, "info")
<1>2. i \in Ids
  BY SanitizedId
<1>3. /\ emitted \in [Nodes -> Seq(Line)] /\ n \in Nodes
      /\ ring = [m \in Nodes |-> Recent(emitted[m])]
      /\ warning \in Line /\ incoming \in Line
  <2>1. warning \in Line /\ incoming \in Line
    <3> HIDE DEF i
    <3> QED  BY <1>2 DEF Line, LineOf, Ids
  <2>2. emitted \in [Nodes -> Seq(Line)]
    BY DEF IInv, Lines, LinesAre
  <2>3. ring = [m \in Nodes |-> Recent(emitted[m])]
    BY DEF RingHoldsTheNewest, Recent
  <2> QED  BY <2>1, <2>2, <2>3, ApiAssumption
<1>4. CASE Log(n, incoming)
  <2> HIDE DEF n, incoming
  <2> QED  BY <1>3, <1>4, LogKeepsRing
<1>5. CASE /\ ring' = [ring EXCEPT ![n] = Push(Push(@, warning), incoming)]
           /\ emitted' = [emitted EXCEPT ![n] = @ \o <<warning, incoming>>]
  <2> HIDE DEF i, n, warning, incoming
  <2>1. emitted[n] \in Seq(Line) /\ Append(emitted[n], warning) \in Seq(Line)
    BY <1>3, AppendProperties
  <2>2. emitted[n] \o <<warning, incoming>> = Append(Append(emitted[n], warning), incoming)
    BY <1>3, <2>1
  <2>3. Push(Push(Recent(emitted[n]), warning), incoming)
           = Recent(Append(Append(emitted[n], warning), incoming))
    <3>1. Push(Recent(emitted[n]), warning) = Recent(Append(emitted[n], warning))
      BY <1>3, <2>1, PushedIsRecent
    <3>2. Push(Recent(Append(emitted[n], warning)), incoming)
             = Recent(Append(Append(emitted[n], warning), incoming))
      BY <1>3, <2>1, PushedIsRecent
    <3> QED  BY <3>1, <3>2
  <2>4. ASSUME NEW m \in Nodes PROVE ring'[m] = Recent(emitted'[m])
    <3>1. CASE m = n
      BY <1>3, <1>5, <2>2, <2>3, <3>1
    <3>2. CASE m # n
      BY <1>3, <1>5, <3>2
    <3> QED  BY <3>1, <3>2
  <2>5. ring' = [m \in Nodes |-> ring'[m]]
    BY <1>3, <1>5
  <2>6. ring' = [m \in Nodes |-> Recent(emitted'[m])]
    BY <2>4, <2>5
  <2> QED  BY <2>6 DEF RingHoldsTheNewest, Recent
<1> QED  BY <1>1, <1>4, <1>5

LEMMA RestartKeepsRing ==
    ASSUME IInv, RingHoldsTheNewest, NEW n \in Nodes, Restart(n)
    PROVE  RingHoldsTheNewest'
<1>1. /\ emitted \in [Nodes -> Seq(Line)]
      /\ ring = [m \in Nodes |-> Recent(emitted[m])]
      /\ ring' = [ring EXCEPT ![n] = <<>>] /\ emitted' = [emitted EXCEPT ![n] = <<>>]
  BY DEF RingHoldsTheNewest, Recent, Restart, IInv, Lines, LinesAre
<1>2. Recent(<<>>) = <<>>
  BY NothingIsRecent
<1>3. ASSUME NEW m \in Nodes PROVE ring'[m] = Recent(emitted'[m])
  BY <1>1, <1>2
<1>4. ring' = [m \in Nodes |-> ring'[m]]
  BY <1>1
<1>5. ring' = [m \in Nodes |-> Recent(emitted'[m])]
  BY <1>3, <1>4
<1> QED  BY <1>5 DEF RingHoldsTheNewest, Recent

LEMMA RingKeeps ==
    ASSUME IInv, RingHoldsTheNewest, [ApiNext]_apiVars
    PROVE  RingHoldsTheNewest'
<1>0. emitted \in [Nodes -> Seq(Line)]
  BY DEF IInv, Lines, LinesAre
<1>1. CASE UNCHANGED tracks
  BY <1>1 DEF tracks, RingHoldsTheNewest
<1>2. ASSUME NEW r \in Requests, NEW n, NEW level \in {"info", "warn", "error"},
             NEW i \in Ids, Log(n, LineOf(r, i, level))
      PROVE  RingHoldsTheNewest'
  <2>1. LineOf(r, i, level) \in Line
    BY DEF LineOf, Line
  <2> QED  BY <1>0, <1>2, <2>1, LogKeepsRing
<1>3. CASE UNCHANGED apiVars
  BY <1>1, <1>3 DEF apiVars
<1>4. ASSUME NEW r \in Requests, NEW n \in Nodes, ClaimJob(r, n) PROVE RingHoldsTheNewest'
  <2>1. job[r].id \in Ids /\ Log(n, LineOf(r, job[r].id, "info"))
    BY <1>4, RunningJob DEF ClaimJob
  <2>2. LineOf(r, job[r].id, "info") \in Line
    BY <2>1 DEF LineOf, Line
  <2> QED  BY <1>0, <2>1, <2>2, LogKeepsRing
<1>5. ASSUME NEW r \in Requests, EndRun(r) PROVE RingHoldsTheNewest'
  <2>1. job[r].id \in Ids
    BY <1>5, RunningJob DEF EndRun
  <2>2. \A level \in {"info", "warn", "error"} : LineOf(r, job[r].id, level) \in Line
    BY <2>1 DEF LineOf, Line
  <2>3. UNCHANGED tracks \/ \E level \in {"info", "warn", "error"} :
                               Log(job[r].node, LineOf(r, job[r].id, level))
    BY <1>5 DEF EndRun
  <2> QED  BY <1>0, <1>1, <2>2, <2>3, LogKeepsRing
<1>6. ASSUME NEW r \in Requests, RefuseBody(r) \/ Disconnect(r) PROVE RingHoldsTheNewest'
  BY <1>1, <1>6 DEF RefuseBody, Disconnect
<1>7. ASSUME NEW r \in Requests, Serve(r) PROVE RingHoldsTheNewest'
  <2>0. id[r] \in Ids /\ LevelOf(status[r]) \in {"info", "warn", "error"}
    BY LevelIsOne DEF IInv, Shapes
  <2>1. CASE RefuseKey(r) \/ RefuseRole(r)
    <3>1. LineOf(r, id[r], "warn") \in Line /\ Log(NodeOf[r], LineOf(r, id[r], "warn"))
      BY <2>0, <2>1 DEF RefuseKey, RefuseRole, LineOf, Line
    <3> QED  BY <1>0, <3>1, LogKeepsRing
  <2>2. CASE Finish(r)
    <3>1. LineOf(r, id[r], LevelOf(status[r])) \in Line
      BY <2>0 DEF LineOf, Line
    <3>2. UNCHANGED tracks \/ Log(NodeOf[r], LineOf(r, id[r], LevelOf(status[r])))
      BY <2>2 DEF Finish
    <3> QED  BY <1>0, <1>1, <3>1, <3>2, LogKeepsRing
  <2>3. CASE Admit(r) \/ StoreUpload(r) \/ RefuseImage(r) \/ RefuseNothing(r) \/ CreateJob(r)
    BY <1>1, <2>3 DEF Admit, StoreUpload, RefuseImage, RefuseNothing, CreateJob, Enqueue
  <2>4. CASE DeleteJobs(r) \/ Reads(r) \/ ShowLogs(r)
    BY <1>1, <2>4 DEF DeleteJobs, Reads, ReadViews, ReadCache, ServeFile, ShowLogs
  <2> QED  BY <1>7, <2>1, <2>2, <2>3, <2>4 DEF Serve, Timely, Untimed, Reads
<1> QED  BY <1>3, <1>4, <1>5, <1>6, <1>7, CorrelateKeepsRing, RestartKeepsRing DEF ApiNext, Serve

\* memoryStream in logger.ts: the bounded buffer never loses a line out of turn.
THEOREM RingTheorem == ApiSpec => []RingHoldsTheNewest
<1>1. ApiInit => RingHoldsTheNewest
  BY NothingIsRecent DEF ApiInit, RingHoldsTheNewest, Recent
<1>2. IInv /\ RingHoldsTheNewest /\ [ApiNext]_apiVars => RingHoldsTheNewest'
  BY RingKeeps
<1> QED  BY <1>1, <1>2, Invariance, PTL DEF ApiSpec

LEMMA SearchesKeep ==
    ASSUME IInv, RingHoldsTheNewest, NewestAreSearched, [ApiNext]_apiVars
    PROVE  NewestAreSearched'
<1>1. CASE query' = query
  BY <1>1 DEF NewestAreSearched
<1>2. ASSUME NEW r \in Requests, ShowLogs(r) PROVE NewestAreSearched'
  <2>1. PICK i \in {id[o] : o \in Requests} \cup {"absent"}, s \in Searches :
           query' = [query EXCEPT ![r] =
              [id |-> i, level |-> s.level, limit |-> s.limit,
               shown |-> Search(ring[NodeOf[r]], i, s.level, s.limit), all |-> emitted[NodeOf[r]]]]
    BY <1>2, Zenon DEF ShowLogs
  <2>2. NodeOf[r] \in Nodes /\ emitted[NodeOf[r]] \in Seq(Line)
        /\ ring[NodeOf[r]] = Recent(emitted[NodeOf[r]])
    BY ApiAssumption DEF IInv, Lines, LinesAre, RingHoldsTheNewest, Recent
  <2>3. /\ query'[r].all = emitted[NodeOf[r]]
        /\ query'[r].shown = Search(Recent(query'[r].all), query'[r].id, query'[r].level, query'[r].limit)
        /\ \A q \in Requests \ {r} : query'[q] = query[q]
    BY <2>1, <2>2 DEF IInv, Shapes
  <2> QED  BY <2>2, <2>3 DEF NewestAreSearched
<1>3. ASSUME NEW r \in Requests, Finish(r) PROVE NewestAreSearched'
  <2>1. query'[r] = NoQuery /\ \A q \in Requests \ {r} : query'[q] = query[q]
    BY <1>3 DEF Finish, IInv, Shapes
  <2> QED  BY <2>1 DEF NewestAreSearched
<1>4. CASE UNCHANGED apiVars
  BY <1>1, <1>4 DEF apiVars, effects
<1>5. ASSUME NEW r \in Requests, RefuseBody(r) \/ Correlate(r) \/ Disconnect(r) \/ EndRun(r)
      PROVE  NewestAreSearched'
  BY <1>1, <1>5 DEF RefuseBody, Correlate, Disconnect, EndRun, effects
<1>6. ASSUME NEW r \in Requests, NEW n \in Nodes, ClaimJob(r, n) PROVE NewestAreSearched'
  BY <1>1, <1>6 DEF ClaimJob
<1>7. ASSUME NEW n \in Nodes, Restart(n) PROVE NewestAreSearched'
  BY <1>1, <1>7 DEF Restart
<1>8. ASSUME NEW r \in Requests, Serve(r) PROVE NewestAreSearched'
  <2>1. CASE RefuseKey(r) \/ RefuseRole(r) \/ Admit(r) \/ RefuseNothing(r) \/ Reads(r)
    BY <1>1, <2>1 DEF RefuseKey, RefuseRole, Admit, RefuseNothing, Reads, ReadViews, ReadCache, ServeFile, effects
  <2>2. CASE StoreUpload(r) \/ RefuseImage(r) \/ DeleteJobs(r)
    BY <1>1, <2>2 DEF StoreUpload, RefuseImage, DeleteJobs
  <2>3. CASE CreateJob(r)
    BY <1>1, <2>3 DEF CreateJob, Enqueue, effects
  <2> QED  BY <1>2, <1>3, <1>8, <2>1, <2>2, <2>3 DEF Serve, Timely, Untimed, Reads
<1> QED  BY <1>4, <1>5, <1>6, <1>7, <1>8 DEF ApiNext, Serve

\* What getLogsStream shows is the result of its filter and of its limit for the
\* last Capacity lines of the node, whatever is logged before it is sent.
THEOREM SearchTheorem == ApiSpec => []NewestAreSearched
<1>1. ApiInit => NewestAreSearched
  BY DEF ApiInit, NewestAreSearched
<1>2. IInv /\ RingHoldsTheNewest /\ NewestAreSearched /\ [ApiNext]_apiVars => NewestAreSearched'
  BY SearchesKeep
<1> QED  BY <1>1, <1>2, Invariance, RingTheorem, PTL DEF ApiSpec


-----------------------------------------------------------------------------
(* What the filter keeps                                                   *)

\* Induction over a set of natural numbers: the least number outside it would
\* be 0 or follow a number inside.
LEMMA InductiveSet ==
    ASSUME NEW S, NEW m \in Nat, 0 \in S, \A n \in Nat : n < m /\ n \in S => n + 1 \in S
    PROVE  \A n \in 0..m : n \in S
<1> DEFINE T == {n \in 0..m : n \notin S}
<1> SUFFICES ASSUME T # {} PROVE FALSE
    OBVIOUS
<1>1. T \subseteq Nat
  OBVIOUS
<1>2. \E n \in T : \A k \in T : ~(<<k, n>> \in OpToRel(<, Nat))
  <2> HIDE DEF T
  <2> QED  BY <1>1, NatLessThanWellFounded, WFMin, Zenon
<1>3. PICK n \in T : \A k \in T : ~(k < n)
  <2>1. \A k, n \in Nat : k < n => <<k, n>> \in OpToRel(<, Nat)
    BY DEF OpToRel
  <2> QED  BY <1>1, <1>2, <2>1
<1>4. n # 0 /\ n - 1 \in Nat /\ n - 1 < m /\ n - 1 \notin T /\ n - 1 \in 0..m
  BY <1>3
<1>5. n - 1 \in S
  BY <1>4
<1> QED  BY <1>3, <1>4, <1>5

\* kept is the function of the lines that Matching has kept up to a position.
Keeps(lines, i, level, kept, m) ==
    kept = [n \in 0..m |-> IF n = 0 THEN <<>>
                           ELSE IF Fits(lines[n], i, level) THEN Append(kept[n - 1], lines[n])
                           ELSE kept[n - 1]]

\* The recursion that Matching is defined by has a solution, for any number of
\* lines, and Matching is its last value.
LEMMA MatchingIsKept ==
    ASSUME NEW lines \in Seq(Line), NEW i, NEW level
    PROVE  \E kept : Keeps(lines, i, level, kept, Len(lines))
                        /\ Matching(lines, i, level) = kept[Len(lines)]
<1> DEFINE S == {m \in Nat : \E kept : Keeps(lines, i, level, kept, m)}
<1>1. 0 \in S
  <2>1. Keeps(lines, i, level, [n \in 0..0 |-> <<>>], 0)
    BY DEF Keeps
  <2> QED  BY <2>1
<1>2. ASSUME NEW m \in Nat, m \in S PROVE m + 1 \in S
  <2>1. PICK kept : Keeps(lines, i, level, kept, m)
    BY <1>2
  <2> DEFINE next == IF Fits(lines[m + 1], i, level) THEN Append(kept[m], lines[m + 1]) ELSE kept[m]
             more == [n \in 0..(m + 1) |-> IF n = m + 1 THEN next ELSE kept[n]]
  <2>2. \A n \in 0..m : kept[n] = IF n = 0 THEN <<>>
                                  ELSE IF Fits(lines[n], i, level) THEN Append(kept[n - 1], lines[n])
                                  ELSE kept[n - 1]
    BY <2>1 DEF Keeps
  <2>3. ASSUME NEW n \in 0..(m + 1)
        PROVE  more[n] = IF n = 0 THEN <<>>
                         ELSE IF Fits(lines[n], i, level) THEN Append(more[n - 1], lines[n])
                         ELSE more[n - 1]
    <3>1. CASE n = m + 1
      BY <3>1
    <3>2. CASE n # m + 1
      <4>1. n \in 0..m /\ (n # 0 => n - 1 \in 0..m /\ n - 1 # m + 1)
        BY <3>2
      <4> QED  BY <2>2, <3>2, <4>1
    <3> QED  BY <3>1, <3>2
  <2>4. Keeps(lines, i, level, more, m + 1)
    BY <2>3 DEF Keeps
  <2> QED  BY <2>4
<1>3. Len(lines) \in S
  <2>1. Len(lines) \in Nat /\ \A n \in Nat : n < Len(lines) /\ n \in S => n + 1 \in S
    BY <1>2
  <2> HIDE DEF S
  <2>2. \A n \in 0..Len(lines) : n \in S
    BY <1>1, <2>1, InductiveSet, Zenon
  <2> QED  BY <2>1, <2>2
<1> DEFINE kept == CHOOSE f : Keeps(lines, i, level, f, Len(lines))
<1>4. Keeps(lines, i, level, kept, Len(lines))
  BY <1>3
<1>5. Matching(lines, i, level) = kept[Len(lines)]
  BY Zenon DEF Matching, Keeps
<1> QED  BY <1>4, <1>5

\* The positions of the fitting lines among the n that follow position o.
Hits(lines, i, level, o, n) == {k \in (o + 1)..(o + n) : Fits(lines[k], i, level)}

\* Counting the hits: there is none at first, and one more line is a hit more or
\* none.
LEMMA HitsAreFinite ==
    ASSUME NEW lines, NEW i, NEW level, NEW o \in Nat, NEW n \in Nat
    PROVE  /\ IsFiniteSet(Hits(lines, i, level, o, n))
           /\ Cardinality(Hits(lines, i, level, o, n)) \in Nat
           /\ Hits(lines, i, level, o, 0) = {}
<1> DEFINE now == Hits(lines, i, level, o, n)
<1>1. IsFiniteSet((o + 1)..(o + n))
  BY FS_Interval
<1>2. now \in SUBSET ((o + 1)..(o + n)) /\ Hits(lines, i, level, o, 0) = {}
  BY DEF Hits
<1> QED  BY <1>1, <1>2, FS_Subset, FS_CardinalityType

OneMoreLine(lines, i, level, o, n) ==
    LET now  == Hits(lines, i, level, o, n)
        next == Hits(lines, i, level, o, n + 1)
    IN  IF Fits(lines[o + n + 1], i, level)
        THEN next = now \cup {o + n + 1} /\ Cardinality(next) = Cardinality(now) + 1
        ELSE next = now

LEMMA HitsAreCounted ==
    ASSUME NEW lines, NEW i, NEW level, NEW o \in Nat, NEW n \in Nat
    PROVE  OneMoreLine(lines, i, level, o, n)
<1> DEFINE now == Hits(lines, i, level, o, n)
           k == o + n + 1
<1>1. (o + 1)..(o + (n + 1)) = ((o + 1)..(o + n)) \cup {k} /\ k \notin (o + 1)..(o + n)
  OBVIOUS
<1>2. /\ Fits(lines[k], i, level) => Hits(lines, i, level, o, n + 1) = now \cup {k}
      /\ ~Fits(lines[k], i, level) => Hits(lines, i, level, o, n + 1) = now
  <2> HIDE DEF k
  <2> QED  BY <1>1, Zenon DEF Hits
<1>3. Cardinality(now \cup {k}) = Cardinality(now) + 1
  <2>1. IsFiniteSet(now) /\ k \notin now
    BY <1>1, HitsAreFinite DEF Hits
  <2> HIDE DEF now, k
  <2> QED  BY <2>1, FS_AddElement
<1> QED  BY <1>2, <1>3 DEF OneMoreLine

LEMMA HitsGrow ==
    ASSUME NEW lines, NEW i, NEW level, NEW o \in Nat, NEW m \in Nat,
           NEW k \in Hits(lines, i, level, o, m)
    PROVE  /\ k - o \in 1..m
           /\ k \in Hits(lines, i, level, o, k - o)
           /\ Hits(lines, i, level, o, k - o) \subseteq Hits(lines, i, level, o, m)
           /\ Cardinality(Hits(lines, i, level, o, k - o)) \in 1..Cardinality(Hits(lines, i, level, o, m))
<1> DEFINE all == Hits(lines, i, level, o, m)
           upto == Hits(lines, i, level, o, k - o)
<1>1. k - o \in 1..m /\ k \in upto /\ upto \subseteq all
  BY DEF Hits
<1>2. IsFiniteSet(all) /\ IsFiniteSet(upto) /\ Cardinality(all) \in Nat /\ Cardinality(upto) \in Nat
  <2>1. k - o \in Nat
    BY <1>1
  <2> QED  BY <2>1, HitsAreFinite
<1>3. Cardinality(upto) <= Cardinality(all) /\ Cardinality(upto) # 0
  <2> HIDE DEF all, upto
  <2> QED  BY <1>1, <1>2, FS_Subset, FS_EmptySet
<1> QED  BY <1>1, <1>2, <1>3

\* The filter keeps as many lines as fit, each of them at the place that the
\* number of hits up to it gives it.
LEMMA MatchingFindsTheHits ==
    ASSUME NEW lines \in Seq(Line), NEW from, NEW o \in Nat, NEW i, NEW level,
           \A k \in 1..Len(lines) : lines[k] = from[o + k]
    PROVE  /\ Matching(lines, i, level) \in Seq(Line)
           /\ Len(Matching(lines, i, level)) = Cardinality(Hits(from, i, level, o, Len(lines)))
           /\ \A k \in Hits(from, i, level, o, Len(lines)) :
                 Matching(lines, i, level)[Cardinality(Hits(from, i, level, o, k - o))] = from[k]
<1> DEFINE H(n) == Hits(from, i, level, o, n)
           C(n) == Cardinality(H(n))
<1>1. PICK kept : Keeps(lines, i, level, kept, Len(lines))
                     /\ Matching(lines, i, level) = kept[Len(lines)]
  BY MatchingIsKept
<1>2. Len(lines) \in Nat /\ \A n \in 1..Len(lines) : lines[n] \in Line
  BY ElementOfSeq
<1>3. /\ kept[0] = <<>>
      /\ \A n \in 1..Len(lines) :
            kept[n] = IF Fits(lines[n], i, level) THEN Append(kept[n - 1], lines[n]) ELSE kept[n - 1]
  <2>1. \A n \in 0..Len(lines) :
           kept[n] = IF n = 0 THEN <<>>
                     ELSE IF Fits(lines[n], i, level) THEN Append(kept[n - 1], lines[n])
                     ELSE kept[n - 1]
    BY <1>1 DEF Keeps
  <2> QED  BY <1>2, <2>1
<1> DEFINE S == {n \in Nat : /\ kept[n] \in Seq(Line)
                             /\ Len(kept[n]) = C(n)
                             /\ \A k \in H(n) : kept[n][C(k - o)] = from[k]}
<1>4. 0 \in S
  <2>1. H(0) = {} /\ C(0) = 0
    BY HitsAreFinite, FS_EmptySet
  <2>2. kept[0] \in Seq(Line) /\ Len(kept[0]) = 0
    BY <1>3
  <2> HIDE DEF H
  <2> QED  BY <2>1, <2>2
<1>5. ASSUME NEW n \in Nat, n < Len(lines), n \in S PROVE n + 1 \in S
  <2>1. /\ kept[n] \in Seq(Line) /\ Len(kept[n]) = C(n)
        /\ \A k \in H(n) : kept[n][C(k - o)] = from[k]
    BY <1>5
  <2>2. n + 1 \in 1..Len(lines) /\ lines[n + 1] = from[o + n + 1] /\ lines[n + 1] \in Line
    <3>1. n + 1 \in 1..Len(lines) /\ o + (n + 1) = o + n + 1
      BY <1>2, <1>5
    <3> QED  BY <1>2, <3>1
  <2>3. /\ C(n) \in Nat
        /\ Fits(lines[n + 1], i, level) => H(n + 1) = H(n) \cup {o + n + 1} /\ C(n + 1) = C(n) + 1
        /\ ~Fits(lines[n + 1], i, level) => H(n + 1) = H(n)
    <3>1. C(n) \in Nat
      BY HitsAreFinite
    <3>2. OneMoreLine(from, i, level, o, n)
      BY HitsAreCounted
    <3> QED  BY <2>2, <3>1, <3>2, Zenon DEF OneMoreLine
  <2>4. kept[n + 1] = IF Fits(lines[n + 1], i, level) THEN Append(kept[n], lines[n + 1]) ELSE kept[n]
    BY <1>3, <2>2
  <2>5. \A k \in H(n) : C(k - o) \in 1..C(n)
    BY HitsGrow
  <2>6. o + n + 1 - o = n + 1
    OBVIOUS
  <2> HIDE DEF H, C
  <2>7. CASE Fits(lines[n + 1], i, level)
    <3>1. /\ kept[n + 1] \in Seq(Line) /\ Len(kept[n + 1]) = C(n) + 1
          /\ \A k \in 1..C(n) : kept[n + 1][k] = kept[n][k]
          /\ kept[n + 1][C(n) + 1] = lines[n + 1]
      BY <2>1, <2>2, <2>3, <2>4, <2>7, AppendProperties
    <3>2. ASSUME NEW k \in H(n + 1) PROVE kept[n + 1][C(k - o)] = from[k]
      <4>1. CASE k \in H(n)
        BY <2>1, <2>5, <3>1, <4>1
      <4>2. CASE k = o + n + 1
        BY <2>2, <2>3, <2>6, <2>7, <3>1, <4>2
      <4> QED  BY <2>3, <2>7, <3>2, <4>1, <4>2
    <3>3. Len(kept[n + 1]) = C(n + 1)
      BY <2>3, <2>7, <3>1
    <3> QED  BY <3>1, <3>2, <3>3
  <2>8. CASE ~Fits(lines[n + 1], i, level)
    <3>1. kept[n + 1] = kept[n] /\ H(n + 1) = H(n) /\ C(n + 1) = C(n)
      BY <2>3, <2>4, <2>8 DEF C
    <3> QED  BY <2>1, <3>1
  <2> QED  BY <2>7, <2>8
<1>6. Len(lines) \in S
  <2> HIDE DEF S
  <2>1. \A n \in 0..Len(lines) : n \in S
    BY <1>2, <1>4, <1>5, InductiveSet, Zenon
  <2> QED  BY <1>2, <2>1
<1> QED  BY <1>1, <1>6

\* A later hit has a higher place.
LEMMA HitsAreInOrder ==
    ASSUME NEW lines, NEW i, NEW level, NEW o \in Nat, NEW m \in Nat,
           NEW k \in Hits(lines, i, level, o, m), NEW l \in Hits(lines, i, level, o, m), k < l
    PROVE  Cardinality(Hits(lines, i, level, o, k - o)) < Cardinality(Hits(lines, i, level, o, l - o))
<1> DEFINE uptok == Hits(lines, i, level, o, k - o)
           uptol == Hits(lines, i, level, o, l - o)
<1>1. uptok \subseteq uptol /\ l \in uptol /\ l \notin uptok
  BY DEF Hits
<1>2. k - o \in Nat /\ l - o \in Nat
  BY DEF Hits
<1>3. IsFiniteSet(uptol) /\ Cardinality(uptok) \in Nat /\ Cardinality(uptol) \in Nat
  BY <1>2, HitsAreFinite
<1> HIDE DEF uptok, uptol
<1>4. Cardinality(uptok) <= Cardinality(uptol) /\ (Cardinality(uptol) = Cardinality(uptok) => uptol = uptok)
  BY <1>1, <1>3, FS_Subset
<1> QED  BY <1>1, <1>3, <1>4 DEF uptok, uptol

\* As many hits come after a hit as there are places above its own.
LEMMA HitsAfterAHit ==
    ASSUME NEW lines, NEW i, NEW level, NEW o \in Nat, NEW m \in Nat,
           NEW k \in Hits(lines, i, level, o, m)
    PROVE  Cardinality({l \in Hits(lines, i, level, o, m) : l > k}) =
              Cardinality(Hits(lines, i, level, o, m)) - Cardinality(Hits(lines, i, level, o, k - o))
<1> DEFINE all  == Hits(lines, i, level, o, m)
           upto == Hits(lines, i, level, o, k - o)
<1>1. {l \in all : l > k} = all \ upto
  BY DEF Hits
<1>2. all \cap upto = upto
  BY HitsGrow
<1>3. IsFiniteSet(all)
  BY HitsAreFinite
<1>4. Cardinality(all \ upto) = Cardinality(all) - Cardinality(all \cap upto)
  <2> HIDE DEF all, upto
  <2> QED  BY <1>3, FS_Difference
<1> HIDE DEF all, upto
<1> QED  BY <1>1, <1>2, <1>4 DEF all, upto

\* The hits in the highest n places are n, if there are as many.
LEMMA HighestHits ==
    ASSUME NEW lines, NEW i, NEW level, NEW o \in Nat, NEW m \in Nat, NEW n \in Nat
    PROVE  LET count == Cardinality(Hits(lines, i, level, o, m))
               place(k) == Cardinality(Hits(lines, i, level, o, k - o))
           IN  Cardinality({k \in Hits(lines, i, level, o, m) : count - place(k) < n})
                  = IF n < count THEN n ELSE count
<1> DEFINE all == Hits(lines, i, level, o, m)
           count == Cardinality(all)
           place == [k \in all |-> Cardinality(Hits(lines, i, level, o, k - o))]
           lowest == IF n < count THEN count - n + 1 ELSE 1
           kept == {k \in all : count - place[k] < n}
           part == [k \in kept |-> place[k]]
<1>1. /\ IsFiniteSet(all) /\ count \in Nat /\ all \subseteq Int
      /\ place \in [all -> 1..count]
      /\ \A k, l \in all : k < l => place[k] < place[l]
  <2>1. IsFiniteSet(all) /\ count \in Nat
    BY HitsAreFinite
  <2>2. all \subseteq Int
    BY DEF Hits
  <2>3. ASSUME NEW k \in all PROVE place[k] \in 1..count
    BY HitsGrow
  <2>4. ASSUME NEW k \in all, NEW l \in all, k < l PROVE place[k] < place[l]
    BY <2>4, HitsAreInOrder
  <2> QED  BY <2>1, <2>2, <2>3, <2>4
<1> HIDE DEF all, place
<1>2. place \in Injection(all, 1..count)
  <2>1. \A k, l \in all : place[k] = place[l] => k = l
    BY <1>1
  <2> HIDE DEF count
  <2> QED  BY <1>1, <2>1, Fun_IsInj
<1>3. place \in Surjection(all, 1..count)
  <2>1. IsFiniteSet(1..count) /\ Cardinality(1..count) = count
    BY <1>1, FS_Interval
  <2> QED  BY <1>2, <2>1, FS_Injection
<1>4. part \in Bijection(kept, lowest..count)
  <2>1. \A k \in all : k \in kept <=> place[k] \in lowest..count
    BY <1>1
  <2>2. part \in [kept -> lowest..count]
    BY <2>1
  <2>3. \A k, l \in kept : part[k] = part[l] => k = l
    BY <1>1
  <2>4. ASSUME NEW p \in lowest..count PROVE \E k \in kept : part[k] = p
    <3>1. p \in 1..count
      BY <1>1
    <3>2. PICK k \in all : place[k] = p
      BY <1>3, <3>1 DEF Surjection
    <3>3. k \in kept
      BY <2>1, <3>2
    <3> QED  BY <3>2, <3>3
  <2> HIDE DEF part, kept, lowest, count
  <2> QED  BY <2>2, <2>3, <2>4, Fun_IsBij
<1>5. IsFiniteSet(kept)
  <2>1. kept \in SUBSET all
    OBVIOUS
  <2> HIDE DEF kept
  <2> QED  BY <1>1, <2>1, FS_Subset
<1>6. Cardinality(lowest..count) = Cardinality(kept)
  <2>1. ExistsBijection(kept, lowest..count)
    BY <1>4 DEF ExistsBijection
  <2> HIDE DEF kept, lowest, count
  <2> QED  BY <1>5, <2>1, FS_Bijection
<1>7. Cardinality(lowest..count) = IF n < count THEN n ELSE count
  <2>1. lowest \in Int /\ count \in Int
    BY <1>1
  <2>2. Cardinality(lowest..count) = IF lowest > count THEN 0 ELSE count - lowest + 1
    <3> HIDE DEF lowest, count
    <3> QED  BY <2>1, FS_Interval
  <2> HIDE DEF count
  <2> QED  BY <1>1, <2>2 DEF count
<1> QED  BY <1>6, <1>7 DEF place, all

-----------------------------------------------------------------------------
(* What is cut off from what the filter keeps                              *)

LEMMA LimitIsPositive ==
    ASSUME NEW limit \in Int
    PROVE  LimitOf(limit) \in Int /\ (limit >= 0 => LimitOf(limit) \in Nat \ {0})
BY ApiAssumption DEF LimitOf

\* slice(-n) for any n: lines, and for a natural number the last n of them.
LEMMA NewestLines ==
    ASSUME NEW lines \in Seq(Line), NEW n \in Int
    PROVE  LET count == IF n < Len(lines) THEN n ELSE Len(lines)
           IN  /\ Newest(lines, n) \in Seq(Line)
               /\ n >= 0 => /\ Len(Newest(lines, n)) = count
                            /\ \A k \in 1..count : Newest(lines, n)[k] = lines[Len(lines) - count + k]
<1> DEFINE end == Len(lines)
           count == IF n < end THEN n ELSE end
           first == end - count + 1
<1>1. end \in Nat /\ \A k \in 1..end : lines[k] \in Line
  BY ElementOfSeq
<1>2. ASSUME n < 0 PROVE Newest(lines, n) \in Seq(Line)
  <2> DEFINE start == 1 - n
  <2>1. start \in Int /\ end \in Int /\ \A k \in start..end : lines[k] \in Line
    BY <1>1, <1>2
  <2>2. SubSeq(lines, start, end) \in Seq(Line)
    <3> HIDE DEF start, end
    <3> QED  BY <2>1, SubSeqProperties, Zenon
  <2>3. Newest(lines, n) = SubSeq(lines, start, end)
    <3>1. ~(n >= 0)
      BY <1>2
    <3> QED  BY <3>1, Zenon DEF Newest
  <2> QED  BY <2>2, <2>3
<1>3. ASSUME n >= 0
      PROVE  /\ Newest(lines, n) \in Seq(Line)
             /\ Len(Newest(lines, n)) = count
             /\ \A k \in 1..count : Newest(lines, n)[k] = lines[end - count + k]
  <2>1. count \in Nat /\ first \in Int /\ first >= 1 /\ first <= end + 1 /\ end - first + 1 = count
    <3> HIDE DEF end
    <3> QED  BY <1>1, <1>3
  <2>2. \A k \in first..end : lines[k] \in Line
    BY <1>1, <2>1
  <2>3. Newest(lines, n) = SubSeq(lines, first, end)
    BY <1>3 DEF Newest
  <2>4. /\ SubSeq(lines, first, end) \in Seq(Line)
        /\ Len(SubSeq(lines, first, end)) = IF first <= end THEN end - first + 1 ELSE 0
        /\ \A k \in 1..(end - first + 1) : SubSeq(lines, first, end)[k] = lines[first + k - 1]
    <3>1. first \in Int /\ end \in Int
      BY <1>1, <2>1
    <3> HIDE DEF first, end
    <3> QED  BY <2>2, <3>1, SubSeqProperties
  <2>5. \A k \in 1..count : first + k - 1 = end - count + k
    <3> HIDE DEF end
    <3> QED  BY <1>1, <2>1
  <2> HIDE DEF end, count, first
  <2>6. Len(SubSeq(lines, first, end)) = count
    BY <1>1, <2>1, <2>4
  <2>7. \A k \in 1..count : SubSeq(lines, first, end)[k] = lines[end - count + k]
    BY <2>1, <2>4, <2>5
  <2> QED  BY <2>3, <2>4, <2>6, <2>7, Zenon
<1>4. Newest(lines, n) \in Seq(Line)
  <2>1. n < 0 \/ n >= 0
    OBVIOUS
  <2> QED  BY <1>2, <1>3, <2>1
<1> QED  BY <1>3, <1>4, Zenon

LEMMA SearchShowsLines ==
    ASSUME NEW lines \in Seq(Line), NEW i, NEW level, NEW limit \in Int
    PROVE  Search(lines, i, level, limit) \in Seq(Line)
<1>1. Matching(lines, i, level) \in Seq(Line)
  <2>1. 0 \in Nat /\ \A k \in 1..Len(lines) : lines[k] = lines[0 + k]
    OBVIOUS
  <2> QED  BY <2>1, MatchingFindsTheHits, Zenon
<1> QED  BY <1>1, LimitIsPositive, NewestLines DEF Search

\* What is shown of all lines is what TraceQueriesAreComplete asks for.
Complete(all, i, level, limit, shown) ==
    LET found   == {k \in FirstKept(all)..Len(all) :
                      /\ i # "absent" => all[k].id = i
                      /\ level # "absent" => all[k].level = level}
        rank(k) == Cardinality({m \in found : m > k})
        kept    == {k \in found : rank(k) < LimitOf(limit)}
    IN  /\ Len(shown) = Cardinality(kept)
        /\ \A k \in kept : shown[Len(shown) - rank(k)] = all[k]

\* The search in the newest lines finds the newest of the lines that fit, in
\* their order.
LEMMA SearchIsComplete ==
    ASSUME NEW all \in Seq(Line), NEW i, NEW level, NEW limit \in Nat
    PROVE  Complete(all, i, level, limit, Search(Recent(all), i, level, limit))
<1> DEFINE o       == FirstKept(all) - 1
           lines   == Recent(all)
           m       == Len(lines)
           matches == Matching(lines, i, level)
           found   == Hits(all, i, level, o, m)
           count   == Cardinality(found)
           place(k) == Cardinality(Hits(all, i, level, o, k - o))
           rank(k) == Cardinality({l \in found : l > k})
           n       == LimitOf(limit)
           kept    == {k \in found : rank(k) < n}
           shown   == Search(lines, i, level, limit)
           most    == IF n < count THEN n ELSE count
<1>1. /\ o \in Nat /\ lines \in Seq(Line) /\ m \in Nat /\ o + m = Len(all)
      /\ \A k \in 1..m : lines[k] = all[o + k]
  <2>1. /\ lines \in Seq(Line) /\ FirstKept(all) \in 1..(Len(all) + 1)
        /\ m = Len(all) + 1 - FirstKept(all)
        /\ \A k \in 1..(Len(all) + 1 - FirstKept(all)) : lines[k] = all[FirstKept(all) + k - 1]
    BY RecentLines
  <2>2. Len(all) \in Nat
    OBVIOUS
  <2> HIDE DEF lines
  <2> QED  BY <2>1, <2>2
<1>2. found = {k \in FirstKept(all)..Len(all) :
                  /\ i # "absent" => all[k].id = i
                  /\ level # "absent" => all[k].level = level}
  <2>1. (o + 1)..(o + m) = FirstKept(all)..Len(all)
    <3>1. FirstKept(all) \in Int
      BY RecentLines
    <3> QED  BY <1>1, <3>1
  <2> HIDE DEF o, m
  <2> QED  BY <2>1, Zenon DEF Hits, Fits
<1>3. /\ matches \in Seq(Line) /\ Len(matches) = count
      /\ \A k \in found : matches[place(k)] = all[k]
  <2> HIDE DEF o, lines
  <2> QED  BY <1>1, MatchingFindsTheHits
<1>4. count \in Nat
  <2> HIDE DEF o, m
  <2> QED  BY <1>1, HitsAreFinite
<1>5. ASSUME NEW k \in found PROVE place(k) \in 1..count /\ rank(k) = count - place(k)
  <2> HIDE DEF o, m
  <2>1. place(k) \in 1..count
    BY <1>1, <1>5, HitsGrow
  <2>2. rank(k) = count - place(k)
    BY <1>1, <1>5, HitsAfterAHit
  <2> QED  BY <2>1, <2>2
<1>6. n \in Nat \ {0}
  BY LimitIsPositive
<1>7. Cardinality(kept) = most
  <2>1. Cardinality({k \in found : count - place(k) < n}) = most
    <3> HIDE DEF o, m, n
    <3> QED  BY <1>1, <1>6, HighestHits
  <2>2. kept = {k \in found : count - place(k) < n}
    <3> HIDE DEF found, place, count, rank, n
    <3> QED  BY <1>5, Zenon
  <2> HIDE DEF kept, found, place, count, n, most
  <2> QED  BY <2>1, <2>2
<1>8. /\ Len(shown) = most
      /\ \A p \in 1..most : shown[p] = matches[count - most + p]
  <2>1. shown = Newest(matches, n)
    BY DEF Search
  <2> HIDE DEF shown, matches, n, count
  <2>2. n \in Int /\ n >= 0
    BY <1>6
  <2>3. /\ Len(Newest(matches, n)) = IF n < Len(matches) THEN n ELSE Len(matches)
        /\ \A p \in 1..(IF n < Len(matches) THEN n ELSE Len(matches)) :
              Newest(matches, n)[p] =
                 matches[Len(matches) - (IF n < Len(matches) THEN n ELSE Len(matches)) + p]
    BY <1>3, <2>2, NewestLines
  <2> QED  BY <1>3, <2>1, <2>3
<1>9. ASSUME NEW k \in kept PROVE shown[Len(shown) - rank(k)] = all[k]
  <2> HIDE DEF found, count, place, rank, n, shown, matches
  <2>1. k \in found /\ rank(k) < n
    OBVIOUS
  <2>2. place(k) \in 1..count /\ rank(k) = count - place(k)
    BY <1>5, <2>1
  <2>3. most - rank(k) \in 1..most /\ count - most + (most - rank(k)) = place(k)
    BY <1>4, <1>6, <2>1, <2>2
  <2>4. shown[most - rank(k)] = matches[place(k)]
    <3> HIDE DEF most
    <3> QED  BY <1>8, <2>3
  <2> QED  BY <1>3, <1>8, <2>1, <2>4
<1> HIDE DEF o, m, lines
<1> QED  BY <1>2, <1>7, <1>8, <1>9 DEF Complete, lines

-----------------------------------------------------------------------------
(* The types of the rest                                                   *)

Typed ==
    /\ \A r \in Requests : call[r] \in Calls[r] \cup {NoCall}
    /\ query \in [Requests -> Query]
    /\ gone \subseteq Requests /\ cut \subseteq Requests
    /\ events \in 0..MaxEvents

LEMMA RingIsTyped ==
    ASSUME IInv, RingHoldsTheNewest
    PROVE  ring \in [Nodes -> Seq(Line)] /\ \A n \in Nodes : Len(ring[n]) <= Capacity
<1>1. /\ emitted \in [Nodes -> Seq(Line)] /\ Capacity \in Nat \ {0}
      /\ ring = [n \in Nodes |-> Recent(emitted[n])]
  BY ApiAssumption DEF IInv, Lines, LinesAre, RingHoldsTheNewest, Recent
<1>2. ASSUME NEW n \in Nodes PROVE ring[n] \in Seq(Line) /\ Len(ring[n]) <= Capacity
  <2>1. emitted[n] \in Seq(Line) /\ ring[n] = Recent(emitted[n])
    BY <1>1
  <2> DEFINE lines == emitted[n]
  <2> HIDE DEF lines
  <2>2. lines \in Seq(Line) /\ Len(lines) \in Nat
    BY <2>1 DEF lines
  <2>3. /\ Recent(lines) \in Seq(Line)
        /\ Len(Recent(lines)) = IF Len(lines) > Capacity THEN Capacity ELSE Len(lines)
    BY <2>2, RecentLines
  <2> QED  BY <1>1, <2>1, <2>2, <2>3 DEF lines
<1> QED  BY <1>1, <1>2

LEMMA NoQueryIsAQuery == NoQuery \in Query
BY DEF NoQuery, Query, Ids

LEMMA ShownIsAQuery ==
    ASSUME NEW i \in Ids, NEW s \in Searches, NEW lines \in Seq(Line), NEW all \in Seq(Line)
    PROVE  [id |-> i, level |-> s.level, limit |-> s.limit,
            shown |-> Search(lines, i, s.level, s.limit), all |-> all] \in Query
<1>1. s.level \in {"absent", "info", "warn", "error"} /\ s.limit \in Int
  BY ApiAssumption
<1>2. Search(lines, i, s.level, s.limit) \in Seq(Line)
  BY <1>1, SearchShowsLines
<1> QED  BY <1>1, <1>2 DEF Query

LEMMA TypesKeep ==
    ASSUME IInv, RingHoldsTheNewest, Typed, [ApiNext]_apiVars
    PROVE  Typed'
<1>1. CASE UNCHANGED <<call, query, gone, cut, events>>
  BY <1>1 DEF Typed
<1>2. ASSUME NEW r \in Requests, RefuseBody(r) \/ Correlate(r) PROVE Typed'
  <2>1. UNCHANGED <<query, gone, cut, events>>
    BY <1>2 DEF RefuseBody, Correlate, effects
  <2>2. \E c \in Calls[r] : call' = [call EXCEPT ![r] = c]
    BY <1>2, Zenon DEF RefuseBody, Correlate
  <2>3. DOMAIN call = Requests
    BY DEF IInv, Shapes
  <2> QED  BY <2>1, <2>2, <2>3 DEF Typed
<1>3. ASSUME NEW r \in Requests, Disconnect(r) PROVE Typed'
  BY <1>3 DEF Disconnect, effects, Typed
<1>4. ASSUME NEW r \in Requests, EndRun(r) PROVE Typed'
  BY <1>1, <1>4 DEF EndRun
<1>5. ASSUME Bounded PROVE events' \in 0..MaxEvents
  BY <1>5, ApiAssumption DEF Bounded, Typed
<1>6. ASSUME NEW r \in Requests, NEW n \in Nodes, ClaimJob(r, n) PROVE Typed'
  <2>1. events' \in 0..MaxEvents /\ UNCHANGED <<call, query, gone, cut>>
    BY <1>5, <1>6 DEF ClaimJob
  <2> QED  BY <2>1 DEF Typed
<1>7. ASSUME NEW n \in Nodes, Restart(n) PROVE Typed'
  <2>1. events' \in 0..MaxEvents /\ UNCHANGED <<call, query, gone>>
    BY <1>5, <1>7 DEF Restart
  <2>2. cut' \subseteq Requests
    BY <1>7 DEF Restart, Typed
  <2> QED  BY <2>1, <2>2 DEF Typed
<1>8. ASSUME NEW r \in Requests, Finish(r) PROVE Typed'
  <2>1. query' = [query EXCEPT ![r] = NoQuery] /\ gone' = gone \ {r} /\ UNCHANGED <<call, cut, events>>
    BY <1>8 DEF Finish
  <2> QED  BY <2>1, NoQueryIsAQuery DEF Typed
<1>9. ASSUME NEW r \in Requests, ShowLogs(r) PROVE Typed'
  <2>1. PICK i \in {id[o] : o \in Requests} \cup {"absent"}, s \in Searches :
           query' = [query EXCEPT ![r] =
              [id |-> i, level |-> s.level, limit |-> s.limit,
               shown |-> Search(ring[NodeOf[r]], i, s.level, s.limit), all |-> emitted[NodeOf[r]]]]
    BY <1>9, Zenon DEF ShowLogs
  <2>2. i \in Ids
    BY DEF IInv, Shapes, Ids
  <2>3. NodeOf[r] \in Nodes /\ emitted[NodeOf[r]] \in Seq(Line) /\ ring[NodeOf[r]] \in Seq(Line)
    BY ApiAssumption, RingIsTyped DEF IInv, Lines, LinesAre
  <2> DEFINE answer == [id |-> i, level |-> s.level, limit |-> s.limit,
                        shown |-> Search(ring[NodeOf[r]], i, s.level, s.limit), all |-> emitted[NodeOf[r]]]
  <2>4. answer \in Query
    BY <2>2, <2>3, ShownIsAQuery
  <2>5. query' = [query EXCEPT ![r] = answer]
    BY <2>1
  <2>6. UNCHANGED <<call, gone, cut, events>>
    BY <1>9 DEF ShowLogs
  <2> HIDE DEF answer
  <2> QED  BY <2>4, <2>5, <2>6 DEF Typed
<1>10. ASSUME NEW r \in Requests, Serve(r) PROVE Typed'
  <2>1. CASE RefuseKey(r) \/ RefuseRole(r) \/ Admit(r) \/ RefuseNothing(r) \/ Reads(r)
    BY <1>1, <2>1 DEF RefuseKey, RefuseRole, Admit, RefuseNothing, Reads, ReadViews, ReadCache, ServeFile, effects
  <2>2. CASE StoreUpload(r) \/ RefuseImage(r) \/ DeleteJobs(r)
    BY <1>1, <2>2 DEF StoreUpload, RefuseImage, DeleteJobs
  <2>3. CASE CreateJob(r)
    BY <1>1, <2>3 DEF CreateJob, Enqueue, effects
  <2> QED  BY <1>8, <1>9, <1>10, <2>1, <2>2, <2>3 DEF Serve, Timely, Untimed, Reads
<1>11. CASE UNCHANGED apiVars
  BY <1>1, <1>11 DEF apiVars, effects
<1> QED  BY <1>2, <1>3, <1>4, <1>6, <1>7, <1>10, <1>11 DEF ApiNext, Serve

LEMMA TypesHold == ApiSpec => []Typed
<1>1. ApiInit => Typed
  BY ApiAssumption, NoQueryIsAQuery DEF ApiInit, Typed
<1>2. IInv /\ RingHoldsTheNewest /\ Typed /\ [ApiNext]_apiVars => Typed'
  BY TypesKeep
<1> QED  BY <1>1, <1>2, Invariance, RingTheorem, PTL DEF ApiSpec

\* Every variable keeps its type, with any number of requests, nodes and lines;
\* the buffer of logger.ts never holds more than MAX_RECENT_LOGS lines.
THEOREM ApiTypeCorrect == ApiSpec => []ApiTypeOK
<1>1. IInv /\ RingHoldsTheNewest /\ Typed => ApiTypeOK
  <2> SUFFICES ASSUME IInv, RingHoldsTheNewest, Typed PROVE ApiTypeOK
    OBVIOUS
  <2>1. ring \in [Nodes -> Seq(Line)] /\ \A n \in Nodes : Len(ring[n]) <= Capacity
    BY RingIsTyped
  <2>2. emitted \in [Nodes -> Seq(Line)]
    BY DEF IInv, Lines, LinesAre
  <2> QED  BY <2>1, <2>2 DEF IInv, Shapes, Typed, ApiTypeOK, Stages, Codes
<1> QED  BY <1>1, Invariance, RingTheorem, TypesHold, PTL

\* A search in no lines shows none, as NoQuery does.
LEMMA NothingIsSearched ==
    ASSUME NEW i, NEW level, NEW limit \in Nat
    PROVE  Search(Recent(<<>>), i, level, limit) = <<>>
<1>1. <<>> \in Seq(Line) /\ Len(<<>>) = 0
  OBVIOUS
<1>2. FirstKept(<<>>) = 1
  BY ApiAssumption, <1>1 DEF FirstKept
<1> DEFINE found == {k \in FirstKept(<<>>)..Len(<<>>) :
                       /\ i # "absent" => <<>>[k].id = i
                       /\ level # "absent" => <<>>[k].level = level}
           kept  == {k \in found : Cardinality({m \in found : m > k}) < LimitOf(limit)}
           shown == Search(Recent(<<>>), i, level, limit)
<1>3. kept = {}
  BY <1>1, <1>2
<1>4. Len(shown) = Cardinality(kept)
  <2>1. Complete(<<>>, i, level, limit, shown)
    BY <1>1, SearchIsComplete
  <2> QED  BY <2>1 DEF Complete
<1>5. Recent(<<>>) \in Seq(Line)
  BY <1>1, NothingIsRecent
<1>6. shown \in Seq(Line)
  BY <1>5, SearchShowsLines
<1> HIDE DEF shown, kept
<1>7. Len(shown) = 0
  BY <1>3, <1>4, FS_EmptySet
<1> QED  BY <1>6, <1>7, EmptySeq DEF shown

\* getLogsStream shows an administrator the newest lines with the id and the
\* level he asks for, in their order, for any number of lines and any limit.
THEOREM TraceTheorem == ApiSpec => []TraceQueriesAreComplete
<1>1. Typed /\ NewestAreSearched => TraceQueriesAreComplete
  <2> SUFFICES ASSUME Typed, NewestAreSearched, NEW r \in Requests, query[r].limit >= 0
               PROVE  Complete(query[r].all, query[r].id, query[r].level, query[r].limit, query[r].shown)
    BY Zenon DEF TraceQueriesAreComplete, Complete
  <2> DEFINE q == query[r]
  <2>1. q \in Query
    BY DEF Typed
  <2>2. q.limit \in Nat /\ q.all \in Seq(Line)
    BY <2>1 DEF Query
  <2>3. q.shown = Search(Recent(q.all), q.id, q.level, q.limit)
    <3>1. CASE q # NoQuery
      BY <3>1 DEF NewestAreSearched
    <3>2. CASE q = NoQuery
      BY <3>2, NothingIsSearched DEF NoQuery
    <3> QED  BY <3>1, <3>2
  <2> QED  BY <2>2, <2>3, SearchIsComplete
<1> QED  BY <1>1, TypesHold, SearchTheorem, PTL

=============================================================================
