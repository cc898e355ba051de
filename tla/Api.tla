-------------------------------- MODULE Api ---------------------------------
(***************************************************************************)
(* The way of a request through the server (src/src/app.ts, routes/,       *)
(* middleware/, the handlers in controllers/) and the trace it leaves: its *)
(* correlation id, which goes into the response, the job and every log     *)
(* line, and the ring buffer of src/src/logger.ts that GET /logs searches. *)
(*                                                                         *)
(* A handler's code up to its next await is one step.  Queue, table and    *)
(* bucket are modules of their own;  here they only succeed or fail.  Lines*)
(* of the server itself, which have no id, are left out.                   *)
(***************************************************************************)
EXTENDS Integers, FiniteSets, InputChecks

CONSTANTS
    Requests, \* the requests that arrive;  a request is also its fresh id
    Nodes,    \* the server processes
    NodeOf,   \* the node that the load balancer gives a request to
    ClientIds,\* well-formed ids that clients may send
    Calls,    \* what each request may be
    Searches, \* the levels and limits that GET /logs is asked for
    Names,    \* the names that a JSON body may carry
    Capacity, \* MAX_RECENT_LOGS
    DefaultLimit,
    MaxEvents \* bound on the restarts and the claims of jobs

Keys   == {"standard", "vip", "admin"}

\* What may stand in the place of a key.  API_KEYS is an object literal, and an
\* "inherited" name is one that every object has, such as "constructor".
Sent == Keys \cup {"inherited", "unknown"}

\* GET /metrics without a window is answered from the cache.  The files are
\* those of public/, output/ and uploads/.
Routes ==
    {"POST /jobs", "GET /jobs", "DELETE /jobs", "GET /logs", "GET /metrics",
     "GET /metrics?windowHours", "GET /health", "GET files"}

\* `key' is the X-API-Key header and `auth' the Authorization header.
CallType ==
    [route  : Routes,
     key    : Sent \cup {"absent"},
     auth   : [scheme : {"absent", "Bearer", "ApiKey", "Basic"}, token : Sent],
     header : ClientIds \cup {"absent", "blank", "poisoned"},
     body   : {"file", "json", "other", "malformed"}]

ASSUME ApiAssumption ==
    /\ NodeOf \in [Requests -> Nodes]
    /\ Calls \in [Requests -> SUBSET CallType]
    /\ Searches \subseteq [level : {"absent", "info", "warn", "error"}, limit : Int]
    /\ Capacity \in Nat \ {0} /\ DefaultLimit \in Nat \ {0}
    /\ MaxEvents \in Nat
    /\ "absent" \notin Requests \cup ClientIds
    /\ Requests \cap ClientIds = {}

VARIABLES
    call,    \* what each request asks for
    stage,   \* how far it got
    id,      \* req.correlationId and the x-correlation-id of the response
    status,  \* the HTTP status of its answer, 0 before
    files,   \* requests whose upload is in uploads/
    job,     \* [state, id, image, name, node] of the job a request made
    deleters,\* requests that deleted rows
    ring,    \* recentLogsBuffer of each node
    query,   \* [id, level, limit, shown, all] of the answer to GET /logs
    emitted, \* history: the lines of each node since it started
    gone,    \* requests whose client closed the connection
    cut,     \* requests whose node went down before they were answered
    events   \* how many of the bounded events there were

tracks  == <<ring, emitted>>
effects == <<files, job, deleters, query>>
apiVars == <<call, stage, id, status, effects, tracks, gone, cut, events>>

Ids    == Requests \cup ClientIds \cup {"absent"}
Line   == [by : Requests, id : Ids, level : {"info", "warn", "error"}]
NoJob  == [state |-> "none", id |-> "absent", image |-> "none", name |-> <<>>, node |-> "none"]
NoCall == [route |-> "none"]
NoQuery == [id |-> "absent", level |-> "absent", limit |-> 0, shown |-> <<>>, all |-> <<>>]

JobRecord ==
    [state : {"queued", "running", "ended"}, id : Ids, image : {"image", "missing", "wav", "text"},
     name : Names \cup {UploadName}, node : Nodes \cup {"none"}]

Query ==
    [id : Ids, level : {"absent", "info", "warn", "error"}, limit : Int,
     shown : Seq(Line), all : Seq(Line)]

ApiTypeOK ==
    /\ \A r \in Requests : call[r] \in Calls[r] \cup {NoCall}
    /\ stage \in [Requests -> {"new", "correlated", "admitted", "stored", "answered", "done"}]
    /\ id \in [Requests -> Ids]
    /\ status \in [Requests -> {0, 200, 201, 400, 401, 403, 404, 500, 503}]
    /\ files \subseteq Requests
    /\ job \in [Requests -> JobRecord \cup {NoJob}]
    /\ deleters \subseteq Requests
    /\ ring \in [Nodes -> Seq(Line)] /\ \A n \in Nodes : Len(ring[n]) <= Capacity
    /\ query \in [Requests -> Query]
    /\ emitted \in [Nodes -> Seq(Line)]
    /\ gone \subseteq Requests /\ cut \subseteq Requests
    /\ events \in 0..MaxEvents

ApiInit ==
    /\ call = [r \in Requests |-> NoCall]
    /\ stage = [r \in Requests |-> "new"]
    /\ id = [r \in Requests |-> "absent"]
    /\ status = [r \in Requests |-> 0]
    /\ files = {} /\ job = [r \in Requests |-> NoJob] /\ deleters = {}
    /\ ring = [n \in Nodes |-> <<>>] /\ emitted = [n \in Nodes |-> <<>>]
    /\ query = [r \in Requests |-> NoQuery]
    /\ gone = {} /\ cut = {} /\ events = 0

-----------------------------------------------------------------------------
(* Log lines                                                               *)

\* Mutant of Push: takes one line too many.
PushBeyond(buffer, line) ==
    Append(IF Len(buffer) > Capacity THEN Tail(buffer) ELSE buffer, line)

\* Mutant of Push: pop() in the place of shift().
PushAfterPop(buffer, line) ==
    Append(IF Len(buffer) >= Capacity THEN SubSeq(buffer, 1, Len(buffer) - 1) ELSE buffer, line)

Push(buffer, line) ==
    Append(IF Len(buffer) >= Capacity THEN Tail(buffer) ELSE buffer, line)

LineOf(by, i, level) == [by |-> by, id |-> i, level |-> level]

Log(n, line) ==
    /\ ring' = [ring EXCEPT ![n] = Push(@, line)]
    /\ emitted' = [emitted EXCEPT ![n] = Append(@, line)]

-----------------------------------------------------------------------------
(* The middleware                                                          *)

sanitizeCorrelationId(r, raw) == IF raw \in ClientIds THEN raw ELSE r

\* express.json refuses what it cannot parse before there is an id.
RefuseBody(r) ==
    /\ stage[r] = "new"
    /\ \E c \in Calls[r] : c.body = "malformed" /\ call' = [call EXCEPT ![r] = c]
    /\ stage' = [stage EXCEPT ![r] = "done"]
    /\ status' = [status EXCEPT ![r] = 400]
    /\ UNCHANGED <<id, effects, tracks, gone, cut, events>>

\* correlationMiddleware: the warning about a poisoned header carries no id.
Correlate(r) ==
    /\ stage[r] = "new"
    /\ \E c \in Calls[r] :
          LET i == sanitizeCorrelationId(r, c.header)
              n == NodeOf[r]
              warning == LineOf(r, "absent", "warn")
              incoming == LineOf(r, i, "info")
          IN  /\ c.body # "malformed"
              /\ call' = [call EXCEPT ![r] = c]
              /\ id' = [id EXCEPT ![r] = i]
              /\ IF c.header = "poisoned"
                 THEN /\ ring' = [ring EXCEPT ![n] = Push(Push(@, warning), incoming)]
                      /\ emitted' = [emitted EXCEPT ![n] = @ \o <<warning, incoming>>]
                 ELSE Log(n, incoming)
    /\ stage' = [stage EXCEPT ![r] = "correlated"]
    /\ UNCHANGED <<status, effects, gone, cut, events>>

extractApiKey(c) ==
    IF c.key # "absent" THEN c.key
    ELSE IF c.auth.scheme \in {"Bearer", "ApiKey"} THEN c.auth.token ELSE "absent"

\* API_KEYS[apiKey] holds a value.  That of an inherited name is no user, but it
\* is not undefined either, and is let in.
KeyIsFound(c) == extractApiKey(c) \in Keys \cup {"inherited"}

\* The role of the user that API_KEYS holds under the key:  what is no user has none.
Role(c) == IF extractApiKey(c) \in Keys THEN extractApiKey(c) ELSE "none"

\* createJob's user?.role || "standard"
Tier(c) == IF Role(c) = "none" THEN "standard" ELSE Role(c)

Public(route)    == route \in {"GET /health", "GET files"}
AdminOnly(route) == route \in {"DELETE /jobs", "GET /logs"}

Answered(r, code) ==
    /\ stage' = [stage EXCEPT ![r] = "answered"]
    /\ status' = [status EXCEPT ![r] = code]

\* Mutant of RefuseKey: a request without a key is dropped.
RefuseUnknownKey(r) ==
    /\ stage[r] = "correlated"
    /\ ~Public(call[r].route) /\ ~KeyIsFound(call[r]) /\ extractApiKey(call[r]) # "absent"
    /\ Log(NodeOf[r], LineOf(r, id[r], "warn"))
    /\ Answered(r, 401)
    /\ UNCHANGED <<call, id, effects, gone, cut, events>>

\* apiKeyAuthMiddleware
RefuseKey(r) ==
    /\ stage[r] = "correlated"
    /\ ~Public(call[r].route) /\ ~KeyIsFound(call[r])
    /\ Log(NodeOf[r], LineOf(r, id[r], "warn"))
    /\ Answered(r, 401)
    /\ UNCHANGED <<call, id, effects, gone, cut, events>>

\* requireRole(["admin"])
RefuseRole(r) ==
    /\ stage[r] = "correlated"
    /\ AdminOnly(call[r].route) /\ KeyIsFound(call[r]) /\ Role(call[r]) # "admin"
    /\ Log(NodeOf[r], LineOf(r, id[r], "warn"))
    /\ Answered(r, 403)
    /\ UNCHANGED <<call, id, effects, gone, cut, events>>

MayEnter(c) ==
    /\ Public(c.route) \/ KeyIsFound(c)
    /\ AdminOnly(c.route) => Role(c) = "admin"

\* Mutant of Admit: the upload middleware comes before the key's.
AdmitUploads(r) ==
    /\ stage[r] = "correlated"
    /\ call[r].route # "GET /logs"
    /\ MayEnter(call[r]) \/ call[r].body = "file"
    /\ stage' = [stage EXCEPT ![r] = "admitted"]
    /\ UNCHANGED <<call, id, status, effects, tracks, gone, cut, events>>

Admit(r) ==
    /\ stage[r] = "correlated"
    /\ call[r].route # "GET /logs"
    /\ MayEnter(call[r])
    /\ stage' = [stage EXCEPT ![r] = "admitted"]
    /\ UNCHANGED <<call, id, status, effects, tracks, gone, cut, events>>

-----------------------------------------------------------------------------
(* POST /jobs                                                              *)

Posts(r) == call[r].route = "POST /jobs"

\* multer stores the file, or removes what it has of it and passes an error on.
StoreUpload(r) ==
    /\ stage[r] = "admitted" /\ Posts(r) /\ call[r].body = "file"
    /\ \/ /\ r \notin gone
          /\ files' = files \cup {r}
          /\ stage' = [stage EXCEPT ![r] = "stored"]
          /\ UNCHANGED status
       \/ Answered(r, 500) /\ UNCHANGED files
    /\ UNCHANGED <<call, id, job, deleters, query, tracks, gone, cut, events>>

InHandler(r) ==
    /\ Posts(r)
    /\ stage[r] = IF call[r].body = "file" THEN "stored" ELSE "admitted"

\* Mutant of RefuseImage: keeps the upload.
RefuseImageOnly(r) ==
    /\ InHandler(r)
    /\ call[r].body \in {"file", "json"}
    /\ Answered(r, 400)
    /\ UNCHANGED <<call, id, files, job, deleters, query, tracks, gone, cut, events>>

\* No image, a name with a path in it, or a file that is no image.  (The unlink
\* is assumed to succeed.)
RefuseImage(r) ==
    /\ InHandler(r)
    /\ call[r].body \in {"file", "json"}
    /\ Answered(r, 400)
    /\ files' = files \ {r}
    /\ UNCHANGED <<call, id, job, deleters, query, tracks, gone, cut, events>>

\* Without a body that express.json or multer parses, req.body is undefined and
\* createJob throws before its try block.
RefuseNothing(r) ==
    /\ InHandler(r)
    /\ call[r].body = "other"
    /\ Answered(r, 500)
    /\ UNCHANGED <<call, id, effects, tracks, gone, cut, events>>

KindOf(found) ==
    IF found.kind = "nothing" THEN "missing"
    ELSE IF found.kind \in ImageKinds THEN "image" ELSE found.kind

\* multer makes up the name of an upload;  one in a JSON body may be anything,
\* and so may be what it leads to.
Candidates(r) ==
    IF call[r].body = "file" THEN {UploadName} \X Files
    ELSE IF call[r].body = "json" THEN UNION {{name} \X FoundUnder(name) : name \in Names}
    ELSE {}

\* The images that createJob goes on with.
Taken(r) ==
    {[name |-> c[1], kind |-> KindOf(c[2])] : c \in {d \in Candidates(r) : Accepts(d[1], d[2])}}

JobFor(image, i) ==
    [state |-> "queued", id |-> i, image |-> image.kind, name |-> image.name, node |-> "none"]

\* Mutant of NewJob: the id of the latest line, as if it were kept globally.
NewJobOfLatest(r, image) ==
    LET buffer == ring[NodeOf[r]]
    IN  JobFor(image, IF buffer = <<>> THEN "absent" ELSE buffer[Len(buffer)].id)

NewJob(r, image) == JobFor(image, id[r])

Enqueue(r, image) ==
    /\ job' = [job EXCEPT ![r] = NewJob(r, image)]
    /\ UNCHANGED <<call, id, files, deleters, query, tracks, gone, cut, events>>

\* createJob for an image it takes: the tier is not allowed priority 1, the
\* queue is full or did not answer, or the job is in it.  An add that timed out
\* may have worked.
CreateJob(r) ==
    /\ InHandler(r)
    /\ \E image \in Taken(r) :
          \/ /\ Tier(call[r]) = "standard"
             /\ Answered(r, 403)
             /\ UNCHANGED <<call, id, effects, tracks, gone, cut, events>>
          \/ /\ Answered(r, 503)
             /\ UNCHANGED <<call, id, effects, tracks, gone, cut, events>>
          \/ Answered(r, 503) /\ Enqueue(r, image)
          \/ Answered(r, 201) /\ Enqueue(r, image)

-----------------------------------------------------------------------------
(* The other routes                                                        *)

\* deleteJobsHandler: after a failure some rows may be gone.
DeleteJobs(r) ==
    /\ stage[r] = "admitted" /\ call[r].route = "DELETE /jobs"
    /\ \E code \in {200, 500} :
          /\ Answered(r, code)
          /\ deleters' \in {deleters \cup {r}} \cup (IF code = 500 THEN {deleters} ELSE {})
    /\ UNCHANGED <<call, id, files, job, query, tracks, gone, cut, events>>

\* The views that are read from Redis and PostgreSQL with no timer beside them.
Views == {"GET /jobs", "GET /metrics?windowHours", "GET /health"}

\* GET /jobs (and /jobs/:id, which may not be there), /health and the metrics of
\* a window: what they show is module SystemViews.
ReadViews(r) ==
    /\ stage[r] = "admitted" /\ call[r].route \in Views
    /\ \E code \in {200, 500} \cup (IF call[r].route = "GET /jobs" THEN {404} ELSE {}) :
          Answered(r, code)
    /\ UNCHANGED <<call, id, effects, tracks, gone, cut, events>>

\* The cached metrics are raced against 500 ms, and there may be none.  (They are
\* module MetricsRefresher.)
ReadCache(r) ==
    /\ stage[r] = "admitted" /\ call[r].route = "GET /metrics"
    /\ \E code \in {200, 500, 503} : Answered(r, code)
    /\ UNCHANGED <<call, id, effects, tracks, gone, cut, events>>

\* express.static: a file is shown to anybody who names it, also an upload.
ServeFile(r) ==
    /\ stage[r] = "admitted" /\ call[r].route = "GET files"
    /\ \E code \in {200, 404} : Answered(r, code)
    /\ UNCHANGED <<call, id, effects, tracks, gone, cut, events>>

Newest(lines, n) ==
    IF n >= 0 THEN SubSeq(lines, Len(lines) - (IF n < Len(lines) THEN n ELSE Len(lines)) + 1, Len(lines))
    ELSE SubSeq(lines, 1 - n, Len(lines))

Fits(line, i, level) ==
    /\ i # "absent" => line.id = i
    /\ level # "absent" => line.level = level

\* kept[n] holds those of the first n lines that fit.
Matching(lines, i, level) ==
    LET kept[n \in 0..Len(lines)] ==
            IF n = 0 THEN <<>>
            ELSE IF Fits(lines[n], i, level) THEN Append(kept[n - 1], lines[n])
            ELSE kept[n - 1]
    IN  kept[Len(lines)]

\* parseInt(limit) || 80
LimitOf(limit) == IF limit = 0 THEN DefaultLimit ELSE limit

\* Mutant of Search: cuts before it filters.
SearchNewest(lines, i, level, limit) == Matching(Newest(lines, LimitOf(limit)), i, level)

\* slice(-limit): a negative limit drops that many lines at the beginning.
Search(lines, i, level, limit) == Newest(Matching(lines, i, level), LimitOf(limit))

\* From the key to the answer, getLogsStream is one step.  The line of the
\* request itself is in the buffer, so it never falls back to the file.
ShowLogs(r) ==
    /\ stage[r] = "correlated" /\ call[r].route = "GET /logs" /\ MayEnter(call[r])
    /\ \E i \in {id[o] : o \in Requests} \cup {"absent"}, s \in Searches :
          query' = [query EXCEPT ![r] =
              [id |-> i, level |-> s.level, limit |-> s.limit,
               shown |-> Search(ring[NodeOf[r]], i, s.level, s.limit), all |-> emitted[NodeOf[r]]]]
    /\ Answered(r, 200)
    /\ UNCHANGED <<call, id, files, job, deleters, tracks, gone, cut, events>>

LevelOf(code) == IF code >= 500 THEN "error" ELSE IF code >= 400 THEN "warn" ELSE "info"

\* The finish event of the response, which a closed connection never sees.
Finish(r) ==
    /\ stage[r] = "answered"
    /\ IF r \in gone THEN UNCHANGED tracks
       ELSE Log(NodeOf[r], LineOf(r, id[r], LevelOf(status[r])))
    /\ stage' = [stage EXCEPT ![r] = "done"]
    /\ query' = [query EXCEPT ![r] = NoQuery]
    /\ gone' = gone \ {r}
    /\ UNCHANGED <<call, id, status, files, job, deleters, cut, events>>

-----------------------------------------------------------------------------
(* What happens meanwhile                                                  *)

\* A closed connection shows when more of the body is read or the answer is
\* written.
Disconnect(r) ==
    /\ stage[r] \in {"admitted", "answered"} /\ r \notin gone
    /\ gone' = gone \cup {r}
    /\ UNCHANGED <<call, stage, id, status, effects, tracks, cut, events>>

Bounded ==
    /\ events < MaxEvents
    /\ events' = events + 1

\* A worker of any node claims the job and logs with the id in its data.
ClaimJob(r, n) ==
    /\ job[r].state = "queued"
    /\ Bounded
    /\ job' = [job EXCEPT ![r].state = "running", ![r].node = n]
    /\ Log(n, LineOf(r, job[r].id, "info"))
    /\ UNCHANGED <<call, stage, id, status, files, deleters, query, gone, cut>>

\* The run succeeds and removes the upload, fails for good, or is tried again.
\* It ends without a line when the row could not be written.
EndRun(r) ==
    /\ job[r].state = "running"
    /\ \/ /\ Log(job[r].node, LineOf(r, job[r].id, "info"))
          /\ job' = [job EXCEPT ![r].state = "ended"]
          /\ files' = files \ {r}
       \/ /\ Log(job[r].node, LineOf(r, job[r].id, "error"))
          /\ job' = [job EXCEPT ![r].state = "ended"]
          /\ UNCHANGED files
       \/ /\ Log(job[r].node, LineOf(r, job[r].id, "warn")) \/ UNCHANGED tracks
          /\ \E state \in {"queued", "ended"} : job' = [job EXCEPT ![r].state = state]
          /\ UNCHANGED files
    /\ UNCHANGED <<call, stage, id, status, deleters, query, gone, cut, events>>

\* A node goes down and comes back with an empty buffer;  the queue gives the
\* jobs it ran to another run.
Restart(n) ==
    LET lost == {r \in Requests : NodeOf[r] = n /\ stage[r] \notin {"new", "done"}}
    IN  /\ Bounded
        /\ ring' = [ring EXCEPT ![n] = <<>>]
        /\ emitted' = [emitted EXCEPT ![n] = <<>>]
        /\ stage' = [r \in Requests |-> IF r \in lost THEN "done" ELSE stage[r]]
        /\ cut' = cut \cup lost
        /\ job' = [r \in Requests |->
              IF job[r].state = "running" /\ job[r].node = n
              THEN [job[r] EXCEPT !.state = "queued"] ELSE job[r]]
        /\ UNCHANGED <<call, id, status, files, deleters, query, gone>>

\* The steps that await nothing, the disk, the client's own upload, or something
\* that a timer is raced against.
Timely(r) ==
    \/ RefuseKey(r) \/ RefuseRole(r) \/ Admit(r)
    \/ StoreUpload(r) \/ RefuseImage(r) \/ RefuseNothing(r) \/ CreateJob(r)
    \/ ShowLogs(r) \/ ReadCache(r) \/ ServeFile(r)
    \/ Finish(r)

\* Those that await Redis, PostgreSQL or S3 for as long as it takes.
Untimed(r) == DeleteJobs(r) \/ ReadViews(r)

ApiNext ==
    \/ \E r \in Requests :
          \/ RefuseBody(r) \/ Correlate(r) \/ Timely(r) \/ Untimed(r)
          \/ Disconnect(r) \/ EndRun(r)
          \/ \E n \in Nodes : ClaimJob(r, n)
    \/ \E n \in Nodes : Restart(n)

\* Once a request has arrived the event loop gets to it, timers fire, the disk
\* answers, and Node closes a connection whose body does not end.  Redis,
\* PostgreSQL and S3 may stay silent for ever: the client of Redis has
\* maxRetriesPerRequest null, and the pool of db.ts has no timeout.
ApiFairness == \A r \in Requests : WF_apiVars(Timely(r))

ApiSpec == ApiInit /\ [][ApiNext]_apiVars /\ ApiFairness

-----------------------------------------------------------------------------

\* An upload is stored, and a job queued, only for a caller whose key the lookup
\* in API_KEYS found;  rows are deleted, and log lines shown, only for the key of
\* the administrator.  The lookup also finds the names that every object
\* inherits, so "found" is weaker than "one of the three keys" in the first part,
\* and not in the second.  Files are no secret:  ServeFile asks for no key.
NothingBeforeTheKey ==
    \A r \in Requests :
        /\ r \in files \/ job[r] # NoJob => KeyIsFound(call[r])
        /\ r \in deleters \/ query[r] # NoQuery => extractApiKey(call[r]) = "admin"

\* An id stands for one request or for all the requests that sent it: every
\* line, on every node, and every job carry the id that the client was told.
IdsDoNotMix ==
    /\ \A n \in Nodes : \A k \in DOMAIN emitted[n] :
          LET line == emitted[n][k]
          IN  line.id \in {"absent", id[line.by]}
    /\ \A r \in Requests :
          /\ job[r] # NoJob => job[r].id = id[r]
          /\ id[r] \notin {"absent", r} => id[r] = call[r].header

\* The last Capacity lines begin here.
FirstKept(lines) == IF Len(lines) > Capacity THEN Len(lines) - Capacity + 1 ELSE 1

\* The buffer of a node holds the newest of the lines that it wrote since it
\* started, up to Capacity of them, and in their order.
RingHoldsTheNewest ==
    ring = [n \in Nodes |-> SubSeq(emitted[n], FirstKept(emitted[n]), Len(emitted[n]))]

\* An administrator who asks for an id sees the newest lines with it among the
\* last Capacity lines of the node, in their order, and nothing else.
TraceQueriesAreComplete ==
    \A r \in Requests :
        LET q     == query[r]
            found == {k \in FirstKept(q.all)..Len(q.all) :
                        /\ q.id # "absent" => q.all[k].id = q.id
                        /\ q.level # "absent" => q.all[k].level = q.level}
            rank(k) == Cardinality({m \in found : m > k})
        IN  q.limit >= 0 =>
              LET kept == {k \in found : rank(k) < LimitOf(q.limit)}
              IN  /\ Len(q.shown) = Cardinality(kept)
                  /\ \A k \in kept : q.shown[Len(q.shown) - rank(k)] = q.all[k]

\* An upload stays in uploads/ only for a job, for a request in progress, or
\* because the request was refused after the checks (403, 503) or cut off.
UploadsAreAccountedFor ==
    \A r \in files :
        stage[r] = "stored" \/ job[r] # NoJob \/ status[r] \in {403, 503} \/ r \in cut

\* Every job is for an image, or for a name with no file behind it so far, and
\* its name stays in uploads/:  it has no path in it, and is not "." or "..".
OnlyImagesAreProcessed ==
    \A r \in Requests :
        job[r] # NoJob => job[r].image \in {"image", "missing"} /\ StaysInside(job[r].name)

\* The request gets past its key, to a handler that waits without a timer.
MayWait(c) == MayEnter(c) /\ c.route \in Views \cup {"DELETE /jobs"}

\* A request that has its id is answered even when Redis, PostgreSQL and S3 are
\* silent, unless its client left, its node went down, or it asks for one of the
\* views, or for a deletion, and is let in.
EveryCallIsAnswered ==
    \A r \in Requests :
        stage[r] = "correlated" /\ ~MayWait(call[r])
            ~> stage[r] = "done" /\ (status[r] # 0 \/ r \in cut)

=============================================================================
