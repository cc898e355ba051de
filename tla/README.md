# TLA+ models of the job processing system

These modules specify this repository: an HTTP API that takes image jobs behind API
keys, a BullMQ queue in Redis, workers that make thumbnails in threads, a job table in
PostgreSQL, an S3 bucket, a cluster-wide cache of system metrics, the views the server
gives of all this, a rate limiter, and the script that cleans everything up. TLC checks
them on small instances, and TLAPS proves the safety properties and the refinement for
every instance. Line numbers below refer to files under `src/src/` unless another
directory is given.

## 1. The system

| Component | State | Operations | Talks to |
|---|---|---|---|
| **Submission** `controllers/jobs.controller.ts` | none of its own | `createJob`: validate, tier, count, limit, add, answer | Redis, `uploads/` |
| **Deletion and reading** same file | keys it has yet to delete from S3 | `deleteJobsHandler`, `getJobByIdHandler`, `getAllJobsHandler` | table, S3 |
| **Queue** `queue.ts` + BullMQ | state, attempts, stall count and lock of each job | add, claim, complete, fail, retry after a backoff, stalled-job sweep | worker, API |
| **Worker** `worker.ts`, `cpu-worker.ts` | two slots per node (`concurrency = 2`, worker.ts:57), a thread per run, pending `failed` listeners | insert row, mark, run the thread, complete or fail, record the final failure | queue, table, disk, S3 |
| **Job table** `db.ts` | `jobs(status, thumbnail, ...)` | `insertJob`, `markJob*`, the two DELETEs, aggregation | worker, API |
| **Files and bucket** `s3.ts`, `middleware/upload.middleware.ts` | `uploads/`, `output/`, `thumbnails/` | PUT, delete, unlink | worker, API |
| **Metrics refresher** `services/metrics-refresher.ts` | lock and cache in Redis, `lastKnownGoodMetrics` per node | prewarm, cycle, store, read | Redis, table, queue |
| **Metrics and views** `metrics.ts`, `db.ts:203-309`, `controllers/system.controller.ts`, `getAllJobsHandler` | none | read the queue's counts and the rows one after the other, percentiles, sign URLs | table, queue |
| **Rate limiter** `ratelimit.ts` | time stamps per client | admit or 429, clean up (not wired into `app.ts`) | |
| **Request path** `app.ts`, `routes/`, `middleware/`, `utils/security.ts` | the request, its correlation id and role | correlate, check key and role, store the upload, check the image | handlers |
| **Log stream** `logger.ts`, `getLogsStream` | ring buffer of 500 lines per node | push, filter, slice | request path, worker |
| **Cleanup script** `clean-all.ts` | what it has listed | drain, obliterate, delete rows, objects and files | queue, table, bucket, disk |
| Server `index.ts`, `app.ts` | | bootstrap; docker restarts it when it ends | all |
| Dashboard, test and load scripts | | clients of the API | API |

What makes it hard:

* The life of a job is spread over Redis, PostgreSQL, a disk and a bucket with no
  transaction that spans them. Every `await` in `worker.ts` is a point where a node can
  die, a lock can expire or a query can fail, with or without having taken effect.
* BullMQ redelivers: a run whose lock expired is not told, and a second run of the job
  writes the same row, output file and key.
* The thread deletes its input before the completion is recorded; two jobs may name one
  input.
* `createJob` reads two counters and adds in three calls with any number of requests in
  between, and two timers answer the client while the calls may still take effect.
* `DELETE /jobs` removes rows of running jobs and deletes objects afterwards.
* A view is several calls to Redis and PostgreSQL, and jobs move between any two.
* Authentication, uploads and handlers are held together by the order in which they are
  registered; the correlation id is handed from request to job to a worker on another
  node, between the lines of other requests.
* The cleanup script empties four stores while all of this goes on.
* The refresher relies on the ratios of five times, and on nothing else: no node renews
  or releases the lock.

What makes each part correct is stated in section 4; `PROJECT.json` lists every hazard
at its line with the properties that would catch it.

## 2. Modules

```
JobIds -- JobQueue --+
      \-- JobStore --+-- JobWorker -- JobSystem -- MCJobSystem
      \-- FileStore -+                    |     \- JobSystemProofs
      \-- JobLifecycle <--- implements ---+        \- JobLifecycleProofs

JobSystem -- CleanAll -- MCCleanAll, CleanAllProofs (with JobLifecycleProofs)
JobSystem, Distribution -- SystemViews -- MCSystemViews, SystemViewsProofs

Admission -- MCAdmission, AdmissionProofs
MetricsRefresher -- MCRefresher, MetricsRefresherProofs
RateLimiter -- MCRateLimiter, RateLimiterProofs
InputChecks -- Api -- MCApi, ApiProofs
```

**JobQueue** is BullMQ's contract as `queue.ts:17-28` configures it: `qstate`,
`attemptsMade`, `stalls`, `owner` (the lock). `Enqueue`, `Claim`, `EndRun`, `Promote`,
`DropLocks` and `TakeBack` are add, claim, moveToCompleted/Failed/Delayed, the end of
the backoff, the expiry of locks and the stalled-job sweep. Any waiting job may be
claimed next, which covers every order of priorities.

**JobStore** is the table of `db.ts`: `status` (`absent` without a row) and `thumbnail`.
Each operator is one SQL statement with its WHERE clause and its ON CONFLICT; `purged`
remembers the rows a DELETE removed.

**FileStore** has the three places a file can be in. `Consumed` is the test of
`cpu-worker.ts:69-72` that spares `sample.jpg`.

**JobWorker** is one slot between two awaits at a time (`pc`), with the error
classification of `worker.ts:14-23` and the catch block, the part of BullMQ's worker
that acts on the outcome, and the `failed` listener (`handlers`).

**JobSystem** composes them and adds the API (`Submit`, `DeleteJobs`, `DeleteObject`),
crashes, lost locks, and the listener whose query fails (`ListenerFails`: nothing awaits
it, so the process ends). All properties of the life of a job are here.

**JobLifecycle** is the abstract specification: what `GET /jobs/:id` shows of a job. A
row appears in progress, settles once and stays settled; an administrator may remove it,
and a row removed after it settled does not come back. Of a job with a lost lock, or
with a query that took effect and reported an error (`disturbed`), nothing is promised.
`JobSystem` implements it under the mapping `disturbed <- abandoned \cup ambiguous`,
`settled <- ` the undisturbed jobs that have `Ended`.

**Admission** is `createJob` from arrival to answer: one action per Redis call with the
code up to the next one (`Receive`, `CountWaiting`, `CountPrioritized`, `Added`), the
timers (`CountFails`, `AddTimesOut`), an add that fails, lands late or is lost, and the
moves of jobs as far as the two counters can tell.

**MetricsRefresher** counts time in ticks. A timer that is due goes before the next
tick, a query takes between 0 and `MaxQuery` ticks and may overrun at the cost of the
failure budget. `Boot`/`BootFails` are `prewarmMetricsCache`, `Cycle`/`CycleFails` the
cycle up to the query. The end of `computeAndStoreMetrics` is three steps: `Compute`
(the query answers, and `computedAt` is taken, line 25), `Land` (the SET takes effect,
line 35, whatever the cache holds by then) and `Store` (its answer, memory and the
sleep, line 38). `StoreFails` is an error in any of them, `Overrun` a query, SET or
answer that takes up to `LongQuery`: the metrics of a leader that lost its lock may land
after fresher ones. `ClientRead` is `getCachedSystemMetrics`.

**CleanAll** is `clean-all.ts` running beside `JobSystem`: `script` is its next call,
`listed` what it listed and has yet to remove (one page of objects, one directory at a
time). `Drain` and `DeleteAllRows` are one call each, and `obliterate` is two steps,
because it first pauses the queue (`Pause`): a failure in between leaves it paused. What
leaves the queue is counted with the `abandoned` jobs. `StoreUpload` is multer writing a
file of a POST request that comes meanwhile, at any time; jobs on it are queued
afterwards. `DeleteListed` succeeds although S3 may keep some of the keys (`refused`):
clean-all.ts:65 does not look at the `Errors` of the answer. `UnlinkUpload` and
`UnlinkOutput` are one `unlinkSync` each, because a worker may unlink in between.
`PartFails` is the catch block of a part: a call failed, or a listed name has vanished
(`unlinkSync` throws `ENOENT`), and the rest of the part is given up.

**Distribution** has the two ways this repository computed percentiles, in whole
milliseconds: `calculatePercentile` (metrics.ts:63-69), which nothing calls any more,
and `percentile_cont` with the rounding of `db.ts:218-237`.

**SystemViews** adds a reader to `JobSystem`: one request for `/metrics`, `/health` or
`/jobs` at a time, one action per call (`CountQueue`, `ReadRows`, and for the list
`Sign`, one key at a time, and `AllSigned`), and any number of steps of the system
between two calls. A count is kept as the set of jobs in it, so that the properties can
say which job was missed. `Age` moves a row out of the `windowHours` asked for.

**RateLimiter** is the sliding-window log in discrete time: `Admit`, `Reject`, the
cleanup timer (`CleanUp`, up to `Lateness` late) and `Tick`. A stamp is a time and a
serial number, because several requests may arrive in one tick.

**InputChecks** has the operators of `utils/security.ts`: a name is a sequence of tokens
(`.`, `/`, NUL, harmless text), a file a kind of header cut off after some length, and
`Accepts` is what `createJob` makes of the two. `StaysInside` is what the check of the
name is for, stated without it.

**Api** is the way of a request through one node: `Correlate`, `RefuseKey` /
`RefuseRole` / `Admit`, `StoreUpload` (multer), the outcomes of `createJob`
(`RefuseImage`, `RefuseNothing`, `CreateJob`), the other handlers, the static files of
`app.ts:12-14` (`ServeFile`, without a key), and `Finish`, the closing line of the log.
The key is looked up in an object literal (`middleware/auth.middleware.ts:70`), which
also has what every object inherits: `KeyIsFound` holds of the three keys and of a name
such as `constructor`, and `Role` and `Tier` say what the handlers then make of it (no
role, the standard tier). Handlers that wait for Redis, PostgreSQL or S3 without a timer
are `Untimed`, all other steps of a request `Timely`. `Restart` empties the ring buffer
and cuts the open requests; `ClaimJob` and `EndRun` are the worker as far as its log
lines and the upload go. `ShowLogs` is the `/logs` request with its filters.

History variables (`abandoned`, `purged`, `uploaded`, `dropped`, `ambiguous`, `starts`,
`claimed`, `rivals`, `earlier`, `wiped`, `late`, `swept`, `refused`, `stored`, `unseen`,
`cutShort`, `before`, `slipped`, `granted`, `told`, `emitted`, `cut`) record what
happened and enable no step (but for `wiped`, which keeps ids from being used again, and
`stored`, which keeps a job from being queued before its upload). The bounds inside the
models are the remaining failures `left`, `Horizon` (the last time of `RateLimiter`) and
`MaxEvents` (restarts and claims in `Api`). A definition called "Mutant of X" is X with
a plausible bug; it is used by no specification and shows that the named property
notices the difference.

## 3. Abstractions

* The job table's other columns, error texts and durations are left out. What
  `isPermanentError` decides by substring is modelled by which error each step can
  raise.
* An image is a name; its content is whether sharp can decode it.
* `attemptsMade` is counted as BullMQ does, once per run that ends with the lock.
* One slot stands for each worker's two; two slots on two nodes give the same
  interleavings and the crashes that take only one of them.
* In `Admission` Redis calls are atomic; an add may land at any time after it was sent,
  also after the client was answered.
* In `MetricsRefresher` timers fire on time. The query and the SET together take up to
  `MaxQuery`; the other Redis calls, a client's read included, take less than a tick.
  Metrics are the age of their `computedAt`. A SET that takes effect after its node gave
  it up does so at that moment (`StoreFails`, `Crash`); commands that the Redis client
  sends again after a reconnection, later still, are left out.
* In `Admission` a request outside `Valid` may or may not fail validation, so one
  instance has both; `seen` is a local of `createJob` and is 0 outside of it.
* `RateLimiter` takes `Date.now()` to be monotone.
* In `CleanAll` the queue is small enough to be obliterated in one batch and the bucket
  is one page. Uploads get names of their own, and what arrives is not turned down again
  by the checks of `createJob`. A failing call has no effect; one that took effect and
  lost its answer is that call followed by the failure of the next. Ids are not used
  again: a job the script removed does not come back.
* In `SystemViews` `GET /jobs` returns any subset of the rows (which rows are the newest
  is left open). Nothing moves between the last read of the metrics or of the health and
  their answer, which nobody could observe; between the listing of the rows, the signing
  of each key and the answer everything does. Of the aggregation the row counts and the
  distributions are kept; the breakdown by tier (`db.ts:239-246`, `295-306`) is the same
  operators on a subset of the rows.
* `Api` leaves out lines that the server logs without a request, output to the console,
  and the wording of lines; the unlink of a refused upload is assumed to succeed, and
  two uploads never get the same stored name. `GET /jobs/:id` goes by the name of `GET
  /jobs`. A request is its own fresh UUID.
* `getLogsStream` never takes its fallback to a file (lines 45-61): the `/logs` request
  has put a line of its own into the buffer before. (Nothing writes `logs/jobs.jsonl`
  either, although `src/README.md:82` says so.)

## 4. What the runs check

Passing runs:

| Run | Instance | Shows |
|---|---|---|
| `failures` | 2 jobs (the preset image, an undecodable upload), 2 nodes, 2 attempts; one fault, crash, lost lock and DELETE. 2.7 million states | `TypeOK`, `DeadLetterHasCause`, `CompletedHasThumbnail`, `QueueAndRowAgree`, `ImplementsLifecycle` |
| `retries` | 1 job, the code's 3 attempts, 2 nodes; three faults, a crash, a lost lock, a DELETE, with fairness | `RunsAreExclusive`, `ProcessorStartsAreBounded`, `EveryJobLeavesTheQueue`, `EveryRowSettles` |
| `clean_all` | the script beside a job on an upload and one on the preset image, 1 slot, 2 attempts; the upload comes at any time; a fault (also of a single key) and a crash. 2.6 million states | `CleanTypeOK`, `LeftoversAreExplained`, `CleaningSparesThePreset` |
| `admission` | four requests (standard, admin, VIP, a standard one that asks for priority 1), two uploads, one request that may be invalid, limits 1 and 2; only the timers are fair. 1.4 million states | `TypeOK`, `BacklogIsBounded`, `AnswersAreTrue`, `QueuedJobsHaveTheirUpload`, `EveryRequestIsAnswered` |
| `refresher` | 2 nodes, half-second ticks and the code's times, queries of up to 1.5 s, one failure. 1.7 million states | `TypeOK`, `OneLeader`, `CacheStaysWarm`, `FallbackIsRecent`, `MetricsRecover` |
| `rate_limiter` | 2 clients, 2 requests per window of 3 half-second ticks, a cleanup every 2 that may be 1 late, 7 ticks | `TypeOK`, `SlidingWindow`, `RetryAfterIsEnough`, `StampsAreForgotten` |
| `system_views` | 1 prioritized job with 2 attempts, one fault, crash, lost lock and DELETE, one view at a time, the list signed key by key, tables with up to 3 latencies. 2.7 million states | `ViewTypeOK`, `NoJobIsOverlooked`, `SignedUrlsWork`, `PercentilesAreOrdered`, `MeanIsInRange`, `PushdownKeepsPercentiles` |
| `api` | 2 concurrent requests of twelve kinds on one of 2 nodes, a buffer of 3 lines, 2 restarts or claims. 1.5 million states | `ApiTypeOK`, `NothingBeforeTheKey`, `IdsDoNotMix`, `RingHoldsTheNewest`, `TraceQueriesAreComplete`, `UploadsAreAccountedFor`, `OnlyImagesAreProcessed`, `EveryCallIsAnswered` |

Runs that find the code at odds with what the repository says of it:

| Run | Property | Behaviour |
|---|---|---|
| `lost_update` | `DeadLettersAreDeserved` | the completing query fails after the input was deleted; the retry fails for good with "not found" |
| `failed_without_row` | `FailedJobsAreQuarantined` | every attempt fails in `insertJob`; no row records the failure |
| `delete_running` | `ClearedJobsLeaveNoObject` | DELETE during a run; the thumbnail is uploaded afterwards and stays |
| `stuck_row` | `UnfinishedWorkIsNeverLost` | a node dies between the final failure and its record; the row stays in progress |

Two more sentences of the documentation are not what the code does; the models show why,
without a run of their own:

* `src/README.md:62`: "Enforces hard queue capacity limits". A retried or stalled job
  re-enters the queue without a check (`EndBackoff` in `Admission` has no guard on the
  limits), so even requests that never overlap can overfill it. `BacklogIsBounded`
  states the bound that holds, for new jobs.
* `src/README.md:72`: "Exactly 1 query runs every 4s across the cluster". A node whose
  query is fast finds its own lock of 4.5 s still taken at 4 s, and sleeps another
  interval: the cache is refreshed about every 8 s. `CacheStaysWarm` needs `2 *
  REFRESH_INTERVAL + MaxQuery < CACHE_TTL` for that reason.

And one more while the views were modelled: `src/learnings.md:1868` has the metrics'
window include all pending and active rows; the statement of `db.ts:248-250` filters by
`created_at` alone. `NoJobIsOverlooked` therefore excepts rows that are older than the
window.

What the properties of the new runs say, in short:

* `LeftoversAreExplained`: when the script is done, every job, row, object and file that
  is left belongs to a job that was running when the queue was obliterated or came
  later, or to a part that failed, or is an object that S3 did not delete or an upload
  stored after the listing of `uploads/`. An upload that came in time is gone.
  `CleaningSparesThePreset`: a job on the preset image never fails because the script
  ran, nor does one on an upload that came after the listing.
* `NoJobIsOverlooked`: each job that was there when `/metrics` was asked is in one of
  its counts, because the counts are read in the order in which jobs move. The
  exceptions are named: jobs that moved back (a retry, a redelivery), jobs that ended
  without a row, deleted rows, rows outside the window. The health check reads in the
  opposite order and does not have this property (`MetricsReadsRowsFirst`).
* `SignedUrlsWork`: neither `GET /jobs` nor the signing asks the bucket, and the rows
  are not read again while keys are signed; a URL leads to an object because DELETE
  removes the row before the object, and a run records its key after the PUT. Rows
  deleted since the listing are excepted, and rows that came back after a DELETE, whose
  object may still be removed late.
* `PercentilesAreOrdered`: p50, p95 and p99 are in order and between the extremes,
  although each is rounded for itself; `MeanIsInRange` is the same for the mean.
* `PushdownKeepsPercentiles`: what PostgreSQL interpolates lies between the neighbours
  of the value that `calculatePercentile` would have picked.
* `SlidingWindow`: at most `maxReqs` requests in every window of the length, not only in
  those that start at a request. `RetryAfterIsEnough`: waiting as long as `Retry-After`
  says is enough. `StampsAreForgotten`: the map does not grow.
* `NothingBeforeTheKey`: no upload and no job unless the lookup in `API_KEYS` found the
  key, and no DELETE or log query without the administrator's. "Found" is weaker than
  "one of the three keys": the names that every object inherits are found as well. Files
  are served without a key. `IdsDoNotMix`: an id in a log line or a job is that of its
  own request. `RingHoldsTheNewest`: the buffer is the last `Capacity` lines of its
  node. `TraceQueriesAreComplete`: a query returns exactly the newest matching lines
  among the last `Capacity`. `UploadsAreAccountedFor`: an upload stays only for a job,
  an open request, a 403 or 503 of `createJob`, or a cut request: the 403 and 503 are
  the leak listed in the hazards. `OnlyImagesAreProcessed`: the name of a job is an
  entry of `uploads/`, neither a path nor `.` or `..`, and what is under it passed
  `validateImageMagicBytes` or is not there (yet). `EveryCallIsAnswered`: while Redis,
  PostgreSQL and S3 are silent, every request is answered but those let in to the lists,
  the health check, the metrics of a window and DELETE, which have no timer.
* `FallbackIsRecent`: the age, counted from `computedAt`, of what a node keeps is
  bounded although it copies metrics that may have waited for their SET.

### Bounds

Two jobs are needed for sharing an image, and properties of one job are not affected by
a third that can only share what the second shares. Two slots on two nodes are needed
for a redelivery to overlap the run that lost its lock. Two attempts are enough for
every retry path; `retries` has the code's three. One failure of each kind in any order
reaches every error path and every pair of them; `retries` adds three errors in a row.
(`QueueAndRowAgree` and `ImplementsLifecycle` are checked with two jobs in `failures`
and proved for all.) `MaxStalled` is BullMQ's default, 1. Limits of one and two tell the
tiers apart, and three requests overfill either. The cleanup script needs one job on an
upload and one on the preset image; the upload may come before, between or after the
calls of the script; a crash and a fault reach every catch block and every state of a
run. A view reads about jobs independently of each other, so one job that takes every
path is enough; it is in the prioritized set because that is the structure that adds a
call. Three latencies from {0, 1, 40} give ties, a value between neighbours and both
kinds of rounding. Two requests are enough to confuse two ids, and a buffer of three
lines overflows with them; the twelve kinds cover every key, header, body and route that
the middleware tells apart, an inherited name and a file among them. Names of up to four
tokens cover every test of `validatePathSafety`. A window of three ticks with seconds of
two makes `Math.ceil` matter, and seven ticks are two windows and a cleanup. The
refresher's instance is the code's own numbers, with one failure: what several can do
together is `OneLeader`, `MetricsGoBackLittle` and `MetricsRecoverInTime`, which are
proved for any number. The proofs cover other times as well. Safety theorems (section 5)
do not depend on any of these bounds.

`CHECK_DEADLOCK FALSE` is set where everything may have been done: all jobs ended and
the failure budget is spent. The refresher never stops.

### Fairness

`JobSystem`: an event loop runs what is due (`SlotStep`: sharp, S3 and the queries
return in the end, with an answer or an error; the listener's query), waiting jobs are
claimed while a slot is free, the backoff ends, and BullMQ's sweep runs every 30 s on
every node. Requests, crashes and lost locks are not fair. Weak fairness per job in
`ClaimJob` excludes starvation by priority, which the queue does not exclude under a
steady stream of VIP jobs.

`Admission`: only the two `setTimeout`s of `createJob`. Redis may never answer.

`Api`: only what is `Timely`. The event loop gets to a request that has arrived, the
disk answers, timers fire (the cached metrics are raced against 500 ms; `createJob`'s
two timers are module `Admission`'s subject), and Node's own request timeout closes an
upload that never ends. Redis, PostgreSQL and S3 may stay silent for ever:
`maxRetriesPerRequest` is null, and the pool of `db.ts` has no timeout. Clients, workers
and restarts are not fair.

`MetricsRefresher`: time passes, a due cycle runs, a query ends and its SET is answered
(late, if it overruns), docker restarts a node. No client has to read.

## 5. What is proved

`JobSystemProofs`, for any sets of jobs, slots, nodes and images, any number of attempts
and any failure budget:

* `TypeCorrect`.
* `RunsAreExclusiveTheorem`: inductive as stated, with the types.
* `ProcessorStartsAreBoundedTheorem`: by `StartsInv`. The starts of a job are covered by
  its finished attempts, its stalls and the run under way; an unfinished job has
  attempts left; and a job given up is not started again.
* `DeadLetterHasCauseTheorem`: by `CauseInv`. An input that is gone was `Replaced` by an
  uploaded thumbnail, and a slot on its way to a final failure has a reason for it that
  no later step takes away (`HopelessIsForGood`).
* `CompletedHasThumbnailTheorem`: by `ThumbnailInv`. A slot between the PUT and the
  completing query has its object in the bucket, and DELETE handlers only delete objects
  of removed rows.
* `QueueAndRowAgreeTheorem`: by `AgreeInv`. A slot that has inserted its row still finds
  it, a slot about to report a completion has recorded it, and pending listeners belong
  to failed or abandoned jobs.
* `LocksAreHeldByRunsTheorem`: inductive as stated, with the types. No active job is
  forgotten: the slot that has its lock runs it, or nobody has its lock and the sweep
  may take it back.
* `EveryRunComesToAnEnd`, what liveness rests on. The `Rank` of a job is 18 times the
  attempts and the failures it can still use up, plus the steps to the end of the
  current round (`ToGo`). Every step of the system lowers the rank of each job it does
  anything to, and none raises one; a slot that lost its lock comes nearer the end of
  its run as well. A job makes finitely many steps, then, whatever the other actors do.
  `EveryJobLeavesTheQueue` follows on paper: by `LocksAreHeldByRuns` one of the fair
  actions is enabled as long as the job has not ended, and it lowers a natural number.
  `ENABLED` and fairness are out of the provers' reach, so that step stays with TLC.

`AdmissionProofs`, for any finite set of requests, tiers and limits:

* `AdmissionTypeCorrect`, `AnswersAreTrueTheorem`, `QueuedJobsHaveTheirUploadTheorem`.
* `BacklogIsBoundedTheorem`: by `CountInv` and `ChainInv`. Jobs of requests that closed
  before a count began cannot escape it although it is taken in two parts (they can only
  move towards the part counted later, or be claimed), so they are fewer than the limit.
  Among the jobs of a backlog the one that began to count last knew all others, as
  closed or as rivals; so the backlog is below the limit plus its rivals.

`MetricsRefresherProofs`, for any cluster and any times with `LOCK_TTL <= 2 *
REFRESH_INTERVAL` and `2 * REFRESH_INTERVAL + MaxQuery < CACHE_TTL`:

* `RefresherTypeCorrect`.
* `OneLeaderTheorem`: by `LockInv`, a leader's lock is younger than its query.
* `CacheStaysWarmTheorem`: by `WarmInv`. While nothing fails and the cache is warm, some
  query is certain to end before the cache expires: one under way, or that of a sleeping
  node that will find the lock free when it wakes up or, at the latest, one interval
  later. Whoever takes the lock before it inherits the certainty.
* `FallbackIsRecentTheorem`: by `CacheAgeInv` (the cached metrics were at most
  `MaxQuery` old when they were stored) and `AgeInv`, age plus remaining sleep of a node
  that copied them.
* `MetricsGoBackLittle`, an action property, with or without failures. Metrics can go
  back: the SET of a leader that has lost its lock, or of one of two nodes that prewarm
  at once, overwrites fresher ones. But what a client sees on one node is replaced by
  metrics that are older by `MaxQuery` at most while nothing has failed, and by
  `LongQuery` at most after that. By `CacheLagsLittle`: the cache is never older by more
  than that than what any node remembers or is about to remember, because whatever
  overwrites it was computed no longer ago.
* `MetricsRecoverInTime`, what `MetricsRecover` rests on, after any failures. With a
  node up there is a deadline (`StoredWithin`): a SET under way takes effect by then, or
  a node that sleeps, or will when a late answer has come, wakes up by then, at the
  latest for the third time, and finds the lock free or somebody else computing. A step
  that is no failure keeps to every deadline, and no tick passes one. What is stored
  lives until the next deadline (`SafelyWarm`), so the cache is warm within `LongQuery +
  LOCK_TTL + REFRESH_INTERVAL + MaxQuery` of the last failure (16 s with the times of
  the `refresher` run) and for ever after. That time goes on, and that docker restarts a
  node, is the fairness that stays with TLC.

`RateLimiterProofs`, for any clients, limit, window, second and cleanup period:

* `RateLimiterTypeCorrect`.
* `SlidingWindowTheorem`: by `LogIsTrue` and `WindowsAreBounded`. The filtered log is
  exactly what the history granted inside the window that ends now; a grant adds to
  windows that end now or later, of which that one contains the most.
* `RetryAfterIsEnoughTheorem`: by `WaitsSuffice`. When a client is told to wait, the
  oldest of at most `MaxReqs` stamps is outside the window at that time.
* `StampsAreForgottenTheorem`: by `StampsAreFresh`, age less than a window plus the time
  since the last cleanup.
* `DecisionsAreExactTheorem`, an action property and the converse of the two above: the
  limiter refuses nobody who has a place. A request is refused only when exactly
  `MaxReqs` were granted in the window that ends now, and a client that comes back a
  second or more before its `Retry-After` would still be refused. By `LogIsTrue`, and
  because the stamps leave the window in the order in which they entered it
  (`OldestGoesFirst`).

`JobLifecycleProofs`, for the same values:

* `JobSystemImplementsLifecycle`, the refinement. The invariant is `OrderlyInv` beside
  `AgreeInv`: an undisturbed job never stalled, is run only by the slot that holds its
  lock, and its row, unless it was deleted, reads what goes with the queue's state and
  with where that slot is. Each step of `JobSystem` is of one of three kinds: it changes
  one undisturbed job at most (`Moves`, which maps to `Start`, `Settle` or a stutter),
  it disturbs jobs (`Disturbs`: a crash, a lost lock, an ambiguous query), or it only
  removes rows (`Removes`).

`SystemViewsProofs`, for any jobs and any samples of latencies:

* `ViewsOnlyWatch`: `ViewSpec` implements `Spec`, so that every theorem about
  `JobSystem` holds while it is watched, and the proofs below use them.
* `ViewTypeCorrect`: with `PlaceInv` (a request is at one of the places its kind goes
  to) and `SubmittedInv` (what has a row or a run was submitted).
* `SignedUrlsWorkTheorem`: by `KeyInv`, the same fact about the rows, and `LinkInv`,
  about what is listed or signed: it holds when the rows are read, and every step of the
  system between the listing and the answer keeps it, because an object that disappears
  was that of a purged row (`ObjectsGoWithTheirRows`).
* `NoJobIsOverlookedTheorem`: by `ReadInv`. What has not been counted is `Ahead` of the
  next read, for each of the five; a job that leaves what is ahead `Slips`, or its row
  was deleted.
* `PercentilesAreOrderedTheorem` and `PushdownKeepsPercentilesTheorem`: by lemmas about
  `percentile_cont` for any ascending sample (interpolation is monotone within a gap and
  from one gap to the next, and rounding keeps the order).
* `MeanIsInRangeTheorem`: by `TotalIsBounded`, the total of a sample lies between its
  length times the least and its length times the greatest value, by induction on the
  length; and rounding keeps a value between two whole numbers (`RoundUpIsBetween`).

`CleanAllProofs`, for any jobs, slots, nodes and failures. `CleanSpec` does not
implement `Spec` (the script empties the queue, which `Spec` never does), so no theorem
is inherited. What is used of `JobSystemProofs` and `JobLifecycleProofs` is the lemmas
about the steps of `Next`; the steps of the script are proved here.

* `CleanTypeCorrect`.
* `CleaningSparesThePresetTheorem`: by `SparingInv`, which is `CauseInv` with one more
  way to lose an upload: the script removes what it has listed, and neither the preset
  image nor an upload that came after the listing is listed (`SweepInv`). A job is
  queued after its upload came, so that none runs too early.
* `LeftoversAreExplainedTheorem`: by `LeftInv`. Once the queue is obliterated, only late
  jobs are queued or run (`QueueIsLate`), and rows, objects and output files are made by
  runs only; so after each part of the script what it took care of is late, or still to
  be removed, or was refused by S3 (`RowsAreLate`, `ObjectsAreLate`, `OutputsAreLate`),
  and the uploads are still to be removed or came after the listing (`UploadsAreGone`).
* `CleaningSparesTheOthers` and `CleanSystemImplementsLifecycle`: for the jobs that the
  script did not take out of the queue, runs stay exclusive, queue and row agree, and
  the row is the life cycle of `JobLifecycle`, while the script deletes all rows under
  their retries. The invariant is that of `JobLifecycleProofs` (`LifecycleInv`). Queue
  and table see three kinds of calls of the script: jobs leave the queue
  (`EmptiesQueue`, which disturbs them and no other), rows leave the table
  (`EmptiesTable`, which is `Remove`), or neither changes. Nothing is promised of the
  jobs it took out: their retries are gone, and a run that had begun may still write its
  row.

`ApiProofs`, for any requests, nodes, calls, names, capacities and numbers of restarts:

* `KeyTheorem`, `IdTheorem` and `UploadTheorem`, by one invariant (`IInv`): how far a
  request has come (`Fine`) says what it can have done, and each line carries the id of
  the request that wrote it (`Lines`).
* `ImagesTheorem`: inductive with `IInv`; `TakenAreImages` is what
  `validateImageMagicBytes` does to every header cut off anywhere, and what
  `validatePathSafety` and the test for a directory do to every name.
* `RingTheorem`: inductive as stated; `PushedIsRecent` is one push.
* `SearchTheorem`: by `RingTheorem`, an answer of `GET /logs` is `Search` of exactly the
  newest `Capacity` lines.
* `TraceTheorem`: with that, `TraceQueriesAreComplete`. `MatchingFindsTheHits` says what
  the filter of `getLogsStream` keeps of a buffer of any length (all matching lines, no
  other, in their order), by induction on the length, and `HighestHits` that the end of
  that sequence is the newest of them (`SearchIsComplete`).
* `ApiTypeCorrect`.

Two of these theorems need induction over data, over the length of a sample and of a
buffer. The induction theorems of the library take an operator as a parameter, which the
provers cannot instantiate; `InductiveSet` (in `SystemViewsProofs` and `ApiProofs`) says
the same of a set: one that has 0, and with every number below a bound its successor,
has all numbers up to the bound. `Total` and `Matching` are recursive functions on the
numbers up to the length, and each of them is shown to satisfy its equation first.

The assumptions are those declared in the modules (`QueueAssumption`, `FileAssumption`,
`WorkerAssumption`, `AdmissionAssumption`, `RefresherAssumption`,
`RateLimiterAssumption`, `ViewAssumption`, `CleanAssumption`, `ApiAssumption`); the runs
evaluate them on their instances.

The theorems about shared uploads are `DeadLetterHasCauseTheorem` and
`CompletedHasThumbnailTheorem`: `ImageOf` is any function, so two jobs may name one
image.

Only model-checked: the five liveness properties (`EveryJobLeavesTheQueue`,
`EveryRowSettles`, `EveryRequestIsAnswered`, `MetricsRecover`, `EveryCallIsAnswered`).
TLAPS proves neither fairness nor `ENABLED`; `EveryRunComesToAnEnd` and
`MetricsRecoverInTime` are the parts of the first and the fourth that need neither.
Every invariant of the passing runs, and `ImplementsLifecycle`, is a theorem.

## 6. What is not modelled

* `findInFlightJobByImage` and `recoverJobsFromDatabase` (db.ts), which nothing calls;
  `computeDistribution` beyond its percentile, for the same reason.
* Of the metrics the throughput, the success rate and the breakdown by tier: arithmetic
  on counts that are modelled.
* The signature and the expiry of presigned URLs; the output of log lines to the console
  and to files.
* The dashboard (`public/index.html`) and the test and load scripts: clients that call
  the API and print what they get. They hold no state of the system. Several of them
  send no `X-API-Key` and get nothing but 401.
* Express, multer, BullMQ, ioredis, pg, sharp and PostgreSQL are external; what this
  program uses of them is modelled as its code relies on it.
* The contents of images and thumbnails, error texts and times.

## 7. Plan

Done: the life of a job with its abstract specification and the proof that it is
implemented, by the system alone and beside the cleanup script; admission; the
refresher; the rate limiter; the views and their statistics; the path of a request with
its trace; the cleanup script; a theorem for every safety property that a passing run
checks.

What could follow:

1. **A deadline for every client**, like `MetricsRecoverInTime`: `Admission` with the
   times of its two timers, and `Api` with what a request has still to do.
2. **A stronger life cycle beside the cleanup script**: a job that had ended, and that
   no slot ran any more when the script took it out of the queue, could be promised that
   its row stays as it is or goes. It takes a history of which jobs had ended.
