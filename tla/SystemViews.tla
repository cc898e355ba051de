---------------------------- MODULE SystemViews -----------------------------
(***************************************************************************)
(* What the server shows of the jobs, taken while they move: GET /metrics  *)
(* (src/src/metrics.ts), GET /health and GET /jobs.  Each of them is a     *)
(* series of calls to Redis and PostgreSQL, and the system of module       *)
(* JobSystem takes any number of steps between two of them.                *)
(*                                                                         *)
(* A count is kept as the set of jobs that it counts.                      *)
(***************************************************************************)
EXTENDS JobSystem, Distribution

CONSTANTS
    Prioritized,  \* the jobs BullMQ keeps in the prioritized set
    Samples       \* the latencies that the rows of the table may hold

ASSUME ViewAssumption ==
    /\ Prioritized \subseteq Jobs
    /\ \A v \in Samples : v \in Seq(Nat) /\ Ascending(v)

VARIABLES
    view,      \* what is being asked for, "none" between two requests
    at,        \* the next structure to read
    windowed,  \* the metrics are limited to windowHours
    counted,   \* the jobs that are in some count so far, or in the list
    latencies, \* the latencies found in the rows
    listed,    \* the listed rows whose key is still to be signed
    signed,    \* the listed rows whose key has become a URL
    old,       \* the jobs whose row is older than the window
    before,    \* history: the jobs there were when the request came
    slipped    \* history: jobs that went back to the queue, or ended without
               \* a row, while the request was served

sampleVars == <<view, at, windowed, counted, latencies, listed, signed, before>>
viewVars   == <<sampleVars, old, slipped>>
allVars    == <<vars, viewVars>>

Structure == {"waiting", "prioritized", "active", "delayed", "rows"}

ViewTypeOK ==
    /\ view \in {"none", "metrics", "health", "list"}
    /\ at \in Structure \cup {"start", "signing", "done"}
    /\ at = "start" <=> view = "none"
    /\ windowed \in BOOLEAN
    /\ before \subseteq Jobs
    /\ counted \subseteq before \cup {j \in Jobs : qstate[j] # "none"}
    /\ latencies \in Samples \cup {<<>>}
    /\ listed \subseteq counted /\ signed \subseteq counted /\ listed \cap signed = {}
    /\ old \subseteq {j \in Jobs : HasRow(j)}
    /\ slipped \subseteq Jobs

Idle ==
    /\ view = "none" /\ at = "start" /\ windowed = FALSE
    /\ counted = {} /\ latencies = <<>> /\ listed = {} /\ signed = {} /\ before = {}
    /\ slipped = {}

ViewInit == Init /\ Idle /\ old = {}

-----------------------------------------------------------------------------
(* The order in which each request reads.                                  *)

\* Mutant of MetricsReads: the rows first, as in the health check.
MetricsReadsRowsFirst ==
    [start |-> "rows", rows |-> "waiting", waiting |-> "prioritized",
     prioritized |-> "active", active |-> "delayed", delayed |-> "done"]

MetricsReads ==
    [start |-> "waiting", waiting |-> "prioritized", prioritized |-> "active",
     active |-> "delayed", delayed |-> "rows", rows |-> "done"]

HealthReads ==
    [start |-> "rows", rows |-> "waiting", waiting |-> "prioritized",
     prioritized |-> "active", active |-> "done"]

\* The list has its keys signed after the rows are read.
ListReads == [start |-> "rows", rows |-> "signing", signing |-> "done"]

NextRead(v) ==
    CASE v = "metrics" -> MetricsReads
      [] v = "health"  -> HealthReads
      [] v = "list"    -> ListReads

-----------------------------------------------------------------------------

\* windowHours: the cached metrics and a number of hours limit the rows, and
\* everything that is not a positive number does not.
Ask(v, limited) ==
    /\ view = "none"
    /\ limited => v = "metrics"
    /\ view' = v
    /\ at' = NextRead(v)["start"]
    /\ windowed' = limited
    /\ before' = {j \in Jobs : qstate[j] \in {"waiting", "active", "delayed"} \/ HasRow(j)}
    /\ UNCHANGED <<counted, latencies, listed, signed, vars, old, slipped>>

\* getWaitingCount, getPrioritizedCount, getActiveCount and getDelayedCount.
InStructure(structure) ==
    {j \in Jobs :
        \/ structure = "waiting" /\ qstate[j] = "waiting" /\ j \notin Prioritized
        \/ structure = "prioritized" /\ qstate[j] = "waiting" /\ j \in Prioritized
        \/ structure = qstate[j] /\ structure \in {"active", "delayed"}}

CountQueue ==
    /\ at \in Structure \ {"rows"}
    /\ counted' = counted \cup InStructure(at)
    /\ at' = NextRead(view)[at]
    /\ UNCHANGED <<view, windowed, latencies, listed, signed, before, vars, old, slipped>>

\* The rows of one statement: COUNT(*) over the window, COUNT(*), or a page of
\* the newest rows.
RowsOf(page) ==
    {j \in Jobs : HasRow(j)} \cap
        (IF view = "list" THEN page ELSE IF windowed THEN Jobs \ old ELSE Jobs)

\* Only the list signs, and only the rows that have a thumbnail.
ToSign(rows) == IF view = "list" THEN rows \cap thumbnail ELSE {}

ReadRows ==
    /\ at = "rows"
    /\ \E page \in SUBSET Jobs, v \in Samples :
          /\ counted' = counted \cup RowsOf(page)
          /\ listed' = ToSign(RowsOf(page))
          /\ latencies' = IF view = "metrics" THEN v ELSE <<>>
    /\ at' = NextRead(view)[at]
    /\ UNCHANGED <<view, windowed, signed, before, vars, old, slipped>>

\* Promise.all over the rows: each key is signed for itself, from the row as it
\* was listed, and one that cannot be signed is answered as it is.
Sign(j) ==
    /\ at = "signing" /\ j \in listed
    /\ listed' = listed \ {j}
    /\ signed' \in {signed, signed \cup {j}}
    /\ UNCHANGED <<view, at, windowed, counted, latencies, before, vars, old, slipped>>

AllSigned ==
    /\ at = "signing" /\ listed = {}
    /\ at' = NextRead(view)[at]
    /\ UNCHANGED <<view, windowed, counted, latencies, listed, signed, before, vars, old, slipped>>

\* Mutant of Answer: the URLs are kept for the next request.
AnswerFromCache ==
    /\ view # "none"
    /\ view' = "none" /\ at' = "start" /\ windowed' = FALSE
    /\ counted' = {} /\ latencies' = <<>> /\ listed' = {} /\ before' = {} /\ slipped' = {}
    /\ UNCHANGED <<vars, old, signed>>

\* The answer, or a 500 because a call failed.
Answer ==
    /\ view # "none"
    /\ view' = "none" /\ at' = "start" /\ windowed' = FALSE
    /\ counted' = {} /\ latencies' = <<>> /\ listed' = {} /\ signed' = {} /\ before' = {}
    /\ slipped' = {}
    /\ UNCHANGED <<vars, old>>

\* A row leaves the window.
Age(j) ==
    /\ at # "done"
    /\ HasRow(j) /\ j \notin old
    /\ old' = old \cup {j}
    /\ UNCHANGED <<vars, sampleVars, slipped>>

\* What a request in progress can miss.
Slips(j) ==
    \/ qstate[j] \in {"active", "delayed"} /\ qstate'[j] = "waiting"
    \/ qstate'[j] \in {"completed", "failed"} /\ status'[j] = "absent"

\* What happens after the last read of the metrics and of the health no longer
\* shows.  A list hands out URLs, which have to lead somewhere when they are used.
SystemStep ==
    /\ at = "done" => view = "list"
    /\ Next
    /\ old' = {j \in old : status'[j] # "absent"}
    /\ slipped' = IF view = "none" THEN slipped ELSE slipped \cup {j \in Jobs : Slips(j)}
    /\ UNCHANGED sampleVars

ViewNext ==
    \/ \E v \in {"metrics", "health", "list"}, limited \in BOOLEAN : Ask(v, limited)
    \/ CountQueue
    \/ ReadRows
    \/ \E j \in Jobs : Sign(j)
    \/ AllSigned
    \/ Answer
    \/ \E j \in Jobs : Age(j)
    \/ SystemStep

ViewSpec == ViewInit /\ [][ViewNext]_allVars

-----------------------------------------------------------------------------

\* The metrics overlook no job: whatever moves between the five calls, a job
\* that was there when they began is in one of the counts, because a job moves
\* from one structure to the next in the order in which they are read.  The
\* exceptions are jobs that went back to the queue or ended before they had a
\* row, deleted rows, and rows outside the window that was asked for.
NoJobIsOverlooked ==
    view = "metrics" /\ at = "done" =>
        before \subseteq counted \cup slipped \cup purged \cup (IF windowed THEN old ELSE {})

\* A listed thumbnail's URL leads to an object for as long as the request takes,
\* although neither GET /jobs nor the signing asks the bucket, and the rows are
\* not read again: DELETE removes the row before the object, and no run has its
\* key recorded before its PUT.  The exceptions are rows that a DELETE removed
\* since they were listed, and rows that came back after one, which has their
\* object removed late: a listed row that is in purged is one of these.
SignedUrlsWork == signed \subseteq objects \cup purged

\* The percentiles of one distribution are in order, although each of them is
\* interpolated and rounded for itself.
PercentilesAreOrdered ==
    LET p50 == percentile_cont(latencies, Fractions.p50)
        p95 == percentile_cont(latencies, Fractions.p95)
        p99 == percentile_cont(latencies, Fractions.p99)
    IN  Smallest(latencies) <= p50 /\ p50 <= p95 /\ p95 <= p99 /\ p99 <= Largest(latencies)

\* The rounded mean is between the smallest and the largest latency.
MeanIsInRange == Mean(latencies) \in Smallest(latencies)..Largest(latencies)

\* Having PostgreSQL compute the percentiles moved none of them past its
\* neighbours: the value calculatePercentile would have taken is one of the two
\* that percentile_cont interpolates between.
PushdownKeepsPercentiles ==
    \A field \in DOMAIN Fractions :
        latencies # <<>> =>
            LET p  == Fractions[field]
                at100 == Position(Len(latencies), p)
            IN  /\ NearestRank(Len(latencies), p) \in DOMAIN latencies
                /\ calculatePercentile(latencies, p) \in
                      {latencies[at100 \div 100], latencies[(at100 + 99) \div 100]}

=============================================================================
