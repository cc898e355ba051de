----------------------------- MODULE Admission ------------------------------
(***************************************************************************)
(* POST /jobs: createJob of src/src/controllers/jobs.controller.ts decides *)
(* whether a request becomes a job of the BullMQ queue.  It validates the  *)
(* image, derives the priority from the client's tier, counts the waiting  *)
(* jobs with two separate Redis calls, compares the sum with the limit of  *)
(* the tier and adds the job with a third call;  the calls race against    *)
(* timers, and any number of requests is between two calls at a time.      *)
(*                                                                         *)
(* The worker side of the queue appears as far as the counts can tell:     *)
(* jobs are claimed, retried after a backoff, redelivered when they stall, *)
(* and end.  Module JobSystem has the rest of their life.                  *)
(***************************************************************************)
EXTENDS Integers, FiniteSets

CONSTANTS
    Requests,                \* the requests that clients may send
    Role,                    \* req.user.role of each request
    Asked,                   \* the priority in its body, NotANumber if none
    NotANumber,              \* what parseInt makes of anything else
    Valid,                   \* the requests whose image passes validation;  of the
                             \* others it may or may not (it depends on the disk)
    Image,                   \* the name of its image in uploads/
    Uploads,                 \* the requests that carry the file themselves
    MAX_QUEUE_CAPACITY,
    MAX_VIP_QUEUE_CAPACITY

ASSUME AdmissionAssumption ==
    /\ IsFiniteSet(Requests)
    /\ Role \in [Requests -> {"standard", "vip", "admin"}]
    /\ Asked \in [Requests -> Int \cup {NotANumber}]
    /\ NotANumber \notin Int
    /\ Valid \subseteq Requests
    /\ Uploads \subseteq Requests
    /\ \A r, q \in Uploads : r # q => Image[r] # Image[q]
    /\ MAX_QUEUE_CAPACITY \in Nat
    /\ MAX_VIP_QUEUE_CAPACITY \in Nat

VARIABLES
    pc,       \* where the handler of each request is
    answer,   \* the response the client got
    seen,     \* the waiting jobs its first count returned, 0 before and after
    job,      \* where the job of each request is
    stored,   \* the uploaded images on disk
    claimed,  \* history: jobs that some worker has claimed
    rivals,   \* history: the open requests when this one began to count
    earlier   \* history: the requests that had counted and closed by then

requestVars == <<pc, answer, seen>>
historyVars == <<rivals, earlier>>
vars == <<requestVars, job, stored, claimed, historyVars>>

PC == {"new", "counting waiting", "counting prioritized", "adding", "answered"}

Answer == {"none", "201", "400", "403", "503 limit", "503 unavailable"}

\* "sent": the add command is on its way to Redis.  The others are BullMQ's.
JobState == {"none", "sent", "wait", "prioritized", "active", "delayed", "ended"}

TypeOK ==
    /\ pc \in [Requests -> PC]
    /\ answer \in [Requests -> Answer]
    /\ seen \in [Requests -> Nat]
    /\ job \in [Requests -> JobState]
    /\ stored \in SUBSET {Image[r] : r \in Uploads}
    /\ claimed \in SUBSET Requests
    /\ rivals \in [Requests -> SUBSET Requests]
    /\ earlier \in [Requests -> SUBSET Requests]

Init ==
    /\ pc = [r \in Requests |-> "new"]
    /\ answer = [r \in Requests |-> "none"]
    /\ seen = [r \in Requests |-> 0]
    /\ job = [r \in Requests |-> "none"]
    /\ stored = {}
    /\ claimed = {}
    /\ rivals = [r \in Requests |-> {}]
    /\ earlier = [r \in Requests |-> {}]

-----------------------------------------------------------------------------
(* The tiers.                                                              *)

\* Only an administrator chooses, 0 included: "no priority" to BullMQ.
Priority(r) ==
    CASE Role[r] = "vip"                              -> 1
      [] Role[r] = "admin" /\ Asked[r] # NotANumber   -> Asked[r]
      [] OTHER                                        -> 5

Forbidden(r) == Role[r] = "standard" /\ Asked[r] = 1

Limit(r) ==
    IF Priority(r) = 1 THEN MAX_VIP_QUEUE_CAPACITY ELSE MAX_QUEUE_CAPACITY

\* BullMQ keeps jobs without a priority in a list of their own.
WaitingState(r) == IF Priority(r) = 0 THEN "wait" ELSE "prioritized"

\* What getWaitingCount and getPrioritizedCount count.
In(state) == {r \in Requests : job[r] = state}

\* The requests that may still add a job after a count they began.
Open ==
    {r \in Requests : \/ pc[r] \in {"counting prioritized", "adding"}
                      \/ job[r] = "sent"}

\* The requests that ever began to count.
Counted == {r \in Requests : r \in rivals[r]}

-----------------------------------------------------------------------------
(* The handler.                                                            *)

Respond(r, what) ==
    /\ pc' = [pc EXCEPT ![r] = "answered"]
    /\ answer' = [answer EXCEPT ![r] = what]
    /\ seen' = [seen EXCEPT ![r] = 0]

\* multer stores the file, then createJob runs up to its first await.  A file
\* that fails validation is removed again;  the one of a forbidden request stays.
Receive(r) ==
    LET file == IF r \in Uploads THEN {Image[r]} ELSE {}
    IN  /\ pc[r] = "new"
        /\ \/ /\ r \notin Valid
              /\ Respond(r, "400")
              /\ UNCHANGED stored
           \/ /\ Forbidden(r)
              /\ Respond(r, "403")
              /\ stored' = stored \cup file
           \/ /\ ~Forbidden(r)
              /\ pc' = [pc EXCEPT ![r] = "counting waiting"]
              /\ stored' = stored \cup file
              /\ UNCHANGED <<answer, seen>>
        /\ UNCHANGED <<job, claimed, historyVars>>

\* Mutant of CountWaiting: leaves a job of its own out that is not there yet.
CountWaitingLessOne(r) ==
    /\ pc[r] = "counting waiting"
    /\ pc' = [pc EXCEPT ![r] = "counting prioritized"]
    /\ seen' = [seen EXCEPT ![r] = Cardinality(In("wait")) - 1]
    /\ rivals' = [rivals EXCEPT ![r] = Open \cup {r}]
    /\ earlier' = [earlier EXCEPT ![r] = Counted \ Open]
    /\ UNCHANGED <<answer, job, stored, claimed>>

\* await imageQueue.getWaitingCount()
CountWaiting(r) ==
    /\ pc[r] = "counting waiting"
    /\ pc' = [pc EXCEPT ![r] = "counting prioritized"]
    /\ seen' = [seen EXCEPT ![r] = Cardinality(In("wait"))]
    /\ rivals' = [rivals EXCEPT ![r] = Open \cup {r}]
    /\ earlier' = [earlier EXCEPT ![r] = Counted \ Open]
    /\ UNCHANGED <<answer, job, stored, claimed>>

\* Mutant of CountPrioritized: learnings.md's first version of the sensor,
\* which looks at the wait list alone.
CountPrioritizedBlind(r) ==
    /\ pc[r] = "counting prioritized"
    /\ \/ /\ seen[r] >= Limit(r)
          /\ Respond(r, "503 limit")
          /\ UNCHANGED job
       \/ /\ seen[r] < Limit(r)
          /\ pc' = [pc EXCEPT ![r] = "adding"]
          /\ job' = [job EXCEPT ![r] = "sent"]
          /\ seen' = [seen EXCEPT ![r] = 0]
          /\ UNCHANGED answer
    /\ UNCHANGED <<stored, claimed, historyVars>>

\* await imageQueue.getPrioritizedCount(), and everything up to imageQueue.add.
CountPrioritized(r) ==
    LET waitingCount == seen[r] + Cardinality(In("prioritized"))
    IN  /\ pc[r] = "counting prioritized"
        /\ \/ /\ waitingCount >= Limit(r)
              /\ Respond(r, "503 limit")
              /\ UNCHANGED job
           \/ /\ waitingCount < Limit(r)
              /\ pc' = [pc EXCEPT ![r] = "adding"]
              /\ job' = [job EXCEPT ![r] = "sent"]
              /\ seen' = [seen EXCEPT ![r] = 0]
              /\ UNCHANGED answer
        /\ UNCHANGED <<stored, claimed, historyVars>>

\* Mutant of CountFails: no timer, and Redis always answers without an error.
CountFailsNever(r) ==
    /\ FALSE
    /\ UNCHANGED vars

\* A count throws, or 1500 ms are over before both are there.
CountFails(r) ==
    /\ pc[r] \in {"counting waiting", "counting prioritized"}
    /\ Respond(r, "503 unavailable")
    /\ UNCHANGED <<job, stored, claimed, historyVars>>

\* Mutant of Added: answers without awaiting the add.
AddedTooSoon(r) ==
    /\ pc[r] = "adding"
    /\ Respond(r, "201")
    /\ UNCHANGED <<job, stored, claimed, historyVars>>

\* The add is acknowledged.
Added(r) ==
    /\ pc[r] = "adding"
    /\ job[r] # "sent"
    /\ Respond(r, "201")
    /\ UNCHANGED <<job, stored, claimed, historyVars>>

\* Mutant of AddTimesOut: gives the upload up with the request.
AddTimesOutAndUnlink(r) ==
    /\ pc[r] = "adding"
    /\ Respond(r, "503 unavailable")
    /\ stored' = stored \ {Image[r]}
    /\ UNCHANGED <<job, claimed, historyVars>>

\* 2000 ms are over, whether the command has reached Redis or not: nothing
\* takes it back.
AddTimesOut(r) ==
    /\ pc[r] = "adding"
    /\ Respond(r, "503 unavailable")
    /\ UNCHANGED <<job, stored, claimed, historyVars>>

\* The add throws: its priority is out of BullMQ's range, or Redis refuses it.
AddFails(r) ==
    /\ pc[r] = "adding"
    /\ job[r] = "sent"
    /\ job' = [job EXCEPT ![r] = "none"]
    /\ Respond(r, "503 unavailable")
    /\ UNCHANGED <<stored, claimed, historyVars>>

-----------------------------------------------------------------------------
(* Redis and the workers.                                                  *)

Move(r, from, to) ==
    /\ job[r] = from
    /\ job' = [job EXCEPT ![r] = to]

\* The add command takes effect, or is lost with its connection after the
\* handler stopped waiting.
Land(r) ==
    /\ Move(r, "sent", WaitingState(r))
    /\ UNCHANGED <<requestVars, stored, claimed, historyVars>>

LoseAdd(r) ==
    /\ pc[r] = "answered"
    /\ Move(r, "sent", "none")
    /\ UNCHANGED <<requestVars, stored, claimed, historyVars>>

ClaimNext(r) ==
    /\ Move(r, "wait", "active") \/ Move(r, "prioritized", "active")
    /\ claimed' = claimed \cup {r}
    /\ UNCHANGED <<requestVars, stored, historyVars>>

\* A run ends for good, with a backoff, or by a stall, and may have deleted its
\* input.  The sweep puts a stalled job of any priority into the wait list.
RunEnds(r) ==
    /\ \E to \in {"ended", "delayed", "wait"} : Move(r, "active", to)
    /\ stored' \in {stored, stored \ {Image[r]}}
    /\ UNCHANGED <<requestVars, claimed, historyVars>>

\* The backoff ends.  Nothing looks at a limit here.
EndBackoff(r) ==
    /\ Move(r, "delayed", WaitingState(r))
    /\ UNCHANGED <<requestVars, stored, claimed, historyVars>>

-----------------------------------------------------------------------------

Next ==
    \E r \in Requests :
        \/ Receive(r) \/ CountWaiting(r) \/ CountPrioritized(r) \/ CountFails(r)
        \/ Added(r) \/ AddTimesOut(r) \/ AddFails(r)
        \/ Land(r) \/ LoseAdd(r) \/ ClaimNext(r) \/ RunEnds(r) \/ EndBackoff(r)

Spec == Init /\ [][Next]_vars

\* Only the two timers are certain: Redis may stop answering for ever.
Fairness ==
    \A r \in Requests : WF_vars(CountFails(r)) /\ WF_vars(AddTimesOut(r))

FairSpec == Spec /\ Fairness

-----------------------------------------------------------------------------

\* The waiting jobs that no worker has claimed yet, of the tiers whose limit is
\* at most l.
Fresh == (In("wait") \cup In("prioritized")) \ claimed

Backlog(l) == {r \in Fresh : Limit(r) <= l}

\* The check and the add are not atomic, nor are the two counts, yet the
\* backlog of new jobs exceeds its limit by less than the number of requests
\* that were open at one moment: when one of the jobs in it was counting.  For
\* the standard tier it says how much of the VIP reserve it can eat up.
BacklogIsBounded ==
    \A l \in {MAX_QUEUE_CAPACITY, MAX_VIP_QUEUE_CAPACITY} :
        Backlog(l) # {} =>
            \E r \in Backlog(l) :
                Cardinality(Backlog(l)) < l + Cardinality(rivals[r])

\* The response tells whether there is a job: 201 always means one, and a
\* rejection by validation or by the limit always means none.  Only "503
\* unavailable" leaves it open, because a late add is not taken back.
AnswersAreTrue ==
    \A r \in Requests :
        /\ answer[r] = "201" => job[r] \notin {"none", "sent"}
        /\ answer[r] \in {"400", "403", "503 limit"} => job[r] = "none"

\* A job that waits for its first run finds its upload on disk, even when its
\* client was told that the queue is unavailable;  only the run of another job
\* that names the same image may have deleted it.
QueuedJobsHaveTheirUpload ==
    \A r \in Uploads \cap Fresh :
        Image[r] \in stored \/ \E q \in claimed : Image[q] = Image[r]

\* Every client gets a response even if Redis never answers again: the two
\* timers are enough ("circuit breakers").
EveryRequestIsAnswered ==
    \A r \in Requests : pc[r] = "counting waiting" ~> pc[r] = "answered"

=============================================================================
