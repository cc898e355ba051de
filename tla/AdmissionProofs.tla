-------------------------- MODULE AdmissionProofs ---------------------------
(***************************************************************************)
(* Proofs about Admission, for every finite set of requests, every tier and*)
(* priority they may have, and every pair of limits.                       *)
(***************************************************************************)
EXTENDS Admission, FiniteSetTheorems, TLAPS

-----------------------------------------------------------------------------
(* Type correctness.                                                       *)

LEMMA StateOfPriority == \A r \in Requests : WaitingState(r) \in {"wait", "prioritized"}
  BY DEF WaitingState

LEMMA LimitType == \A r \in Requests : Limit(r) \in Nat
  BY AdmissionAssumption DEF Limit

LEMMA CountType == \A state : IsFiniteSet(In(state)) /\ Cardinality(In(state)) \in Nat
<1> SUFFICES ASSUME NEW state PROVE IsFiniteSet(In(state)) /\ Cardinality(In(state)) \in Nat
  OBVIOUS
<1>1. In(state) \in SUBSET Requests
  BY DEF In
<1>2. IsFiniteSet(In(state))
  BY <1>1, FS_Subset, AdmissionAssumption
<1> QED
  BY <1>2, FS_CardinalityType

LEMMA TypeStep == TypeOK /\ [Next]_vars => TypeOK'
<1> SUFFICES ASSUME TypeOK, [Next]_vars PROVE TypeOK'
  OBVIOUS
<1> USE DEF TypeOK, vars, requestVars, historyVars, PC, Answer, JobState, Respond, Move
<1>1. CASE UNCHANGED vars
  BY <1>1
<1>2. CASE Next
  <2> PICK r \in Requests :
        \/ Receive(r) \/ CountWaiting(r) \/ CountPrioritized(r) \/ CountFails(r)
        \/ Added(r) \/ AddTimesOut(r) \/ AddFails(r)
        \/ Land(r) \/ LoseAdd(r) \/ ClaimNext(r) \/ RunEnds(r) \/ EndBackoff(r)
    BY <1>2 DEF Next
  <2>1. CASE Receive(r)
    <3> DEFINE file == IF r \in Uploads THEN {Image[r]} ELSE {}
    <3>1. file \subseteq {Image[q] : q \in Uploads}
      OBVIOUS
    <3>2. stored' = stored \/ stored' = stored \cup file
      BY <2>1 DEF Receive
    <3>3. stored' \in SUBSET {Image[q] : q \in Uploads}
      BY <3>1, <3>2
    <3>4. \/ Respond(r, "400") \/ Respond(r, "403")
          \/ pc' = [pc EXCEPT ![r] = "counting waiting"] /\ UNCHANGED <<answer, seen>>
      BY <2>1 DEF Receive
    <3>5. /\ pc' \in [Requests -> PC]
          /\ answer' \in [Requests -> Answer]
          /\ seen' \in [Requests -> Nat]
      <4>1. CASE Respond(r, "400")
        BY <4>1
      <4>2. CASE Respond(r, "403")
        BY <4>2
      <4>3. CASE pc' = [pc EXCEPT ![r] = "counting waiting"] /\ UNCHANGED <<answer, seen>>
        BY <4>3
      <4> QED
        BY <3>4, <4>1, <4>2, <4>3
    <3> QED
      BY <2>1, <3>3, <3>5 DEF Receive
  <2>2. CASE CountWaiting(r)
    <3>1. Cardinality(In("wait")) \in Nat
      BY CountType
    <3>2. seen' \in [Requests -> Nat]
      BY <2>2, <3>1 DEF CountWaiting
    <3>3. Open \cup {r} \subseteq Requests /\ Counted \ Open \subseteq Requests
      BY DEF Open, Counted
    <3>4. rivals' \in [Requests -> SUBSET Requests] /\ earlier' \in [Requests -> SUBSET Requests]
      BY <2>2, <3>3 DEF CountWaiting
    <3>5. pc' \in [Requests -> PC] /\ UNCHANGED <<answer, job, stored, claimed>>
      BY <2>2 DEF CountWaiting
    <3> QED
      BY <3>2, <3>4, <3>5
  <2>3. CASE CountPrioritized(r)
    <3>1. CASE Respond(r, "503 limit") /\ UNCHANGED job
      BY <2>3, <3>1 DEF CountPrioritized
    <3>2. CASE /\ pc' = [pc EXCEPT ![r] = "adding"]
               /\ job' = [job EXCEPT ![r] = "sent"]
               /\ seen' = [seen EXCEPT ![r] = 0]
               /\ UNCHANGED answer
      BY <2>3, <3>2 DEF CountPrioritized
    <3> QED
      BY <2>3, <3>1, <3>2 DEF CountPrioritized
  <2>4. CASE CountFails(r) \/ Added(r) \/ AddTimesOut(r) \/ AddFails(r)
    <3>1. CASE CountFails(r)
      BY <3>1 DEF CountFails
    <3>2. CASE AddTimesOut(r)
      BY <3>2 DEF AddTimesOut
    <3>3. CASE Added(r)
      BY <3>3 DEF Added
    <3>4. CASE AddFails(r)
      BY <3>4 DEF AddFails
    <3> QED
      BY <2>4, <3>1, <3>2, <3>3, <3>4
  <2>5. CASE Land(r) \/ EndBackoff(r)
    BY <2>5, StateOfPriority DEF Land, EndBackoff
  <2>6. CASE LoseAdd(r) \/ ClaimNext(r)
    BY <2>6 DEF LoseAdd, ClaimNext
  <2>7. CASE RunEnds(r)
    <3>1. stored' \in SUBSET {Image[q] : q \in Uploads}
      BY <2>7 DEF RunEnds
    <3>2. job' \in [Requests -> JobState]
      BY <2>7 DEF RunEnds
    <3> QED
      BY <2>7, <3>1, <3>2 DEF RunEnds
  <2> QED
    BY <2>1, <2>2, <2>3, <2>4, <2>5, <2>6, <2>7
<1> QED
  BY <1>1, <1>2

\* Every variable of the admission keeps its type, the sums of counts included.
THEOREM AdmissionTypeCorrect == Spec => []TypeOK
<1>1. Init => TypeOK
  BY DEF Init, TypeOK, PC, Answer, JobState
<1> QED
  BY <1>1, TypeStep, PTL DEF Spec

-----------------------------------------------------------------------------
(* The invariant behind the bound.                                         *)

\* A request that has closed can neither add a job nor answer again.
Closed(r) == pc[r] = "answered" /\ job[r] # "sent"

\* Where a request is, its job may be.
StageInv ==
    \A r \in Requests :
        /\ job[r] # "none" => pc[r] \in {"adding", "answered"} /\ r \in rivals[r]
        /\ pc[r] \in {"counting prioritized", "adding"} => r \in rivals[r]
        /\ pc[r] = "adding" => job[r] # "none"
        /\ r \in rivals[r] => pc[r] \in {"counting prioritized", "adding", "answered"}
        /\ job[r] \in {"active", "delayed", "ended"} => r \in claimed

\* The jobs of earlier requests that have closed cannot escape the counts.
CountInv ==
    \A r \in Requests :
        /\ \A q \in earlier[r] : Closed(q)
        /\ pc[r] = "counting prioritized"
              => Cardinality(earlier[r] \cap Fresh \cap In("wait")) <= seen[r]
        /\ job[r] # "none" => Cardinality(earlier[r] \cap Fresh) < Limit(r)

\* Among any requests that began to count, one knew all the others: the last.
ChainInv ==
    \A S \in SUBSET Counted :
        S # {} => \E r \in S : S \subseteq earlier[r] \cup rivals[r]

BacklogInv == TypeOK /\ StageInv /\ CountInv /\ ChainInv

LEMMA StageStep == TypeOK /\ StageInv /\ [Next]_vars => StageInv'
<1> SUFFICES ASSUME TypeOK, StageInv, [Next]_vars PROVE StageInv'
  OBVIOUS
<1> USE DEF TypeOK, StageInv, vars, requestVars, historyVars, Respond, Move
<1>1. CASE UNCHANGED vars
  BY <1>1
<1>2. CASE Next
  <2> PICK r \in Requests :
        \/ Receive(r) \/ CountWaiting(r) \/ CountPrioritized(r) \/ CountFails(r)
        \/ Added(r) \/ AddTimesOut(r) \/ AddFails(r)
        \/ Land(r) \/ LoseAdd(r) \/ ClaimNext(r) \/ RunEnds(r) \/ EndBackoff(r)
    BY <1>2 DEF Next
  <2>1. CASE Receive(r)
    <3>1. /\ pc[r] = "new" /\ pc' \in {[pc EXCEPT ![r] = "answered"], [pc EXCEPT ![r] = "counting waiting"]}
          /\ UNCHANGED <<job, claimed, rivals>>
      BY <2>1 DEF Receive
    <3> QED
      BY <3>1
  <2>2. CASE CountWaiting(r)
    BY <2>2 DEF CountWaiting
  <2>3. CASE CountPrioritized(r)
    <3>1. CASE Respond(r, "503 limit") /\ UNCHANGED job
      BY <2>3, <3>1 DEF CountPrioritized
    <3>2. CASE pc' = [pc EXCEPT ![r] = "adding"] /\ job' = [job EXCEPT ![r] = "sent"]
      BY <2>3, <3>2 DEF CountPrioritized
    <3> QED
      BY <2>3, <3>1, <3>2 DEF CountPrioritized
  <2>4. CASE CountFails(r) \/ Added(r) \/ AddTimesOut(r) \/ AddFails(r)
    <3>1. CASE CountFails(r) \/ AddTimesOut(r)
      BY <3>1 DEF CountFails, AddTimesOut
    <3>2. CASE Added(r)
      BY <3>2 DEF Added
    <3>3. CASE AddFails(r)
      BY <3>3 DEF AddFails
    <3> QED
      BY <2>4, <3>1, <3>2, <3>3
  <2>5. CASE Land(r) \/ EndBackoff(r)
    BY <2>5, StateOfPriority DEF Land, EndBackoff
  <2>6. CASE LoseAdd(r) \/ ClaimNext(r)
    BY <2>6 DEF LoseAdd, ClaimNext
  <2>7. CASE RunEnds(r)
    BY <2>7 DEF RunEnds
  <2> QED
    BY <2>1, <2>2, <2>3, <2>4, <2>5, <2>6, <2>7
<1> QED
  BY <1>1, <1>2

\* Once a request has closed it stays closed, and its job does not become
\* fresh, nor waiting in the list, if it was not.
LEMMA ClosedStep ==
  ASSUME TypeOK, StageInv, [Next]_vars, NEW q \in Requests, Closed(q)
  PROVE  /\ Closed(q)'
         /\ q \in Fresh' => q \in Fresh
         /\ q \in (Fresh \cap In("wait"))' => q \in Fresh \cap In("wait")
<1> USE DEF TypeOK, StageInv, Closed, Fresh, In, vars, requestVars, historyVars, Respond, Move
<1>1. CASE UNCHANGED vars
  BY <1>1
<1>2. CASE Next
  <2> PICK r \in Requests :
        \/ Receive(r) \/ CountWaiting(r) \/ CountPrioritized(r) \/ CountFails(r)
        \/ Added(r) \/ AddTimesOut(r) \/ AddFails(r)
        \/ Land(r) \/ LoseAdd(r) \/ ClaimNext(r) \/ RunEnds(r) \/ EndBackoff(r)
    BY <1>2 DEF Next
  <2>1. CASE Receive(r) \/ CountWaiting(r) \/ CountPrioritized(r) \/ CountFails(r)
    <3>1. q # r
      BY <2>1 DEF Receive, CountWaiting, CountPrioritized, CountFails
    <3>2. pc'[q] = pc[q] /\ job'[q] = job[q] /\ claimed' = claimed
      BY <2>1, <3>1 DEF Receive, CountWaiting, CountPrioritized, CountFails
    <3> QED
      BY <3>2
  <2>2. CASE Added(r) \/ AddTimesOut(r) \/ AddFails(r)
    <3>1. q # r
      BY <2>2 DEF Added, AddTimesOut, AddFails
    <3>2. pc'[q] = pc[q] /\ job'[q] = job[q] /\ claimed' = claimed
      BY <2>2, <3>1 DEF Added, AddTimesOut, AddFails
    <3> QED
      BY <3>2
  <2>3. CASE Land(r) \/ LoseAdd(r) \/ ClaimNext(r) \/ RunEnds(r) \/ EndBackoff(r)
    <3>1. pc' = pc /\ claimed \subseteq claimed' /\ (q # r => job'[q] = job[q])
      BY <2>3 DEF Land, LoseAdd, ClaimNext, RunEnds, EndBackoff
    <3>2. CASE q # r
      BY <3>1, <3>2
    <3>3. CASE q = r
      <4>1. ~Land(r) /\ ~LoseAdd(r)
        BY <3>3 DEF Land, LoseAdd
      <4>2. job'[q] # "sent"
        BY <2>3, <3>3, <4>1, StateOfPriority DEF ClaimNext, RunEnds, EndBackoff
      <4>3. q \in claimed'
        BY <2>3, <3>3, <4>1 DEF ClaimNext, RunEnds, EndBackoff
      <4> QED
        BY <3>1, <4>2, <4>3
    <3> QED
      BY <3>2, <3>3
  <2> QED
    BY <2>1, <2>2, <2>3
<1> QED
  BY <1>1, <1>2

\* The three sets whose size CountInv bounds are finite, and a smaller set has
\* no more members.
LEMMA Smaller ==
  ASSUME NEW S, NEW T \in SUBSET S, S \subseteq Requests
  PROVE  /\ Cardinality(T) \in Nat
         /\ Cardinality(S) \in Nat
         /\ Cardinality(T) <= Cardinality(S)
<1>1. IsFiniteSet(S)
  BY FS_Subset, AdmissionAssumption
<1>2. IsFiniteSet(T)
  BY <1>1, FS_Subset
<1> QED
  BY <1>1, <1>2, FS_Subset, FS_CardinalityType

LEMMA UnionBound ==
  ASSUME NEW S, NEW T, IsFiniteSet(S), IsFiniteSet(T)
  PROVE  /\ Cardinality(S \cup T) <= Cardinality(S) + Cardinality(T)
         /\ Cardinality(S \cup T) \in Nat
         /\ Cardinality(S) \in Nat
         /\ Cardinality(T) \in Nat
<1>1. /\ Cardinality(S \cup T) = Cardinality(S) + Cardinality(T) - Cardinality(S \cap T)
      /\ IsFiniteSet(S \cup T)
  BY FS_Union
<1>2. IsFiniteSet(S \cap T)
  BY FS_Intersection
<1>3. /\ Cardinality(S) \in Nat /\ Cardinality(T) \in Nat
      /\ Cardinality(S \cap T) \in Nat /\ Cardinality(S \cup T) \in Nat
  BY <1>1, <1>2, FS_CardinalityType
<1> QED
  BY <1>1, <1>3

LEMMA CountStep == TypeOK /\ StageInv /\ CountInv /\ [Next]_vars => CountInv'
<1> SUFFICES ASSUME TypeOK, StageInv, CountInv, [Next]_vars, NEW r \in Requests
             PROVE  /\ \A q \in earlier'[r] : Closed(q)'
                    /\ pc'[r] = "counting prioritized"
                         => Cardinality(earlier'[r] \cap Fresh' \cap In("wait")') <= seen'[r]
                    /\ job'[r] # "none" => Cardinality(earlier'[r] \cap Fresh') < Limit(r)
  BY DEF CountInv
<1>1. TypeOK'
  BY TypeStep
<1>2. earlier[r] \subseteq Requests /\ Fresh \subseteq Requests
  BY DEF TypeOK, Fresh, In
<1>3. CASE CountWaiting(r)
  <2>1. /\ earlier'[r] = Counted \ Open
        /\ seen'[r] = Cardinality(In("wait"))
        /\ pc'[r] = "counting prioritized"
        /\ job' = job /\ claimed' = claimed
        /\ job[r] = "none"
    BY <1>3 DEF CountWaiting, TypeOK, StageInv
  <2>2. \A q \in Counted \ Open : Closed(q)
    BY DEF Counted, Open, Closed, StageInv, TypeOK, PC
  <2>3. \A q \in Requests : Closed(q) => Closed(q)'
    BY ClosedStep
  <2>4. Cardinality(earlier'[r] \cap Fresh' \cap In("wait")') <= Cardinality(In("wait"))
    <3>1. In("wait")' = In("wait")
      BY <2>1 DEF In
    <3> QED
      BY <3>1, Smaller DEF In
  <2> QED
    BY <2>1, <2>2, <2>3, <2>4 DEF Counted
<1>4. CASE ~CountWaiting(r)
  <2>1. earlier'[r] = earlier[r]
    BY <1>4 DEF Next, vars, historyVars, requestVars, Receive, CountWaiting, CountPrioritized,
         CountFails, Added, AddTimesOut, AddFails, Land, LoseAdd, ClaimNext, RunEnds, EndBackoff, TypeOK
  <2>2. \A q \in earlier[r] : Closed(q) /\ Closed(q)'
    BY <1>2, ClosedStep DEF CountInv
  <2>3. /\ earlier[r] \cap Fresh' \subseteq earlier[r] \cap Fresh
        /\ earlier[r] \cap Fresh' \cap In("wait")' \subseteq earlier[r] \cap Fresh \cap In("wait")
    BY <1>2, <2>2, ClosedStep
  <2>4. ASSUME pc'[r] = "counting prioritized"
        PROVE  Cardinality(earlier[r] \cap Fresh' \cap In("wait")') <= seen'[r]
    <3> DEFINE old == Cardinality(earlier[r] \cap Fresh \cap In("wait"))
               new == Cardinality(earlier[r] \cap Fresh' \cap In("wait")')
    <3>1. pc[r] = "counting prioritized" /\ seen'[r] = seen[r]
      BY <1>4, <2>4 DEF Next, vars, historyVars, requestVars, Receive, CountWaiting, CountPrioritized,
           CountFails, Added, AddTimesOut, AddFails, Land, LoseAdd, ClaimNext, RunEnds, EndBackoff,
           TypeOK, Respond
    <3>2. old <= seen[r]
      BY <3>1 DEF CountInv
    <3>3. new <= old /\ new \in Nat /\ old \in Nat
      BY <1>2, <2>3, Smaller
    <3>4. seen[r] \in Nat
      BY DEF TypeOK
    <3> HIDE DEF old, new
    <3>5. new <= seen[r]
      BY <3>2, <3>3, <3>4
    <3> QED
      BY <3>1, <3>5 DEF new
  <2>5. ASSUME job'[r] # "none"
        PROVE  Cardinality(earlier[r] \cap Fresh') < Limit(r)
    <3>1. /\ Cardinality(earlier[r] \cap Fresh') <= Cardinality(earlier[r] \cap Fresh)
          /\ Cardinality(earlier[r] \cap Fresh') \in Nat
          /\ Cardinality(earlier[r] \cap Fresh) \in Nat
      BY <1>2, <2>3, Smaller
    <3>2. CASE job[r] # "none"
      <4>1. Cardinality(earlier[r] \cap Fresh) < Limit(r)
        BY <3>2 DEF CountInv
      <4>2. Limit(r) \in Nat
        BY LimitType
      <4> QED
        BY <3>1, <4>1, <4>2
    <3>3. CASE job[r] = "none"
      <4>1. CountPrioritized(r) /\ seen[r] + Cardinality(In("prioritized")) < Limit(r)
        BY <2>5, <3>3 DEF Next, vars, historyVars, requestVars, Receive, CountWaiting, CountPrioritized,
             CountFails, Added, AddTimesOut, AddFails, Land, LoseAdd, ClaimNext, RunEnds, EndBackoff,
             TypeOK, Respond, Move
      <4>2. Cardinality(earlier[r] \cap Fresh \cap In("wait")) <= seen[r]
        BY <4>1 DEF CountPrioritized, CountInv
      <4> DEFINE A == earlier[r] \cap Fresh \cap In("wait")
                 B == earlier[r] \cap Fresh \cap In("prioritized")
      <4>3. earlier[r] \cap Fresh = A \cup B
        BY DEF Fresh
      <4>4. Cardinality(B) <= Cardinality(In("prioritized")) /\ Cardinality(B) \in Nat
        BY Smaller DEF In
      <4>5. IsFiniteSet(A) /\ IsFiniteSet(B)
        BY <1>2, FS_Subset, AdmissionAssumption
      <4>6. Cardinality(A \cup B) <= Cardinality(A) + Cardinality(B)
        BY <4>5, UnionBound
      <4>7. Cardinality(A) \in Nat /\ Cardinality(In("prioritized")) \in Nat /\ seen[r] \in Nat
        BY <4>5, FS_CardinalityType, CountType DEF TypeOK
      <4>8. Cardinality(A) <= seen[r] /\ Cardinality(A \cup B) \in Nat /\ Limit(r) \in Nat
        BY <4>2, <4>5, UnionBound, LimitType
      <4> HIDE DEF A, B
      <4>9. Cardinality(A \cup B) < Limit(r)
        BY <4>1, <4>4, <4>6, <4>7, <4>8
      <4> QED
        BY <4>3, <4>8, <4>9, <3>1
    <3> QED
      BY <3>2, <3>3
  <2> QED
    BY <2>1, <2>2, <2>4, <2>5
<1> QED
  BY <1>3, <1>4

LEMMA ChainStep == TypeOK /\ StageInv /\ ChainInv /\ [Next]_vars => ChainInv'
<1> SUFFICES ASSUME TypeOK, StageInv, ChainInv, [Next]_vars,
                    NEW S \in SUBSET Counted', S # {}
             PROVE  \E r \in S : S \subseteq earlier'[r] \cup rivals'[r]
  BY DEF ChainInv
<1>1. CASE UNCHANGED historyVars
  BY <1>1 DEF historyVars, ChainInv, Counted
<1>2. CASE \E q \in Requests : CountWaiting(q)
  <2> PICK q \in Requests : CountWaiting(q)
    BY <1>2
  <2>1. /\ earlier'[q] = Counted \ Open
        /\ rivals'[q] = Open \cup {q}
        /\ \A r \in Requests \ {q} : earlier'[r] = earlier[r] /\ rivals'[r] = rivals[r]
        /\ q \notin Counted
    BY DEF CountWaiting, TypeOK, StageInv, Counted
  <2>2. S \subseteq Counted \cup {q}
    BY <2>1 DEF Counted
  <2>3. CASE q \in S
    BY <2>1, <2>2, <2>3
  <2>4. CASE q \notin S
    <3>1. PICK r \in S : S \subseteq earlier[r] \cup rivals[r]
      BY <2>2, <2>4 DEF ChainInv
    <3> QED
      BY <2>1, <2>4, <3>1 DEF Counted
  <2> QED
    BY <2>3, <2>4
<1> QED
  BY <1>1, <1>2 DEF Next, vars, historyVars, Receive, CountPrioritized, CountFails, Added,
     AddTimesOut, AddFails, Land, LoseAdd, ClaimNext, RunEnds, EndBackoff

LEMMA BacklogBound == BacklogInv => BacklogIsBounded
<1> SUFFICES ASSUME BacklogInv,
                    NEW l \in {MAX_QUEUE_CAPACITY, MAX_VIP_QUEUE_CAPACITY},
                    Backlog(l) # {}
             PROVE  \E r \in Backlog(l) : Cardinality(Backlog(l)) < l + Cardinality(rivals[r])
  BY DEF BacklogIsBounded
<1> USE DEF BacklogInv
<1>1. Backlog(l) \subseteq Counted /\ Backlog(l) \subseteq Fresh
  BY DEF Backlog, Fresh, In, Counted, StageInv
<1>2. PICK r \in Backlog(l) : Backlog(l) \subseteq earlier[r] \cup rivals[r]
  BY <1>1 DEF ChainInv
<1>3. r \in Requests /\ job[r] # "none" /\ Limit(r) <= l
  BY DEF Backlog, Fresh, In
<1>4. Cardinality(earlier[r] \cap Fresh) < Limit(r)
  BY <1>3 DEF CountInv
<1> DEFINE A == earlier[r] \cap Fresh
           B == rivals[r]
<1>5. A \subseteq Requests /\ B \subseteq Requests
  BY <1>3 DEF TypeOK
<1>6. IsFiniteSet(A) /\ IsFiniteSet(B)
  BY <1>5, FS_Subset, AdmissionAssumption
<1>7. Backlog(l) \in SUBSET (A \cup B) /\ A \cup B \subseteq Requests
  BY <1>1, <1>2, <1>5
<1>8. /\ Cardinality(Backlog(l)) <= Cardinality(A \cup B)
      /\ Cardinality(Backlog(l)) \in Nat
      /\ Cardinality(A \cup B) \in Nat
  BY <1>7, Smaller
<1>9. /\ Cardinality(A \cup B) <= Cardinality(A) + Cardinality(B)
      /\ Cardinality(A) \in Nat
      /\ Cardinality(B) \in Nat
  BY <1>6, UnionBound
<1>10. Cardinality(A) < Limit(r) /\ Limit(r) \in Nat /\ l \in Nat
  BY <1>3, <1>4, LimitType, AdmissionAssumption
<1> HIDE DEF A
<1>11. Cardinality(Backlog(l)) < l + Cardinality(B)
  BY <1>3, <1>8, <1>9, <1>10
<1> QED
  BY <1>11

\* The backlog of jobs that no worker has claimed exceeds the limit of its tier
\* by less than the number of requests that were open together, although the
\* two counts of createJob, its comparison and its add are separate calls.
THEOREM BacklogIsBoundedTheorem == Spec => []BacklogIsBounded
<1>1. Init => BacklogInv
  <2> SUFFICES ASSUME Init PROVE BacklogInv
    OBVIOUS
  <2>1. TypeOK
    BY DEF Init, TypeOK, PC, Answer, JobState
  <2>2. Counted = {}
    BY DEF Init, Counted
  <2>3. StageInv /\ CountInv
    BY DEF Init, StageInv, CountInv
  <2> QED
    BY <2>1, <2>2, <2>3 DEF BacklogInv, ChainInv
<1>2. BacklogInv /\ [Next]_vars => BacklogInv'
  BY TypeStep, StageStep, CountStep, ChainStep DEF BacklogInv
<1> QED
  BY <1>1, <1>2, BacklogBound, PTL DEF Spec

-----------------------------------------------------------------------------
(* What a client may conclude from the response.                           *)

AnswerInv ==
    \A r \in Requests :
        /\ answer[r] # "none" => pc[r] = "answered"
        /\ answer[r] = "201" => job[r] \notin {"none", "sent"}
        /\ answer[r] \in {"400", "403", "503 limit"} => job[r] = "none"

\* A step of request r leaves the others alone.
LEMMA AnswerStep == TypeOK /\ StageInv /\ AnswerInv /\ [Next]_vars => AnswerInv'
<1> SUFFICES ASSUME TypeOK, StageInv, AnswerInv, [Next]_vars PROVE AnswerInv'
  OBVIOUS
<1>1. CASE UNCHANGED vars
  BY <1>1 DEF AnswerInv, vars, requestVars
<1>2. CASE Next
  <2> DEFINE Handler(r) == \/ Receive(r) \/ CountWaiting(r) \/ CountPrioritized(r)
                           \/ CountFails(r) \/ Added(r) \/ AddTimesOut(r) \/ AddFails(r)
             Redis(r) == Land(r) \/ LoseAdd(r) \/ ClaimNext(r) \/ RunEnds(r) \/ EndBackoff(r)
             Good(r) == /\ answer'[r] # "none" => pc'[r] = "answered"
                        /\ answer'[r] = "201" => job'[r] \notin {"none", "sent"}
                        /\ answer'[r] \in {"400", "403", "503 limit"} => job'[r] = "none"
  <2>1. PICK r \in Requests : Handler(r) \/ Redis(r)
    BY <1>2 DEF Next
  <2>2. CASE Handler(r)
    <3>1. \A q \in Requests \ {r} :
             pc'[q] = pc[q] /\ answer'[q] = answer[q] /\ job'[q] = job[q]
      BY <2>2 DEF TypeOK, Receive, CountWaiting, CountPrioritized, CountFails, Added,
                  AddTimesOut, AddFails, Respond
    <3>2. pc[r] # "answered" /\ answer[r] = "none"
      BY <2>2 DEF AnswerInv, Receive, CountWaiting, CountPrioritized, CountFails, Added,
                  AddTimesOut, AddFails
    <3>3. pc[r] \notin {"adding", "answered"} => job[r] = "none"
      BY DEF StageInv
    <3>4. Good(r)
      <4>1. CASE Receive(r)
        BY <3>2, <3>3, <4>1 DEF Receive, Respond, TypeOK
      <4>2. CASE CountWaiting(r)
        BY <3>2, <4>2 DEF CountWaiting
      <4>3. CASE CountPrioritized(r)
        BY <3>2, <3>3, <4>3 DEF CountPrioritized, Respond, TypeOK
      <4>4. CASE CountFails(r) \/ AddTimesOut(r) \/ AddFails(r)
        BY <4>4 DEF CountFails, AddTimesOut, AddFails, Respond, TypeOK
      <4>5. CASE Added(r)
        <5>1. job' = job /\ job[r] \notin {"none", "sent"}
          BY <4>5 DEF Added, StageInv
        <5> QED
          BY <4>5, <5>1 DEF Added, Respond, TypeOK
      <4> QED
        BY <2>2, <4>1, <4>2, <4>3, <4>4, <4>5
    <3> QED
      BY <3>1, <3>4 DEF AnswerInv
  <2>3. CASE Redis(r)
    <3>1. pc' = pc /\ answer' = answer /\ \A q \in Requests \ {r} : job'[q] = job[q]
      BY <2>3 DEF TypeOK, Land, LoseAdd, ClaimNext, RunEnds, EndBackoff, Move, requestVars
    <3>2. job[r] # "none"
      BY <2>3 DEF Land, LoseAdd, ClaimNext, RunEnds, EndBackoff, Move
    <3>3. job[r] # "sent" => job'[r] \notin {"none", "sent"}
      BY <2>3, StateOfPriority
      DEF TypeOK, Land, LoseAdd, ClaimNext, RunEnds, EndBackoff, Move
    <3>4. answer[r] \notin {"400", "403", "503 limit"} /\ (answer[r] = "201" => job[r] # "sent")
      BY <3>2 DEF AnswerInv
    <3> QED
      BY <3>1, <3>3, <3>4 DEF AnswerInv
  <2> QED
    BY <2>1, <2>2, <2>3
<1> QED
  BY <1>1, <1>2

\* 201 always means a job, 400, 403 and the limit's 503 never do, whatever the
\* timers and late adds make of the rest.
THEOREM AnswersAreTrueTheorem == Spec => []AnswersAreTrue
<1>1. Init => TypeOK /\ StageInv /\ AnswerInv
  BY DEF Init, TypeOK, PC, Answer, JobState, StageInv, AnswerInv
<1>2. TypeOK /\ StageInv /\ AnswerInv /\ [Next]_vars => (TypeOK /\ StageInv /\ AnswerInv)'
  BY TypeStep, StageStep, AnswerStep
<1>3. AnswerInv => AnswersAreTrue
  BY DEF AnswerInv, AnswersAreTrue
<1> QED
  BY <1>1, <1>2, <1>3, PTL DEF Spec

-----------------------------------------------------------------------------
(* The uploads of waiting jobs.                                            *)

Deleted(r) == \E q \in claimed : Image[q] = Image[r]

UploadInv ==
    \A r \in Uploads :
        pc[r] # "new" /\ answer[r] \notin {"400", "403"} =>
            Image[r] \in stored \/ Deleted(r)

LEMMA UploadStep == TypeOK /\ StageInv /\ AnswerInv /\ UploadInv /\ [Next]_vars => UploadInv'
<1> SUFFICES ASSUME TypeOK, StageInv, AnswerInv, UploadInv, [Next]_vars PROVE UploadInv'
  OBVIOUS
<1> USE AdmissionAssumption
    DEF TypeOK, UploadInv, Deleted, vars, requestVars, historyVars, Respond, Move
<1>1. CASE UNCHANGED vars
  BY <1>1
<1>2. CASE Next
  <2> PICK r \in Requests :
        \/ Receive(r) \/ CountWaiting(r) \/ CountPrioritized(r) \/ CountFails(r)
        \/ Added(r) \/ AddTimesOut(r) \/ AddFails(r)
        \/ Land(r) \/ LoseAdd(r) \/ ClaimNext(r) \/ RunEnds(r) \/ EndBackoff(r)
    BY <1>2 DEF Next
  <2>1. CASE Receive(r)
    BY <2>1 DEF Receive
  <2>2. CASE \/ CountWaiting(r) \/ CountPrioritized(r) \/ CountFails(r)
             \/ Added(r) \/ AddTimesOut(r) \/ AddFails(r)
    <3>1. pc[r] # "new" /\ answer[r] = "none" /\ stored' = stored /\ claimed' = claimed
      BY <2>2 DEF CountWaiting, CountPrioritized, CountFails, Added, AddTimesOut, AddFails, AnswerInv
    <3>2. \A q \in Requests \ {r} : pc'[q] = pc[q] /\ answer'[q] = answer[q]
      BY <2>2 DEF CountWaiting, CountPrioritized, CountFails, Added, AddTimesOut, AddFails
    <3> QED
      BY <3>1, <3>2
  <2>3. CASE Land(r) \/ EndBackoff(r) \/ LoseAdd(r) \/ ClaimNext(r)
    BY <2>3 DEF Land, EndBackoff, LoseAdd, ClaimNext
  <2>4. CASE RunEnds(r)
    BY <2>4 DEF RunEnds, StageInv
  <2> QED
    BY <2>1, <2>2, <2>3, <2>4
<1> QED
  BY <1>1, <1>2

\* No handler, timer or rejection takes the upload of a job that waits for its
\* first run: only a worker's run on the same image does.
THEOREM QueuedJobsHaveTheirUploadTheorem == Spec => []QueuedJobsHaveTheirUpload
<1> DEFINE Inv == TypeOK /\ StageInv /\ AnswerInv /\ UploadInv
<1>1. Init => Inv
  <2>1. Init => TypeOK
    BY DEF Init, TypeOK, PC, Answer, JobState
  <2>2. Init => StageInv /\ AnswerInv
    BY DEF Init, StageInv, AnswerInv
  <2>3. Init => UploadInv
    BY AdmissionAssumption DEF Init, UploadInv
  <2> QED
    BY <2>1, <2>2, <2>3
<1>2. Inv /\ [Next]_vars => Inv'
  BY TypeStep, StageStep, AnswerStep, UploadStep
<1>3. Inv => QueuedJobsHaveTheirUpload
  BY AdmissionAssumption
  DEF StageInv, AnswerInv, UploadInv, Deleted, QueuedJobsHaveTheirUpload, Fresh, In
<1> HIDE DEF Inv
<1> QED
  BY <1>1, <1>2, <1>3, PTL DEF Spec

=============================================================================
