------------------------- MODULE RateLimiterProofs -------------------------
(***************************************************************************)
(* Proofs about RateLimiter, for any clients, any limit, window and timer. *)
(***************************************************************************)
EXTENDS RateLimiter, FiniteSetTheorems, TLAPS

-----------------------------------------------------------------------------
(* Type correctness.                                                       *)

LEMMA InWindowSubset == \A S : InWindow(S) \subseteq S
  BY DEF InWindow

\* Rounding up to seconds never makes the waiting time shorter.
LEMMA SecondsSuffice ==
  ASSUME now \in Nat, NEW time \in Nat, time > now
  PROVE  /\ SecondsUntil(time) \in Nat
         /\ Second * SecondsUntil(time) \in Nat
         /\ time <= now + Second * SecondsUntil(time)
<1> DEFINE a == time - now + Second - 1
<1>1. a \in Nat /\ Second \in Nat \ {0}
  BY RateLimiterAssumption
<1>2. (a \div Second) \in Nat /\ a = Second * (a \div Second) + (a % Second) /\ a % Second \in 0..(Second - 1)
  BY <1>1
<1> QED
  BY <1>1, <1>2 DEF SecondsUntil

-----------------------------------------------------------------------------
(* The inductive invariant.                                                *)

\* The log is what the history says of the window: it holds no other stamp,
\* and all those that are still inside.
LogIsTrue ==
    \A c \in Clients :
        /\ IsFiniteSet(granted[c])
        /\ requestLog[c] \subseteq granted[c]
        /\ \A g \in granted[c] :
              /\ g.n < Cardinality(granted[c])
              /\ g.at <= now
              /\ now < g.at + Window => g \in requestLog[c]

\* SlidingWindow, for the windows that are not over as well.
WindowsAreBounded ==
    \A c \in Clients : \A t \in Nat : Cardinality(GrantedIn(c, t)) <= MaxReqs

\* The requests that will still be in the window at the time a client was told.
Blocking(c) == {g \in granted[c] : told[c] < g.at + Window}

WaitsSuffice ==
    \A c \in Clients : told[c] # NotTold => Cardinality(Blocking(c)) < MaxReqs

\* A stamp that survived the last cleanup was in the window then.
StampsAreFresh ==
    \A c \in Clients : \A s \in requestLog[c] : now - s.at < Window + sinceCleanup

IInv == TypeOK /\ LogIsTrue /\ WindowsAreBounded /\ WaitsSuffice /\ StampsAreFresh

LEMMA InitIInv == Init => IInv
<1> SUFFICES ASSUME Init PROVE IInv
  OBVIOUS
<1> USE RateLimiterAssumption DEF Init
<1>1. TypeOK
  BY DEF TypeOK
<1>2. LogIsTrue
  BY FS_EmptySet DEF LogIsTrue
<1>3. WindowsAreBounded
  <2>1. \A c \in Clients, t \in Nat : GrantedIn(c, t) = {}
    BY DEF GrantedIn
  <2> QED
    BY <2>1, FS_EmptySet DEF WindowsAreBounded
<1>4. WaitsSuffice
  BY DEF WaitsSuffice
<1>5. StampsAreFresh
  BY DEF StampsAreFresh
<1> QED
  BY <1>1, <1>2, <1>3, <1>4, <1>5 DEF IInv

-----------------------------------------------------------------------------
(* What the filter keeps is what was granted inside the window.            *)

LEMMA FilterIsTheWindow ==
  ASSUME TypeOK, LogIsTrue, NEW c \in Clients
  PROVE  /\ InWindow(requestLog[c]) = GrantedIn(c, now)
         /\ IsFiniteSet(InWindow(requestLog[c]))
         /\ Cardinality(InWindow(requestLog[c])) \in Nat
<1>1. \A g \in granted[c] : g.at \in Nat
  BY DEF TypeOK, Stamp
<1>2. InWindow(requestLog[c]) = GrantedIn(c, now)
  BY <1>1, RateLimiterAssumption DEF InWindow, GrantedIn, LogIsTrue, TypeOK
<1>3. InWindow(requestLog[c]) \in SUBSET granted[c]
  BY InWindowSubset DEF LogIsTrue
<1>4. IsFiniteSet(InWindow(requestLog[c]))
  BY <1>3, FS_Subset DEF LogIsTrue
<1> QED
  BY <1>2, <1>4, FS_CardinalityType

\* The stamp of the next request is new.
LEMMA StampIsNew ==
  ASSUME TypeOK, LogIsTrue, NEW c \in Clients,
         NEW stamp, stamp = [n |-> Cardinality(granted[c]), at |-> now]
  PROVE  /\ stamp \in Stamp
         /\ stamp \notin granted[c]
         /\ IsFiniteSet(granted[c] \cup {stamp})
         /\ Cardinality(granted[c] \cup {stamp}) = Cardinality(granted[c]) + 1
<1>1. IsFiniteSet(granted[c]) /\ Cardinality(granted[c]) \in Nat
  BY FS_CardinalityType DEF LogIsTrue
<1>2. stamp \in Stamp
  BY <1>1 DEF Stamp, TypeOK
<1>3. stamp \notin granted[c]
  BY <1>1 DEF LogIsTrue
<1> QED
  BY <1>1, <1>2, <1>3, FS_AddElement

-----------------------------------------------------------------------------
(* Every step preserves the invariant.                                     *)

LEMMA AdmitPreserves ==
  ASSUME IInv, NEW c \in Clients, Admit(c) PROVE IInv'
<1> DEFINE stamp == [n |-> Cardinality(granted[c]), at |-> now]
           window == InWindow(requestLog[c])
<1> USE RateLimiterAssumption
<1>1. /\ Cardinality(window) < MaxReqs
      /\ requestLog' = [requestLog EXCEPT ![c] = window \cup {stamp}]
      /\ granted' = [granted EXCEPT ![c] = @ \cup {stamp}]
      /\ told' = [told EXCEPT ![c] = NotTold]
      /\ now' = now /\ sinceCleanup' = sinceCleanup
  BY DEF Admit
<1>2. TypeOK /\ LogIsTrue
  BY DEF IInv
<1>3. /\ stamp \in Stamp /\ stamp \notin granted[c]
      /\ IsFiniteSet(granted[c] \cup {stamp})
      /\ Cardinality(granted[c] \cup {stamp}) = Cardinality(granted[c]) + 1
  BY <1>2, StampIsNew
<1>4. /\ window = GrantedIn(c, now) /\ IsFiniteSet(window) /\ Cardinality(window) \in Nat
      /\ window \subseteq requestLog[c]
  BY <1>2, FilterIsTheWindow, InWindowSubset
<1>5. /\ requestLog'[c] = window \cup {stamp}
      /\ granted'[c] = granted[c] \cup {stamp}
      /\ told'[c] = NotTold
  BY <1>1, <1>2 DEF TypeOK
<1>6. \A d \in Clients \ {c} :
        requestLog'[d] = requestLog[d] /\ granted'[d] = granted[d] /\ told'[d] = told[d]
  BY <1>1, <1>2 DEF TypeOK
<1>7. stamp.at = now /\ stamp.n = Cardinality(granted[c])
  OBVIOUS
<1> HIDE DEF stamp, window
<1>8. TypeOK'
  <2>1. window \cup {stamp} \in SUBSET Stamp
    BY <1>2, <1>3, <1>4 DEF TypeOK
  <2> QED
    BY <1>1, <1>2, <1>3, <2>1 DEF TypeOK
<1>9. LogIsTrue'
  <2>1. IsFiniteSet(granted'[c]) /\ requestLog'[c] \subseteq granted'[c]
    BY <1>2, <1>3, <1>4, <1>5 DEF LogIsTrue
  <2>2. ASSUME NEW g \in granted'[c]
        PROVE  /\ g.n < Cardinality(granted'[c])
               /\ g.at <= now'
               /\ now' < g.at + Window => g \in requestLog'[c]
    <3>1. Cardinality(granted[c]) \in Nat /\ now \in Nat
      BY <1>2, FS_CardinalityType DEF LogIsTrue, TypeOK
    <3>2. CASE g = stamp
      BY <1>1, <1>3, <1>5, <1>7, <3>1, <3>2
    <3>3. CASE g \in granted[c]
      <4>1. g \in Stamp
        BY <1>2, <3>3 DEF TypeOK
      <4>2. g.n < Cardinality(granted[c]) /\ g.at <= now
        BY <1>2, <3>3 DEF LogIsTrue
      <4>3. now < g.at + Window => g \in window
        BY <1>4, <3>3, <4>2 DEF GrantedIn
      <4> QED
        BY <1>1, <1>3, <1>5, <3>1, <4>1, <4>2, <4>3 DEF Stamp
    <3> QED
      BY <1>5, <3>2, <3>3
  <2> QED
    BY <1>1, <1>2, <1>6, <2>1, <2>2 DEF LogIsTrue
<1>10. WindowsAreBounded'
  <2> SUFFICES ASSUME NEW d \in Clients, NEW t \in Nat
               PROVE  Cardinality(GrantedIn(d, t)') <= MaxReqs
    BY DEF WindowsAreBounded
  <2>1. Cardinality(GrantedIn(d, t)) <= MaxReqs
    BY DEF IInv, WindowsAreBounded
  <2>2. CASE d # c \/ t < now
    <3>1. GrantedIn(d, t)' = GrantedIn(d, t)
      BY <1>5, <1>6, <1>7, <1>2, <2>2 DEF GrantedIn, TypeOK
    <3> QED
      BY <2>1, <3>1
  <2>3. CASE d = c /\ now <= t
    <3>1. \A g \in granted[c] : g.at \in Nat /\ now \in Nat
      BY <1>2 DEF TypeOK, Stamp
    <3>2. GrantedIn(c, t)' \in SUBSET (window \cup {stamp})
      <4>1. \A g \in granted[c] : t < g.at + Window => g.at <= now /\ now < g.at + Window
        BY <1>2, <2>3, <3>1 DEF LogIsTrue
      <4> QED
        BY <1>4, <1>5, <4>1 DEF GrantedIn
    <3>3. IsFiniteSet(window \cup {stamp}) /\ Cardinality(window \cup {stamp}) <= Cardinality(window) + 1
      BY <1>4, FS_AddElement
    <3>4. /\ Cardinality(GrantedIn(c, t)') <= Cardinality(window \cup {stamp})
          /\ IsFiniteSet(GrantedIn(c, t)')
      BY <3>2, <3>3, FS_Subset
    <3>5. Cardinality(GrantedIn(c, t)') \in Nat /\ Cardinality(window \cup {stamp}) \in Nat
      BY <3>3, <3>4, FS_CardinalityType
    <3> QED
      BY <1>1, <1>4, <2>3, <3>3, <3>4, <3>5
  <2> QED
    BY <1>2, <2>2, <2>3 DEF TypeOK
<1>11. WaitsSuffice'
  <2>1. \A d \in Clients \ {c} : Blocking(d)' = Blocking(d)
    BY <1>6 DEF Blocking
  <2> QED
    BY <1>5, <1>6, <2>1 DEF IInv, WaitsSuffice, NotTold
<1>12. StampsAreFresh'
  <2>1. \A s \in requestLog'[c] : now - s.at < Window + sinceCleanup
    BY <1>2, <1>4, <1>5, <1>7 DEF IInv, StampsAreFresh, TypeOK
  <2> QED
    BY <1>1, <1>6, <2>1 DEF IInv, StampsAreFresh
<1> QED
  BY <1>8, <1>9, <1>10, <1>11, <1>12 DEF IInv

LEMMA RejectPreserves ==
  ASSUME IInv, NEW c \in Clients, Reject(c) PROVE IInv'
<1> USE RateLimiterAssumption
<1>1. TypeOK /\ LogIsTrue
  BY DEF IInv
<1>2. PICK first \in InWindow(requestLog[c]) :
        told' = [told EXCEPT ![c] = now + Second * SecondsUntil(first.at + Window)]
  BY DEF Reject
<1>3. UNCHANGED <<now, requestLog, sinceCleanup, granted>>
  BY DEF Reject
<1>4. /\ first \in requestLog[c] /\ first \in granted[c] /\ first \in Stamp
      /\ now < first.at + Window
  BY <1>1 DEF InWindow, LogIsTrue, TypeOK, Stamp
<1>5. /\ told'[c] \in Nat
      /\ first.at + Window <= told'[c]
      /\ now <= told'[c]
  <2>1. now \in Nat /\ first.at + Window \in Nat
    BY <1>1, <1>4 DEF TypeOK, Stamp
  <2>2. /\ Second * SecondsUntil(first.at + Window) \in Nat
        /\ first.at + Window <= now + Second * SecondsUntil(first.at + Window)
    BY <1>4, <2>1, SecondsSuffice
  <2>3. told'[c] = now + Second * SecondsUntil(first.at + Window)
    BY <1>1, <1>2 DEF TypeOK
  <2> QED
    BY <2>1, <2>2, <2>3
<1>6. \A d \in Clients \ {c} : told'[d] = told[d]
  BY <1>1, <1>2 DEF TypeOK
<1>7. TypeOK'
  <2>1. told' \in [Clients -> {NotTold} \cup Nat]
    BY <1>1, <1>2, <1>5, <1>6 DEF TypeOK
  <2> QED
    BY <1>1, <1>3, <2>1 DEF TypeOK
<1>8. LogIsTrue' /\ StampsAreFresh'
  BY <1>3 DEF IInv, LogIsTrue, StampsAreFresh
<1>9. WindowsAreBounded'
  BY <1>3 DEF IInv, WindowsAreBounded, GrantedIn
<1>10. WaitsSuffice'
  <2>1. \A d \in Clients \ {c} : Blocking(d)' = Blocking(d)
    BY <1>3, <1>6 DEF Blocking
  <2>2. Cardinality(Blocking(c)') < MaxReqs
    <3> DEFINE window == GrantedIn(c, now)
    <3>1. /\ window = InWindow(requestLog[c])
          /\ IsFiniteSet(window) /\ Cardinality(window) \in Nat
          /\ Cardinality(window) <= MaxReqs
      BY <1>1, FilterIsTheWindow DEF IInv, WindowsAreBounded, TypeOK
    <3>2. \A g \in granted[c] : g.at \in Nat /\ g.at <= now /\ now \in Nat
      BY <1>1 DEF LogIsTrue, TypeOK, Stamp
    <3>3. Blocking(c)' \in SUBSET (window \ {first})
      BY <1>3, <1>4, <1>5, <3>2 DEF Blocking, GrantedIn
    <3>4. first \in window
      BY <3>1
    <3> HIDE DEF window
    <3>5. IsFiniteSet(window \ {first}) /\ Cardinality(window \ {first}) = Cardinality(window) - 1
      BY <3>1, <3>4, FS_RemoveElement
    <3>6. IsFiniteSet(Blocking(c)') /\ Cardinality(Blocking(c)') <= Cardinality(window \ {first})
      BY <3>3, <3>5, FS_Subset
    <3>7. Cardinality(Blocking(c)') \in Nat
      BY <3>6, FS_CardinalityType
    <3> QED
      BY <3>1, <3>5, <3>6, <3>7
  <2> QED
    BY <1>6, <2>1, <2>2 DEF IInv, WaitsSuffice
<1> QED
  BY <1>7, <1>8, <1>9, <1>10 DEF IInv

LEMMA CleanUpPreserves ==
  ASSUME IInv, CleanUp PROVE IInv'
<1> USE RateLimiterAssumption
<1>1. TypeOK /\ LogIsTrue
  BY DEF IInv
<1>2. /\ requestLog' = [c \in Clients |-> InWindow(requestLog[c])]
      /\ sinceCleanup' = 0 /\ UNCHANGED <<now, granted, told>>
  BY DEF CleanUp
<1>3. TypeOK'
  <2>1. \A c \in Clients : InWindow(requestLog[c]) \in SUBSET Stamp
    BY <1>1, InWindowSubset DEF TypeOK
  <2> QED
    BY <1>1, <1>2, <2>1 DEF TypeOK
<1>4. LogIsTrue'
  BY <1>1, <1>2 DEF LogIsTrue, InWindow, TypeOK, Stamp
<1>5. WindowsAreBounded'
  BY <1>2 DEF IInv, WindowsAreBounded, GrantedIn
<1>6. WaitsSuffice'
  BY <1>2 DEF IInv, WaitsSuffice, Blocking
<1>7. StampsAreFresh'
  BY <1>1, <1>2 DEF StampsAreFresh, InWindow, TypeOK, Stamp
<1> QED
  BY <1>3, <1>4, <1>5, <1>6, <1>7 DEF IInv

LEMMA TickPreserves ==
  ASSUME IInv, Tick PROVE IInv'
<1> USE RateLimiterAssumption
<1>1. TypeOK /\ LogIsTrue
  BY DEF IInv
<1>2. /\ now' = now + 1 /\ sinceCleanup' = sinceCleanup + 1
      /\ sinceCleanup < CleanupPeriod + Lateness
      /\ UNCHANGED <<requestLog, granted, told>>
  BY DEF Tick
<1>3. TypeOK'
  BY <1>1, <1>2 DEF TypeOK
<1>4. LogIsTrue'
  BY <1>1, <1>2 DEF LogIsTrue, TypeOK, Stamp
<1>5. WindowsAreBounded'
  BY <1>2 DEF IInv, WindowsAreBounded, GrantedIn
<1>6. WaitsSuffice'
  BY <1>2 DEF IInv, WaitsSuffice, Blocking
<1>7. StampsAreFresh'
  BY <1>1, <1>2 DEF IInv, StampsAreFresh, TypeOK, Stamp
<1> QED
  BY <1>3, <1>4, <1>5, <1>6, <1>7 DEF IInv

THEOREM Invariance == Spec => []IInv
<1>1. IInv /\ [Next]_vars => IInv'
  <2> SUFFICES ASSUME IInv, [Next]_vars PROVE IInv'
    OBVIOUS
  <2>1. CASE UNCHANGED vars
    BY <2>1 DEF vars, IInv, TypeOK, LogIsTrue, WindowsAreBounded, GrantedIn,
                WaitsSuffice, Blocking, StampsAreFresh
  <2>2. CASE Next
    BY <2>2, AdmitPreserves, RejectPreserves, CleanUpPreserves, TickPreserves DEF Next
  <2> QED
    BY <2>1, <2>2
<1> QED
  BY InitIInv, <1>1, PTL DEF Spec

-----------------------------------------------------------------------------
(* The theorems.                                                           *)

\* Times, logs and promises keep their types, and the timer is never
\* overdue by more than its lateness.
THEOREM RateLimiterTypeCorrect == Spec => []TypeOK
<1>1. IInv => TypeOK
  BY DEF IInv
<1> QED
  BY Invariance, <1>1, PTL

\* No window of any length holds more granted requests than the limit.
THEOREM SlidingWindowTheorem == Spec => []SlidingWindow
<1>1. IInv => SlidingWindow
  BY DEF IInv, SlidingWindow, WindowsAreBounded, TypeOK
<1> QED
  BY Invariance, <1>1, PTL

\* Retry-After is never too short.
THEOREM RetryAfterIsEnoughTheorem == Spec => []RetryAfterIsEnough
<1>1. ASSUME IInv, NEW c \in Clients, told[c] # NotTold, now >= told[c]
      PROVE  Cardinality(InWindow(requestLog[c])) < MaxReqs
  <2>1. TypeOK /\ LogIsTrue /\ Cardinality(Blocking(c)) < MaxReqs
    BY <1>1 DEF IInv, WaitsSuffice
  <2>2. \A g \in granted[c] : g.at \in Nat
    BY <2>1 DEF TypeOK, Stamp
  <2>3. InWindow(requestLog[c]) \in SUBSET Blocking(c)
    BY <1>1, <2>1, <2>2, RateLimiterAssumption DEF InWindow, Blocking, LogIsTrue, TypeOK
  <2>4. IsFiniteSet(Blocking(c))
    <3>1. Blocking(c) \in SUBSET granted[c]
      BY DEF Blocking
    <3> QED
      BY <2>1, <3>1, FS_Subset DEF LogIsTrue
  <2>5. /\ Cardinality(InWindow(requestLog[c])) <= Cardinality(Blocking(c))
        /\ Cardinality(Blocking(c)) \in Nat
    BY <2>3, <2>4, FS_Subset, FS_CardinalityType
  <2>6. Cardinality(InWindow(requestLog[c])) \in Nat
    BY <2>1, FilterIsTheWindow
  <2> QED
    BY <2>1, <2>5, <2>6, RateLimiterAssumption
<1>2. IInv => RetryAfterIsEnough
  BY <1>1 DEF RetryAfterIsEnough
<1> QED
  BY Invariance, <1>2, PTL

\* The map holds no stamp older than a window and one round of the timer.
THEOREM StampsAreForgottenTheorem == Spec => []StampsAreForgotten
<1>1. IInv => StampsAreForgotten
  BY RateLimiterAssumption DEF IInv, StampsAreForgotten, StampsAreFresh, TypeOK, Stamp
<1> QED
  BY Invariance, <1>1, PTL

-----------------------------------------------------------------------------
(* Decisions.                                                              *)

\* A request is let through exactly when its client had fewer than MaxReqs
\* requests in the window that ends now: no stamp that the timer has yet to drop
\* costs a client a request, and none that it dropped gives one away.  A client
\* that is refused is not told to wait longer than the header can say: a second
\* or more before that time it would still be refused.
DecisionsAreExact ==
    \A c \in Clients :
        /\ Admit(c) => Cardinality(GrantedIn(c, now)) < MaxReqs
        /\ Reject(c) =>
              /\ Cardinality(GrantedIn(c, now)) = MaxReqs
              /\ \A t \in Nat : now <= t /\ t + Second <= told'[c] =>
                    Cardinality(GrantedIn(c, t)) = MaxReqs

\* Rounding up to seconds makes the waiting time longer by less than one.
LEMMA SecondsAreShort ==
  ASSUME now \in Nat, NEW time \in Nat, time > now
  PROVE  now + Second * SecondsUntil(time) < time + Second
<1> DEFINE a == time - now + Second - 1
<1>1. a \in Nat /\ Second \in Nat \ {0}
  BY RateLimiterAssumption
<1>2. (a \div Second) \in Nat /\ a = Second * (a \div Second) + (a % Second) /\ a % Second \in 0..(Second - 1)
  BY <1>1
<1> QED
  BY <1>1, <1>2 DEF SecondsUntil

\* As long as the oldest stamp of the window is inside, all others are.
LEMMA OldestGoesFirst ==
  ASSUME TypeOK, LogIsTrue, NEW c \in Clients, NEW first \in GrantedIn(c, now),
         \A s \in GrantedIn(c, now) : first.at <= s.at,
         NEW t \in Nat, now <= t, t < first.at + Window
  PROVE  GrantedIn(c, t) = GrantedIn(c, now)
<1>1. \A g \in granted[c] : g.at \in Nat /\ g.at <= now
  BY DEF TypeOK, Stamp, LogIsTrue
<1>2. now \in Nat /\ Window \in Nat
  BY RateLimiterAssumption DEF TypeOK
<1> QED
  BY <1>1, <1>2 DEF GrantedIn

LEMMA DecisionIsExact == IInv => DecisionsAreExact
<1> SUFFICES ASSUME IInv, NEW c \in Clients PROVE DecisionsAreExact!(c)
  BY DEF DecisionsAreExact
<1>1. /\ TypeOK /\ LogIsTrue
      /\ now \in Nat /\ Window \in Nat /\ MaxReqs \in Nat /\ Second \in Nat
  BY RateLimiterAssumption DEF IInv, TypeOK
<1>2. /\ InWindow(requestLog[c]) = GrantedIn(c, now)
      /\ Cardinality(GrantedIn(c, now)) \in Nat
  BY <1>1, FilterIsTheWindow
<1>3. Cardinality(GrantedIn(c, now)) <= MaxReqs
  BY <1>1 DEF IInv, WindowsAreBounded
<1>4. Admit(c) => Cardinality(GrantedIn(c, now)) < MaxReqs
  BY <1>2 DEF Admit
<1>5. ASSUME Reject(c) PROVE Cardinality(GrantedIn(c, now)) = MaxReqs
  BY <1>1, <1>2, <1>3, <1>5 DEF Reject
<1>6. ASSUME Reject(c), NEW t \in Nat, now <= t, t + Second <= told'[c]
      PROVE  Cardinality(GrantedIn(c, t)) = MaxReqs
  <2>1. PICK first \in GrantedIn(c, now) :
          /\ \A s \in GrantedIn(c, now) : first.at <= s.at
          /\ told'[c] = now + Second * SecondsUntil(first.at + Window)
    BY <1>1, <1>2, <1>6 DEF Reject, TypeOK
  <2>2. first.at \in Nat /\ now < first.at + Window
    BY <1>1 DEF GrantedIn, TypeOK, Stamp
  <2>3. now + Second * SecondsUntil(first.at + Window) < first.at + Window + Second
    BY <1>1, <2>2, SecondsAreShort
  <2>4. Second * SecondsUntil(first.at + Window) \in Nat
    BY <1>1, <2>2, SecondsSuffice
  <2>5. t < first.at + Window
    BY <1>1, <1>6, <2>1, <2>2, <2>3, <2>4
  <2> QED
    BY <1>1, <1>5, <1>6, <2>1, <2>5, OldestGoesFirst
<1> QED
  BY <1>4, <1>5, <1>6

\* The limiter refuses exactly what a sliding window refuses, and Retry-After
\* is the shortest that whole seconds allow.
THEOREM DecisionsAreExactTheorem == Spec => [][DecisionsAreExact]_vars
  BY Invariance, DecisionIsExact, PTL

=============================================================================
