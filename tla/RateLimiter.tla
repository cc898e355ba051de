---------------------------- MODULE RateLimiter ----------------------------
(***************************************************************************)
(* src/src/ratelimit.ts: the sliding-window log.  For every client the     *)
(* limiter keeps the times of the requests it let through; a request that  *)
(* finds MaxReqs of them inside the window is answered 429 with the number *)
(* of seconds after which the client may come back.  A timer drops what    *)
(* has left the window.                                                    *)
(*                                                                         *)
(* A stamp is a time with the ordinal number of its request, since several *)
(* requests may arrive at one time: the array of the code is a set of      *)
(* stamps here, and its length the cardinality.  Date.now() is taken to be *)
(* monotone.                                                               *)
(***************************************************************************)
EXTENDS Integers, FiniteSets

CONSTANTS
    Clients,         \* the keys: X-Forwarded-For or the remote address
    MaxReqs,         \* options.maxReqs
    Window,          \* options.windowMs, in ticks
    Second,          \* a second, in ticks
    CleanupPeriod,   \* the interval of the cleanup timer
    Lateness,        \* by how much the event loop may delay that timer
    Horizon          \* the time at which the model ends

ASSUME RateLimiterAssumption ==
    /\ {MaxReqs, Window, Second, CleanupPeriod} \subseteq Nat \ {0}
    /\ {Lateness, Horizon} \subseteq Nat

VARIABLES
    now,
    requestLog,      \* per client: the stamps kept, {} if it has no key
    sinceCleanup,    \* ticks since the cleanup timer last fired
    granted,         \* history: every request that was let through
    told             \* history: when a client told to wait may come back

vars == <<now, requestLog, sinceCleanup, granted, told>>

Stamp == [n : Nat, at : Nat]

\* The client has not been told to wait since its last request went through.
NotTold == -1

TypeOK ==
    /\ now \in Nat
    /\ requestLog \in [Clients -> SUBSET Stamp]
    /\ sinceCleanup \in 0..(CleanupPeriod + Lateness)
    /\ granted \in [Clients -> SUBSET Stamp]
    /\ told \in [Clients -> {NotTold} \cup Nat]

Init ==
    /\ now = 0
    /\ requestLog = [c \in Clients |-> {}]
    /\ sinceCleanup = 0
    /\ granted = [c \in Clients |-> {}]
    /\ told = [c \in Clients |-> NotTold]

-----------------------------------------------------------------------------

\* Mutant of InWindow: windows start at the multiples of their length.
InFixedWindow(stamps) == {s \in stamps : s.at \div Window = now \div Window}

\* The stamps that the filter keeps.
InWindow(stamps) == {s \in stamps : now - s.at < Window}

\* Mutant of SecondsUntil: Math.floor.
WholeSecondsUntil(time) == (time - now) \div Second

SecondsUntil(time) == (time - now + Second - 1) \div Second

\* validTimestamps.push(now) and requestLog.set.
Admit(c) ==
    LET stamp == [n |-> Cardinality(granted[c]), at |-> now] IN
    /\ Cardinality(InWindow(requestLog[c])) < MaxReqs
    /\ requestLog' = [requestLog EXCEPT ![c] = InWindow(@) \cup {stamp}]
    /\ granted' = [granted EXCEPT ![c] = @ \cup {stamp}]
    /\ told' = [told EXCEPT ![c] = NotTold]
    /\ UNCHANGED <<now, sinceCleanup>>

\* 429.  The first of the valid stamps is the oldest; the array in the map
\* is left as it is.
Reject(c) ==
    /\ Cardinality(InWindow(requestLog[c])) >= MaxReqs
    /\ \E first \in InWindow(requestLog[c]) :
          /\ \A s \in InWindow(requestLog[c]) : first.at <= s.at
          /\ told' = [told EXCEPT ![c] = now + Second * SecondsUntil(first.at + Window)]
    /\ UNCHANGED <<now, requestLog, sinceCleanup, granted>>

\* Mutant of CleanUp: clients with a recent request are passed over.
CleanUpIdle ==
    /\ sinceCleanup >= CleanupPeriod
    /\ sinceCleanup' = 0
    /\ requestLog' = [c \in Clients |->
          IF InWindow(requestLog[c]) = {} THEN {} ELSE requestLog[c]]
    /\ UNCHANGED <<now, granted, told>>

\* The cleanup timer.
CleanUp ==
    /\ sinceCleanup >= CleanupPeriod
    /\ sinceCleanup' = 0
    /\ requestLog' = [c \in Clients |-> InWindow(requestLog[c])]
    /\ UNCHANGED <<now, granted, told>>

\* Mutant of Tick: time passes while the timer is due.
TickPastTimer ==
    /\ now < Horizon
    /\ now' = now + 1
    /\ sinceCleanup' = sinceCleanup + 1
    /\ UNCHANGED <<requestLog, granted, told>>

Tick ==
    /\ now < Horizon
    /\ sinceCleanup < CleanupPeriod + Lateness
    /\ now' = now + 1
    /\ sinceCleanup' = sinceCleanup + 1
    /\ UNCHANGED <<requestLog, granted, told>>

Next ==
    \/ \E c \in Clients : Admit(c) \/ Reject(c)
    \/ CleanUp
    \/ Tick

Spec == Init /\ [][Next]_vars

-----------------------------------------------------------------------------

\* The requests let through in the window that ends at time t.
GrantedIn(c, t) == {g \in granted[c] : g.at <= t /\ t < g.at + Window}

\* No client gets more than MaxReqs requests through in any window, wherever
\* the window starts and whenever the timer has dropped something: the
\* bursts at a boundary that src/learnings.md:1648 gives as the reason for a
\* sliding window do not exist.
SlidingWindow ==
    \A c \in Clients : \A t \in 0..now : Cardinality(GrantedIn(c, t)) <= MaxReqs

\* A client that waits for the seconds it was told is let through, unless it
\* has come back before and used up the place.
RetryAfterIsEnough ==
    \A c \in Clients :
        told[c] # NotTold /\ now >= told[c] =>
            Cardinality(InWindow(requestLog[c])) < MaxReqs

\* Nothing is kept for longer than a window and a round of the timer, also
\* of clients that only ever get 429 answers, which store nothing.
StampsAreForgotten ==
    \A c \in Clients : \A s \in requestLog[c] :
        now - s.at < Window + CleanupPeriod + Lateness

=============================================================================
