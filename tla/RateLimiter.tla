---------------------------- MODULE RateLimiter -----------------------------
(***************************************************************************)
(* middleware/ratelimit.go: the fixed-window limiter in front of           *)
(* POST /api/register and POST /api/login, one for both.                   *)
(*                                                                         *)
(* Allow reads the clock before it takes the mutex, so a request decides   *)
(* with a reading that may be older than the readings of requests that     *)
(* decided before it.  What the mutex protects is one action.  Time passes *)
(* in ticks.  Entries are never evicted, in the code as in the model.      *)
(***************************************************************************)
EXTENDS Integers, Sequences, FiniteSets

CONSTANTS Ip,
          Req,          \* requests in Allow at once
          Limit,        \* 10 in SetupRouter
          Window,       \* 5 minutes in SetupRouter
          Lag,          \* the longest wait for the mutex
          MaxClock      \* bound: when the clock stops

ASSUME LimiterAssumption == /\ Limit \in Nat \ {0}
                            /\ Window \in Nat
                            /\ Lag \in Nat
                            /\ MaxClock \in Nat

VARIABLES clock,
          entries,      \* rl.entries; count 0 stands for no entry
          ip, now,      \* the locals of each request in Allow
          waiting,      \* the requests between time.Now() and the mutex
          grants        \* history: grants[i]: when requests of i were allowed,
                        \* and the entry that each of them left

vars == <<clock, entries, ip, now, waiting, grants>>

Init == /\ clock = 0
        /\ entries = [i \in Ip |-> [count |-> 0, expiresAt |-> 0]]
        /\ ip \in [Req -> Ip]
        /\ now = [r \in Req |-> 0]
        /\ waiting = {}
        /\ grants = [i \in Ip |-> <<>>]

\* A request comes in and reads the clock.
ReadClock(r) == /\ r \notin waiting
                /\ waiting' = waiting \cup {r}
                /\ \E i \in Ip : ip' = [ip EXCEPT ![r] = i]
                /\ now' = [now EXCEPT ![r] = clock]
                /\ UNCHANGED <<clock, entries, grants>>

\* Mutant of Expired: the comparison is the wrong way round.
ExpiredSwapped(r) == \/ entries[ip[r]].count = 0
                     \/ now[r] < entries[ip[r]].expiresAt

\* `!ok || now.After(entry.expiresAt)`.
Expired(r) == \/ entries[ip[r]].count = 0
              \/ now[r] > entries[ip[r]].expiresAt

Granted(r) ==
  grants' = [grants EXCEPT ![ip[r]] =
               Append(@, [at |-> clock, entry |-> entries'[ip[r]]])]

\* Under the mutex: a new window, one more request in the window, or 429.
OpenWindow(r) ==
  /\ Expired(r)
  /\ entries' = [entries EXCEPT ![ip[r]] =
                   [count |-> 1, expiresAt |-> now[r] + Window]]
  /\ Granted(r)

\* Mutant of CountRequest: the window is extended by every request.
CountRequestSliding(r) ==
  /\ ~Expired(r)
  /\ entries[ip[r]].count < Limit
  /\ entries' = [entries EXCEPT ![ip[r]].count = @ + 1,
                                ![ip[r]].expiresAt = now[r] + Window]
  /\ Granted(r)

\* Mutant of CountRequest: one request more than the limit.
CountRequestAtLimit(r) ==
  /\ ~Expired(r)
  /\ entries[ip[r]].count <= Limit
  /\ entries' = [entries EXCEPT ![ip[r]].count = @ + 1]
  /\ Granted(r)

CountRequest(r) ==
  /\ ~Expired(r)
  /\ entries[ip[r]].count < Limit
  /\ entries' = [entries EXCEPT ![ip[r]].count = @ + 1]
  /\ Granted(r)

Refuse(r) == /\ ~Expired(r)
             /\ entries[ip[r]].count >= Limit
             /\ UNCHANGED <<entries, grants>>

Allow(r) == /\ r \in waiting
            /\ waiting' = waiting \ {r}
            /\ OpenWindow(r) \/ CountRequest(r) \/ Refuse(r)
            /\ UNCHANGED <<clock, ip, now>>

Tick == /\ clock < MaxClock
        /\ \A r \in waiting : clock < now[r] + Lag
        /\ clock' = clock + 1
        /\ UNCHANGED <<entries, ip, now, waiting, grants>>

Next == \/ \E r \in Req : ReadClock(r) \/ Allow(r)
        \/ Tick

Spec == Init /\ [][Next]_vars

-----------------------------------------------------------------------------
Entry == [count : 0 .. Limit, expiresAt : 0 .. MaxClock + Window]
Grant == [at : 0 .. MaxClock, entry : Entry]

\* The types of the variables; no window ever counts more than Limit requests.
TypeOK == /\ clock \in 0 .. MaxClock
          /\ entries \in [Ip -> Entry]
          /\ ip \in [Req -> Ip]
          /\ now \in [Req -> 0 .. MaxClock]
          /\ waiting \subseteq Req
          /\ grants \in [Ip -> Seq(Grant)]

\* How many requests of i were allowed at from or later, up to to.
GrantsIn(i, from, to) ==
  Cardinality({n \in DOMAIN grants[i] : grants[i][n].at \in from .. to})

\* The windows that a stretch of Window ticks can meet: the one that is open
\* when it starts, the one that opens in it and, if a reading may be two or
\* more ticks old, those that late readings date back.
Windows == 2 + (Window + Lag - 1) \div (Window + 1)

\* However the requests interleave, an address gets no more than Limit
\* requests through for each of those windows.
BurstIsBounded ==
  \A i \in Ip : \A from \in 0 .. clock :
    GrantsIn(i, from, from + Window) <= Windows * Limit

\* A request is refused only if Limit requests of its own address were allowed
\* in the Window before it came.
RefusedOnlyWhenSpent ==
  [][\A r \in Req :
       r \in waiting /\ r \notin waiting' /\ grants' = grants =>
         GrantsIn(ip[r], now[r] - Window, clock) >= Limit]_vars

\* A stale reading never brings the end of a window forward.
ExpiryOnlyGrows ==
  [][\A i \in Ip : entries'[i].expiresAt >= entries[i].expiresAt]_vars
=============================================================================
