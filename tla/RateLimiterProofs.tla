------------------------- MODULE RateLimiterProofs --------------------------
(***************************************************************************)
(* What holds of RateLimiter for any addresses, requests, limit, window    *)
(* and lag.  The inductive invariant orders the grants of an address by    *)
(* the entries they left behind; a burst is then counted by giving every   *)
(* grant in it a place, its window and its count in it, that no other has. *)
(***************************************************************************)
EXTENDS RateLimiter, SequenceTheorems, FiniteSetTheorems, FunctionTheorems,
        TLAPS

\* A request at the mutex has read the clock, at most Lag ticks ago.
ReadLately == \A r \in waiting : now[r] <= clock /\ clock <= now[r] + Lag

\* An address without an entry has no end of a window and no grant either; one
\* with an entry has its window open since some reading of the clock.
Opened == \A i \in Ip :
            IF entries[i].count = 0
            THEN entries[i].expiresAt = 0 /\ grants[i] = <<>>
            ELSE entries[i].expiresAt - Window \in 0 .. clock

\* a was granted before the entry was b: in the same window with a smaller
\* count, or in one that had ended when that of b began.
Earlier(a, b) == \/ a.expiresAt = b.expiresAt /\ a.count < b.count
                 \/ a.expiresAt + Window < b.expiresAt

\* A grant is not before its window begins and at most Lag after it ends, and
\* each comes after the one before it; the last left the entry as it is.
InWindow(g) == /\ 0 < g.entry.count
               /\ g.entry.expiresAt - Window <= g.at
               /\ g.at <= g.entry.expiresAt + Lag

Ordered == \A i \in Ip :
             /\ \A n \in DOMAIN grants[i] :
                  /\ InWindow(grants[i][n]) /\ grants[i][n].at <= clock
                  /\ \/ grants[i][n].entry = entries[i]
                     \/ Earlier(grants[i][n].entry, entries[i])
             /\ \A m, n \in DOMAIN grants[i] :
                  m < n => Earlier(grants[i][m].entry, grants[i][n].entry)

\* Every request that the entry counts is one that was granted.
Counted == \A i \in Ip : \A k \in 1 .. entries[i].count :
             \E n \in DOMAIN grants[i] :
               /\ grants[i][n].entry.count = k
               /\ grants[i][n].entry.expiresAt = entries[i].expiresAt

IInv == TypeOK /\ ReadLately /\ Opened /\ Ordered /\ Counted

-----------------------------------------------------------------------------
\* Every behaviour starts in IInv.
LEMMA InitIInv == Init => IInv
<1> SUFFICES ASSUME Init PROVE IInv
  OBVIOUS
<1>1. \A i \in Ip : /\ grants[i] = <<>> /\ grants[i] \in Seq(Grant)
                    /\ DOMAIN grants[i] = {}
  BY EmptySeq DEF Init
<1>2. TypeOK
  BY <1>1, LimiterAssumption DEF Init, TypeOK, Entry
<1> QED
  BY <1>1, <1>2 DEF Init, IInv, ReadLately, Opened, Ordered, Counted

\* What a grant does: the entry of its address becomes e, with a count of one
\* more than before or in a new window, and the grant is noted.
LEMMA GrantStep ==
  ASSUME IInv, NEW r \in Req, r \in waiting, NEW e \in Entry,
         UNCHANGED <<clock, ip, now>>, waiting' \subseteq waiting,
         entries' = [entries EXCEPT ![ip[r]] = e],
         Granted(r),
         \/ /\ Expired(r)
            /\ e.count = 1 /\ e.expiresAt = now[r] + Window
         \/ /\ ~Expired(r)
            /\ e.count = entries[ip[r]].count + 1
            /\ e.expiresAt = entries[ip[r]].expiresAt
  PROVE  IInv'
<1> DEFINE i == ip[r]
           s == grants[i]
           g == [at |-> clock, entry |-> e]
           t == now[r]
           c0 == entries[i].count
           x0 == entries[i].expiresAt
           c1 == e.count
           x1 == e.expiresAt
<1>1. /\ i \in Ip /\ entries[i] \in Entry /\ s \in Seq(Grant)
      /\ clock \in 0 .. MaxClock
      /\ entries'[i] = e
  BY DEF IInv, TypeOK
<1>2. g \in Grant /\ g.entry = e /\ g.at = clock
  BY <1>1 DEF Grant
<1>3. /\ c0 \in Nat /\ x0 \in Nat /\ c1 \in Nat /\ x1 \in Nat
      /\ t \in Nat /\ clock \in Nat /\ Window \in Nat /\ Lag \in Nat
      /\ t <= clock /\ clock <= t + Lag
  BY <1>1, LimiterAssumption DEF IInv, TypeOK, Entry, ReadLately
<1>4. \/ /\ c0 = 0 \/ t > x0
         /\ c1 = 1 /\ x1 = t + Window
      \/ /\ c0 # 0 /\ ~(t > x0)
         /\ c1 = c0 + 1 /\ x1 = x0
  BY DEF Expired
<1>5. /\ c0 # 0 => x0 - Window \in 0 .. clock
      /\ c0 = 0 => s = <<>>
  BY <1>1 DEF IInv, Opened
<1>6. /\ \A k \in 1 .. c0 : \E n \in DOMAIN s :
            s[n].entry.count = k /\ s[n].entry.expiresAt = x0
      /\ \A n \in DOMAIN s :
            /\ InWindow(s[n]) /\ s[n].at <= clock
            /\ s[n].entry = entries[i] \/ Earlier(s[n].entry, entries[i])
      /\ \A m, n \in DOMAIN s : m < n => Earlier(s[m].entry, s[n].entry)
  BY <1>1 DEF IInv, Counted, Ordered
<1>7. /\ grants' = [grants EXCEPT ![i] = Append(s, g)]
      /\ grants'[i] = Append(s, g)
      /\ \A j \in Ip \ {i} : grants'[j] = grants[j] /\ entries'[j] = entries[j]
  BY <1>1 DEF Granted, IInv, TypeOK
<1> HIDE DEF s, g, t, c0, x0, c1, x1
<1>8. /\ Append(s, g) \in Seq(Grant) /\ Len(Append(s, g)) = Len(s) + 1
      /\ \A n \in 1 .. Len(s) : Append(s, g)[n] = s[n]
      /\ Append(s, g)[Len(s) + 1] = g
      /\ Len(s) \in Nat
      /\ DOMAIN s = 1 .. Len(s)
      /\ DOMAIN Append(s, g) = 1 .. Len(s) + 1
  BY <1>1, <1>2, AppendProperties, LenProperties
<1>9. c0 # 0 => \/ x0 = x1 /\ c0 < c1
                \/ x0 + Window < x1
  BY ONLY <1>3, <1>4
<1>10. /\ 0 < c1 /\ x1 - Window <= clock /\ 0 <= x1 - Window
       /\ clock <= x1 + Lag
  BY ONLY <1>3, <1>4, <1>5
<1>11. \A n \in 1 .. Len(s) :
         InWindow(s[n]) /\ s[n].at <= clock /\ Earlier(s[n].entry, e)
  <2> SUFFICES ASSUME NEW n \in 1 .. Len(s)
               PROVE  /\ InWindow(s[n]) /\ s[n].at <= clock
                      /\ Earlier(s[n].entry, e)
    OBVIOUS
  <2> DEFINE c == s[n].entry.count
             x == s[n].entry.expiresAt
  <2>1. s[n] \in Grant
    BY <1>1, <1>8, ElementOfSeq
  <2>2. /\ InWindow(s[n]) /\ s[n].at <= clock
        /\ \/ c = c0 /\ x = x0
           \/ x = x0 /\ c < c0
           \/ x + Window < x0
    BY <1>6, <1>8 DEF Earlier, c0, x0
  <2>3. c0 # 0
    BY <1>1, <1>5, <1>8, EmptySeq
  <2>4. c \in Nat /\ x \in Nat
    BY <2>1, LimiterAssumption DEF Grant, Entry
  <2> HIDE DEF c, x
  <2>5. \/ x = x1 /\ c < c1
        \/ x + Window < x1
    BY ONLY <1>3, <1>9, <2>2, <2>3, <2>4
  <2> QED
    BY <2>2, <2>5 DEF Earlier, c, x, c1, x1
<1>12. InWindow(g) /\ g.at <= clock
  <2>1. g.entry.count = c1 /\ g.entry.expiresAt = x1
    BY <1>2 DEF c1, x1
  <2> QED
    BY <1>2, <1>3, <1>10, <2>1 DEF InWindow
<1>13. TypeOK'
  BY <1>1, <1>7, <1>8 DEF IInv, TypeOK, i
<1> HIDE DEF i
<1>14. ReadLately'
  BY DEF IInv, ReadLately
<1>15. Opened'
  <2> SUFFICES ASSUME NEW j \in Ip
               PROVE  IF entries'[j].count = 0
                      THEN entries'[j].expiresAt = 0 /\ grants'[j] = <<>>
                      ELSE entries'[j].expiresAt - Window \in 0 .. clock
    BY DEF Opened
  <2>1. CASE j = i
    <3>1. /\ entries'[j].count = c1 /\ entries'[j].expiresAt = x1
      BY <1>1, <2>1 DEF c1, x1
    <3>2. c1 # 0 /\ x1 - Window \in 0 .. clock
      BY ONLY <1>3, <1>10
    <3> QED
      BY <3>1, <3>2
  <2>2. CASE j # i
    BY <1>7, <2>2 DEF IInv, Opened
  <2> QED
    BY <2>1, <2>2
<1>16. Ordered'
  <2>1. ASSUME NEW n \in 1 .. Len(s) + 1
        PROVE  /\ InWindow(Append(s, g)[n]) /\ Append(s, g)[n].at <= clock
               /\ \/ Append(s, g)[n].entry = e
                  \/ Earlier(Append(s, g)[n].entry, e)
    <3>1. CASE n \in 1 .. Len(s)
      BY <1>8, <1>11, <3>1
    <3>2. CASE n = Len(s) + 1
      BY <1>2, <1>8, <1>12, <3>2
    <3> QED
      BY <1>8, <3>1, <3>2
  <2>2. ASSUME NEW m \in 1 .. Len(s) + 1, NEW n \in 1 .. Len(s) + 1, m < n
        PROVE  Earlier(Append(s, g)[m].entry, Append(s, g)[n].entry)
    <3>1. m \in 1 .. Len(s) /\ Append(s, g)[m] = s[m]
      BY <1>8, <2>2
    <3>2. CASE n \in 1 .. Len(s)
      BY <1>6, <1>8, <2>2, <3>1, <3>2
    <3>3. CASE n = Len(s) + 1
      BY <1>2, <1>8, <1>11, <3>1, <3>3
    <3> QED
      BY <1>8, <3>2, <3>3
  <2>3. ASSUME NEW j \in Ip, NEW n \in DOMAIN grants'[j]
        PROVE  /\ InWindow(grants'[j][n]) /\ grants'[j][n].at <= clock
               /\ \/ grants'[j][n].entry = entries'[j]
                  \/ Earlier(grants'[j][n].entry, entries'[j])
    <3>1. CASE j = i
      BY <1>1, <1>7, <1>8, <2>1, <2>3, <3>1
    <3>2. CASE j # i
      <4>1. /\ grants'[j] = grants[j] /\ entries'[j] = entries[j]
            /\ n \in DOMAIN grants[j]
        BY <1>7, <2>3, <3>2
      <4>2. /\ InWindow(grants[j][n]) /\ grants[j][n].at <= clock
            /\ \/ grants[j][n].entry = entries[j]
               \/ Earlier(grants[j][n].entry, entries[j])
        BY <4>1 DEF IInv, Ordered
      <4> QED
        BY <4>1, <4>2
    <3> QED
      BY <3>1, <3>2
  <2>4. ASSUME NEW j \in Ip, NEW m \in DOMAIN grants'[j],
               NEW n \in DOMAIN grants'[j], m < n
        PROVE  Earlier(grants'[j][m].entry, grants'[j][n].entry)
    <3>1. CASE j = i
      BY <1>7, <1>8, <2>2, <2>4, <3>1
    <3>2. CASE j # i
      BY <1>7, <2>4, <3>2 DEF IInv, Ordered
    <3> QED
      BY <3>1, <3>2
  <2> QED
    BY <2>3, <2>4 DEF Ordered
<1>17. Counted'
  <2> SUFFICES ASSUME NEW j \in Ip, NEW k \in 1 .. entries'[j].count
               PROVE  \E n \in DOMAIN grants'[j] :
                        /\ grants'[j][n].entry.count = k
                        /\ grants'[j][n].entry.expiresAt
                             = entries'[j].expiresAt
    BY DEF Counted
  <2>1. CASE j = i
    <3>1. entries'[j].count = c1 /\ entries'[j].expiresAt = x1
      BY <1>1, <2>1 DEF c1, x1
    <3>2. CASE k = c1
      <4>1. /\ Len(s) + 1 \in DOMAIN grants'[j]
            /\ grants'[j][Len(s) + 1] = g
        BY <1>7, <1>8, <2>1
      <4>2. g.entry.count = c1 /\ g.entry.expiresAt = x1
        BY <1>2 DEF c1, x1
      <4> QED
        BY <3>1, <3>2, <4>1, <4>2
    <3>3. CASE k # c1
      <4>1. k \in 1 .. c0 /\ x1 = x0
        <5>1. k \in 1 .. c1
          BY <3>1
        <5> QED
          BY ONLY <1>3, <1>4, <3>3, <5>1
      <4>2. PICK n \in DOMAIN s : /\ s[n].entry.count = k
                                  /\ s[n].entry.expiresAt = x0
        BY <1>6, <4>1
      <4>3. n \in DOMAIN grants'[j] /\ grants'[j][n] = s[n]
        BY <1>7, <1>8, <2>1, <4>2
      <4> QED
        BY <3>1, <4>1, <4>2, <4>3
    <3> QED
      BY <3>2, <3>3
  <2>2. CASE j # i
    BY <1>7, <2>2 DEF IInv, Counted
  <2> QED
    BY <2>1, <2>2
<1> QED
  BY <1>13, <1>14, <1>15, <1>16, <1>17 DEF IInv

\* What the mutex protects keeps IInv, and moves the end of a window, if it
\* does, behind the reading of the clock.
LEMMA AllowStep ==
  ASSUME IInv, NEW r \in Req, Allow(r)
  PROVE  /\ IInv'
         /\ \A i \in Ip : entries'[i].expiresAt >= entries[i].expiresAt
<1> USE LimiterAssumption
<1>1. /\ ip[r] \in Ip /\ now[r] \in 0 .. MaxClock
      /\ entries \in [Ip -> Entry] /\ entries[ip[r]] \in Entry
      /\ r \in waiting /\ waiting' \subseteq waiting
      /\ UNCHANGED <<clock, ip, now>>
  BY DEF IInv, TypeOK, Allow
<1>2. CASE OpenWindow(r)
  <2> DEFINE e == [count |-> 1, expiresAt |-> now[r] + Window]
  <2>1. e \in Entry /\ e.count = 1 /\ e.expiresAt = now[r] + Window
    BY <1>1 DEF Entry
  <2>2. /\ Expired(r) /\ Granted(r)
        /\ entries' = [entries EXCEPT ![ip[r]] = e]
    BY <1>2 DEF OpenWindow
  <2> HIDE DEF e
  <2>3. IInv'
    BY <1>1, <2>1, <2>2, GrantStep
  <2>4. entries[ip[r]].expiresAt <= e.expiresAt
    BY <1>1, <2>1, <2>2 DEF Expired, Entry, IInv, Opened
  <2> QED
    BY <1>1, <2>1, <2>2, <2>3, <2>4 DEF Entry
<1>3. CASE CountRequest(r)
  <2> DEFINE e == [entries[ip[r]] EXCEPT !.count = entries[ip[r]].count + 1]
  <2>1. /\ e \in Entry /\ e.count = entries[ip[r]].count + 1
        /\ e.expiresAt = entries[ip[r]].expiresAt
    BY <1>1, <1>3 DEF CountRequest, Entry
  <2>2. /\ ~Expired(r) /\ Granted(r)
        /\ entries' = [entries EXCEPT ![ip[r]] = e]
    BY <1>3 DEF CountRequest
  <2> HIDE DEF e
  <2>3. IInv'
    BY <1>1, <2>1, <2>2, GrantStep
  <2> QED
    BY <1>1, <2>1, <2>2, <2>3 DEF Entry
<1>4. CASE Refuse(r)
  BY <1>1, <1>4 DEF Refuse, IInv, TypeOK, ReadLately, Opened, Ordered,
                    Counted, Entry
<1> QED
  BY <1>2, <1>3, <1>4 DEF Allow

\* IInv is kept by every step, and no step brings the end of a window forward.
LEMMA StepIInv ==
  IInv /\ [Next]_vars =>
    IInv' /\ \A i \in Ip : entries'[i].expiresAt >= entries[i].expiresAt
<1> SUFFICES ASSUME IInv, [Next]_vars
             PROVE  /\ IInv'
                    /\ \A i \in Ip :
                         entries'[i].expiresAt >= entries[i].expiresAt
  OBVIOUS
<1> USE LimiterAssumption
<1>1. ASSUME UNCHANGED entries
      PROVE  \A i \in Ip : entries'[i].expiresAt >= entries[i].expiresAt
  BY <1>1 DEF IInv, TypeOK, Entry
<1>2. ASSUME UNCHANGED <<entries, grants>>,
             clock' \in clock .. MaxClock, TypeOK', ReadLately'
      PROVE  IInv'
  <2>1. clock \in Nat /\ clock' \in Nat /\ clock <= clock'
    BY <1>2 DEF IInv, TypeOK
  <2>2. Opened'
    BY <1>2, <2>1 DEF IInv, TypeOK, Entry, Opened
  <2>3. Ordered'
    <3> SUFFICES ASSUME NEW i \in Ip, NEW n \in DOMAIN grants[i]
                 PROVE  grants[i][n].at <= clock'
      BY <1>2 DEF IInv, Ordered
    <3> DEFINE at == grants[i][n].at
    <3>1. at \in Nat /\ at <= clock
      <4>1. grants[i][n] \in Grant
        BY ElementOfSeq, LenProperties DEF IInv, TypeOK
      <4> QED
        BY <4>1 DEF IInv, Ordered, Grant
    <3> HIDE DEF at
    <3>2. at <= clock'
      BY ONLY <2>1, <3>1
    <3> QED
      BY <3>2 DEF at
  <2>4. Counted'
    BY <1>2 DEF IInv, Counted
  <2> QED
    BY <1>2, <2>2, <2>3, <2>4 DEF IInv
<1>3. ASSUME NEW r \in Req, ReadClock(r) PROVE IInv'
  <2>1. TypeOK' /\ ReadLately' /\ clock' \in clock .. MaxClock
    BY <1>3 DEF IInv, TypeOK, ReadLately, ReadClock
  <2> QED
    BY <1>2, <1>3, <2>1 DEF ReadClock
<1>4. ASSUME Tick PROVE IInv'
  <2>1. TypeOK' /\ ReadLately' /\ clock' \in clock .. MaxClock
    BY <1>4 DEF IInv, TypeOK, ReadLately, Tick
  <2> QED
    BY <1>2, <1>4, <2>1 DEF Tick
<1>5. ASSUME UNCHANGED vars PROVE IInv'
  <2>1. TypeOK' /\ ReadLately' /\ clock' \in clock .. MaxClock
    BY <1>5 DEF IInv, TypeOK, ReadLately, vars
  <2> QED
    BY <1>2, <1>5, <2>1 DEF vars
<1> QED
  BY <1>1, <1>3, <1>4, <1>5, AllowStep DEF Next, ReadClock, Tick, vars

-----------------------------------------------------------------------------
\* The types of the variables, with the count of every entry at most Limit: no
\* window counts more requests than Limit, for any limit and any interleaving.
THEOREM TypeInvariant == Spec => []TypeOK
<1>1. IInv => TypeOK
  BY DEF IInv
<1> QED
  BY InitIInv, StepIInv, <1>1, PTL DEF Spec

\* A request that decides with a stale reading of the clock never brings the
\* end of a window forward, for any lag.
THEOREM WindowsOnlyMoveOn == Spec => ExpiryOnlyGrows
<1>1. IInv /\ [Next]_vars =>
        [\A i \in Ip : entries'[i].expiresAt >= entries[i].expiresAt]_vars
  BY StepIInv
<1> QED
  BY InitIInv, StepIInv, <1>1, PTL DEF Spec, ExpiryOnlyGrows

\* The grants of an address in a stretch of time are finitely many.
LEMMA GrantsAreFinite ==
  ASSUME TypeOK, NEW i \in Ip, NEW T
  PROVE  /\ DOMAIN grants[i] = 1 .. Len(grants[i])
         /\ IsFiniteSet({n \in DOMAIN grants[i] : grants[i][n].at \in T})
         /\ \A n \in DOMAIN grants[i] : grants[i][n] \in Grant
<1>1. grants[i] \in Seq(Grant) /\ Len(grants[i]) \in Nat
  BY LenProperties DEF TypeOK
<1>2. DOMAIN grants[i] = 1 .. Len(grants[i])
  BY <1>1, LenProperties
<1>3. IsFiniteSet(1 .. Len(grants[i]))
  BY <1>1, FS_Interval
<1>4. {n \in DOMAIN grants[i] : grants[i][n].at \in T}
        \in SUBSET (1 .. Len(grants[i]))
  BY <1>2
<1> QED
  BY <1>1, <1>2, <1>3, <1>4, FS_Subset, ElementOfSeq

\* While a window is open and full, the grants that filled it are all among
\* those of the last Window ticks before any reading that falls into it.
LEMMA FullMeansSpent ==
  ASSUME IInv, NEW r \in Req, r \in waiting,
         ~Expired(r), entries[ip[r]].count >= Limit
  PROVE  GrantsIn(ip[r], now[r] - Window, clock) >= Limit
<1> DEFINE i == ip[r]
           x == entries[i].expiresAt
           t == now[r]
           G == {n \in DOMAIN grants[i] :
                   grants[i][n].at \in t - Window .. clock}
           Is(n, k) == /\ grants[i][n].entry.count = k
                       /\ grants[i][n].entry.expiresAt = x
           f == [k \in 1 .. Limit |-> CHOOSE n \in DOMAIN grants[i] : Is(n, k)]
<1>1. /\ i \in Ip /\ entries[i] \in Entry
      /\ t \in Nat /\ clock \in Nat /\ x \in Nat /\ t <= x
      /\ entries[i].count = Limit /\ Window \in Nat /\ Limit \in Nat
  BY LimiterAssumption DEF IInv, TypeOK, Entry, Expired
<1>2. \A k \in 1 .. Limit : \E n \in DOMAIN grants[i] : Is(n, k)
  BY <1>1 DEF IInv, Counted
<1>3. \A k \in 1 .. Limit : f[k] \in DOMAIN grants[i] /\ Is(f[k], k)
  BY <1>2
<1>4. ASSUME NEW n \in DOMAIN grants[i], NEW k \in 1 .. Limit, Is(n, k)
      PROVE  n \in G
  <2> DEFINE at == grants[i][n].at
  <2>1. at \in Nat /\ x - Window <= at /\ at <= clock
    <3>1. grants[i][n] \in Grant
      BY <1>1, <1>4, GrantsAreFinite DEF IInv
    <3>2. InWindow(grants[i][n]) /\ at <= clock
      BY <1>1, <1>4 DEF IInv, Ordered
    <3> QED
      BY <1>4, <3>1, <3>2 DEF InWindow, Grant
  <2> HIDE DEF at, t, x
  <2>2. at \in t - Window .. clock
    BY ONLY <1>1, <2>1
  <2> QED
    BY <2>2, <1>4 DEF at
<1> HIDE DEF i, x, t, f
<1>5. f \in [1 .. Limit -> G]
  BY <1>3, <1>4 DEF f
<1>6. \A k, l \in 1 .. Limit : f[k] = f[l] => k = l
  BY <1>3
<1>7. f \in Injection(1 .. Limit, G)
  BY <1>5, <1>6, Fun_IsInj
<1>8. IsFiniteSet(G)
  BY <1>1, GrantsAreFinite DEF IInv
<1> HIDE DEF G
<1>9. Cardinality(1 .. Limit) <= Cardinality(G) /\ Cardinality(G) \in Nat
  BY <1>7, <1>8, FS_Injection, FS_CardinalityType
<1>10. Cardinality(1 .. Limit) = Limit
  BY <1>1, LimiterAssumption, FS_Interval
<1>11. Cardinality(G) >= Limit
  BY <1>1, <1>9, <1>10
<1> QED
  BY <1>11 DEF GrantsIn, G, i, t

\* An address is told 429 only after it had Limit requests through in the
\* Window before its request, for any limit, window, lag and interleaving.
THEOREM RefusedWhenSpent == Spec => RefusedOnlyWhenSpent
<1> DEFINE A == \A r \in Req :
                  r \in waiting /\ r \notin waiting' /\ grants' = grants =>
                    GrantsIn(ip[r], now[r] - Window, clock) >= Limit
<1>1. IInv /\ [Next]_vars => [A]_vars
  <2> SUFFICES ASSUME IInv, [Next]_vars, NEW r \in Req,
                      r \in waiting, r \notin waiting', grants' = grants
               PROVE  GrantsIn(ip[r], now[r] - Window, clock) >= Limit
    OBVIOUS
  <2>1. Allow(r)
    BY DEF Next, ReadClock, Allow, Tick, vars
  <2>2. ~Granted(r)
    <3> DEFINE s == grants[ip[r]]
               g == [at |-> clock, entry |-> entries'[ip[r]]]
    <3>1. /\ s \in Seq(Grant) /\ ip[r] \in Ip
          /\ grants \in [Ip -> Seq(Grant)]
      BY DEF IInv, TypeOK
    <3>2. entries'[ip[r]] \in Entry /\ clock \in 0 .. MaxClock
      BY <2>1, <3>1, AllowStep DEF IInv, TypeOK
    <3>3. g \in Grant
      BY <3>2 DEF Grant
    <3> HIDE DEF g
    <3>4. Append(s, g) # s
      <4>1. Len(Append(s, g)) = Len(s) + 1 /\ Len(s) \in Nat
        BY <3>1, <3>3, AppendProperties, LenProperties
      <4> QED
        BY <4>1
    <3> QED
      BY <3>1, <3>4 DEF Granted, g
  <2>3. Refuse(r)
    BY <2>1, <2>2 DEF Allow, OpenWindow, CountRequest
  <2> QED
    BY <2>3, FullMeansSpent DEF Refuse
<1> QED
  BY <1>1, InitIInv, StepIInv, PTL DEF Spec, RefusedOnlyWhenSpent

-----------------------------------------------------------------------------
\* Integer division, as far as the count of windows needs it.
LEMMA Division ==
  ASSUME NEW a \in Int, NEW d \in Nat \ {0}
  PROVE  /\ a \div d \in Int
         /\ d * (a \div d) <= a
         /\ a < d * (a \div d) + d
OBVIOUS

\* Numbers that are d apart fall into different stretches of length d.
LEMMA ApartMeansLater ==
  ASSUME NEW a \in Int, NEW b \in Int, NEW d \in Nat \ {0}, a + d <= b
  PROVE  a \div d < b \div d
BY Division

\* Division by a positive number is monotonic, and d more is one more.
LEMMA DivisionGrows ==
  ASSUME NEW a \in Int, NEW b \in Int, NEW d \in Nat \ {0}
  PROVE  /\ a <= b => a \div d <= b \div d
         /\ (a + d) \div d = a \div d + 1
BY Division

\* The windows that grants in a stretch of Window ticks belong to end within
\* 2 * Window + Lag ticks of each other, and each ends more than Window after
\* the one before it, so there are no more than Windows of them.
LEMMA FewWindows ==
  ASSUME NEW y \in 0 .. 2 * Window + Lag
  PROVE  y \div (Window + 1) \in 0 .. Windows - 1
<1> DEFINE d == Window + 1
           a == Window + Lag - 1
<1>1. d \in Nat \ {0} /\ a \in Int /\ a + d = 2 * Window + Lag
  BY LimiterAssumption
<1>2. y \in Nat /\ y <= a + d
  BY <1>1, LimiterAssumption
<1>3. Windows - 1 = a \div d + 1
  <2>1. a \div d \in Int
    BY <1>1, Division
  <2>2. Windows = 2 + a \div d
    BY DEF Windows
  <2> HIDE DEF a, d
  <2> QED
    BY <2>1, <2>2
<1> HIDE DEF a, d
<1>4. y \div d \in Int /\ y \div d <= (a + d) \div d
  <2>1. a + d \in Int /\ y \in Int
    BY <1>1, <1>2
  <2> QED
    BY ONLY <1>1, <1>2, <2>1, Division, DivisionGrows, Zenon
<1>5. 0 <= y \div d
  BY <1>1, <1>2, Division
<1>6. (a + d) \div d = a \div d + 1 /\ a \div d \in Int
  BY <1>1, Division, DivisionGrows
<1> QED
  BY <1>3, <1>4, <1>5, <1>6 DEF d

\* In any stretch of Window ticks an address gets at most Windows * Limit
\* requests through, for any limit, window and lag and any interleaving of the
\* requests: a grant is told from the others by its window and its count in it.
THEOREM BurstsAreBounded == Spec => []BurstIsBounded
<1>1. IInv => BurstIsBounded
  <2> SUFFICES ASSUME IInv, NEW i \in Ip, NEW from \in 0 .. clock
               PROVE  GrantsIn(i, from, from + Window) <= Windows * Limit
    BY DEF BurstIsBounded
  <2> DEFINE s == grants[i]
             G == {n \in DOMAIN s : s[n].at \in from .. from + Window}
             y(n) == s[n].entry.expiresAt - from + Lag
             place(n) == <<y(n) \div (Window + 1), s[n].entry.count>>
             P == (0 .. Windows - 1) \X (1 .. Limit)
             f == [n \in G |-> place(n)]
  <2>1. /\ from \in Nat /\ Window \in Nat /\ Lag \in Nat /\ clock \in Nat
        /\ Limit \in Nat
    BY LimiterAssumption DEF IInv, TypeOK
  <2>2. DOMAIN s = 1 .. Len(s) /\ IsFiniteSet(G)
    BY GrantsAreFinite DEF IInv
  <2>3. ASSUME NEW n \in G
        PROVE  /\ s[n].entry.expiresAt \in Nat
               /\ s[n].entry.count \in 1 .. Limit
               /\ y(n) \in 0 .. 2 * Window + Lag
    <3> DEFINE at == s[n].at
               x  == s[n].entry.expiresAt
    <3>1. s[n] \in Grant /\ InWindow(s[n])
      BY <2>3, GrantsAreFinite DEF IInv, Ordered
    <3>2. /\ x - Window <= at /\ at <= x + Lag
          /\ at \in from .. from + Window /\ at \in Nat /\ x \in Nat
      BY <2>3, <3>1, LimiterAssumption DEF InWindow, Grant, Entry
    <3>3. s[n].entry.count \in 1 .. Limit
      BY <3>1, LimiterAssumption DEF InWindow, Grant, Entry
    <3> HIDE DEF at, x
    <3>4. x - from + Lag \in 0 .. 2 * Window + Lag
      BY ONLY <2>1, <3>2
    <3> QED
      BY <3>2, <3>3, <3>4 DEF x
  <2>4. \A n \in G : place(n) \in P
    BY <2>3, FewWindows
  <2>5. ASSUME NEW m \in G, NEW n \in G, m < n PROVE place(m) # place(n)
    <3> DEFINE x1 == s[m].entry.expiresAt
               x2 == s[n].entry.expiresAt
               d  == Window + 1
    <3>1. \/ x1 = x2 /\ s[m].entry.count < s[n].entry.count
          \/ x1 + Window < x2
      BY <2>5 DEF IInv, Ordered, Earlier
    <3>2. /\ x1 \in Nat /\ x2 \in Nat
          /\ s[m].entry.count \in Nat /\ s[n].entry.count \in Nat
      BY <2>1, <2>3
    <3>3. CASE s[m].entry.count < s[n].entry.count
      BY <3>2, <3>3
    <3>4. CASE x1 + Window < x2
      <4> HIDE DEF x1, x2
      <4>1. /\ x1 - from + Lag \in Int /\ x2 - from + Lag \in Int
            /\ d \in Nat \ {0}
            /\ (x1 - from + Lag) + d <= x2 - from + Lag
        BY <2>1, <3>2, <3>4
      <4>2. (x1 - from + Lag) \div d < (x2 - from + Lag) \div d
        BY <4>1, ApartMeansLater
      <4>3. /\ (x1 - from + Lag) \div d \in Int
            /\ (x2 - from + Lag) \div d \in Int
        BY <4>1, Division
      <4>4. (x1 - from + Lag) \div d # (x2 - from + Lag) \div d
        BY ONLY <4>2, <4>3
      <4> QED
        BY <4>4 DEF x1, x2
    <3> QED
      BY <3>1, <3>3, <3>4
  <2> HIDE DEF s, y, place
  <2>6. \A m, n \in G : m < n \/ m = n \/ n < m
    BY <2>2, LenProperties
  <2>7. f \in [G -> P] /\ \A m, n \in G : f[m] = f[n] => m = n
    BY <2>4, <2>5, <2>6
  <2>8. IsFiniteSet(P) /\ Cardinality(P) = Windows * Limit
    <3>1. Windows \in Nat
      <4>1. (Window + Lag - 1) \div (Window + 1) \in Int
        BY <2>1, Division
      <4>2. 0 \div (Window + 1) \in 0 .. Windows - 1
        BY <2>1, FewWindows
      <4>3. Windows \in Int
        BY <4>1 DEF Windows
      <4> QED
        BY <4>2, <4>3
    <3>2. /\ IsFiniteSet(0 .. Windows - 1)
          /\ Cardinality(0 .. Windows - 1) = Windows
      BY <3>1, FS_Interval
    <3>3. /\ IsFiniteSet(1 .. Limit) /\ Cardinality(1 .. Limit) = Limit
      BY <2>1, FS_Interval
    <3> QED
      BY <3>2, <3>3, FS_Product
  <2> HIDE DEF f, P
  <2>9. Cardinality(G) <= Cardinality(P)
    BY <2>7, <2>8, Fun_IsInj, FS_Injection
  <2> QED
    BY <2>8, <2>9 DEF GrantsIn, G, s
<1> QED
  BY <1>1, InitIInv, StepIInv, PTL DEF Spec
=============================================================================
