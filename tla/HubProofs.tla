----------------------------- MODULE HubProofs ------------------------------
(***************************************************************************)
(* The safety invariants of Hub, proved for every set of connections, every *)
(* buffer capacity and every number of messages.                           *)
(*                                                                         *)
(* Control is about where the goroutines are and makes TypeOK inductive;   *)
(* Order is about what each message buffer holds, position by position,    *)
(* and is preserved by every step that also keeps TypeOK and Control.      *)
(***************************************************************************)
EXTENDS Hub, SequenceTheorems, TLAPS

\* A connection whose handler has not got past hub.Register has no part in
\* the hub yet.
NotYet(c) ==
  handler[c] \in {"idle", "registering"} =>
    /\ c \notin clients
    /\ ~closed[c]
    /\ send[c] = <<>>
    /\ hand[c] = <<>>
    /\ written[c] = <<>>

\* WritePump is started once, after hub.Register.
Started(c) ==
  writer[c] = "none" <=> handler[c] \in {"idle", "registering", "registered"}

\* What WritePump holds follows from where it is.
Holding(c) ==
  /\ writer[c] \in {"none", "select"} => hand[c] = <<>>
  /\ writer[c] = "writing" => Len(hand[c]) = 1

Control ==
  /\ \A c \in Client : NotYet(c) /\ Started(c) /\ Holding(c)
  /\ \A c \in Client : handler[c] = "broadcasting" => sent[c] > 0
  /\ todo # {} => log # <<>>

\* s is what l holds after position at.
Matches(s, l, at) == /\ at + Len(s) <= Len(l)
                     /\ \A i \in 1 .. Len(s) : s[i] = l[at + i]

\* The positions in log after which WritePump's hand and the buffer start.
HandAt(c) == joinedAt[c] + Len(written[c])
SendAt(c) == HandAt(c) + Len(hand[c])
End(c)    == SendAt(c) + Len(send[c])

\* InOrder, stage by stage.
Placed(c) == /\ Matches(written[c], log, joinedAt[c])
             /\ Matches(hand[c], log, HandAt(c))
             /\ Matches(send[c], log, SendAt(c))

\* MembersMissNothing, stage by stage.
UpToDate(c) ==
  c \in clients =>
    End(c) = IF c \in todo THEN Len(log) - 1 ELSE Len(log)

Order == \A c \in Client : Placed(c) /\ UpToDate(c)

-----------------------------------------------------------------------------
\* The types of the variables, TypeOK, hold in every behaviour for any set of
\* connections, capacity and number of messages; with them goes Control, which
\* says where the two goroutines of a connection can be at once.
THEOREM TypeInvariant == Spec => [](TypeOK /\ Control)
<1>1. Init => TypeOK /\ Control
  BY HubAssumption, EmptySeq
     DEF Init, TypeOK, Control, NotYet, Started, Holding, HandlerState,
         WriterState, Msg
<1>2. TypeOK /\ Control /\ [Next]_vars => (TypeOK /\ Control)'
  <2> SUFFICES ASSUME TypeOK, Control, [Next]_vars
               PROVE  (TypeOK /\ Control)'
    OBVIOUS
  <2> USE HubAssumption DEF TypeOK, Control, NotYet, Started, Holding,
       HandlerState, WriterState, hubVars, pumpVars, history, Goto,
       WriterGoto, AtSelect, Remove
  <2>1. ASSUME NEW c \in Client, Connect(c) PROVE (TypeOK /\ Control)'
    BY <2>1 DEF Connect
  <2>2. ASSUME NEW c \in Client, Register(c) PROVE (TypeOK /\ Control)'
    BY <2>2 DEF Register
  <2>3. ASSUME NEW c \in Client, StartPumps(c) PROVE (TypeOK /\ Control)'
    BY <2>3 DEF StartPumps
  <2>4. ASSUME NEW c \in Client, ReadMessage(c) PROVE (TypeOK /\ Control)'
    <3>1. TypeOK'
      BY <2>4 DEF ReadMessage
    <3>2. Control'
      BY <2>4 DEF ReadMessage
    <3> QED
      BY <3>1, <3>2
  <2>5. ASSUME NEW c \in Client, Broadcast(c) PROVE (TypeOK /\ Control)'
    <3>1. <<c, sent[c]>> \in Msg
      BY <2>5 DEF Broadcast, Msg
    <3>2. /\ log' = Append(log, <<c, sent[c]>>)
          /\ log' \in Seq(Msg)
          /\ log' # <<>>
      <4>1. log \in Seq(Msg) /\ log' = Append(log, <<c, sent[c]>>)
        BY <2>5 DEF Broadcast
      <4> QED
        BY ONLY <3>1, <4>1, AppendProperties
    <3> QED
      BY <2>5, <3>2 DEF Broadcast
  <2>6. ASSUME NEW c \in Client, ReadFails(c) PROVE (TypeOK /\ Control)'
    BY <2>6 DEF ReadFails
  <2>7. ASSUME NEW c \in Client, Unregister(c) PROVE (TypeOK /\ Control)'
    <3>1. TypeOK'
      BY <2>7 DEF Unregister
    <3>2. Control'
      BY <2>7 DEF Unregister
    <3> QED
      BY <3>1, <3>2
  <2>8. ASSUME NEW c \in Client, ReaderCloses(c) PROVE (TypeOK /\ Control)'
    BY <2>8 DEF ReaderCloses
  <2>9. ASSUME NEW c \in Client, FanOut(c) PROVE (TypeOK /\ Control)'
    <3>1. log[Len(log)] \in Msg
      BY <2>9, LenProperties, ElementOfSeq, EmptySeq DEF FanOut
    <3>2. CASE Len(send[c]) < SendCap
      <4> DEFINE longer == Append(send[c], log[Len(log)])
      <4>1. longer \in Seq(Msg) /\ Len(longer) = Len(send[c]) + 1
        BY <3>1, AppendProperties
      <4>2. Len(longer) <= SendCap
        BY <3>2, <4>1, LenProperties
      <4>3. send' = [send EXCEPT ![c] = longer]
        BY <2>9, <3>2 DEF FanOut
      <4> HIDE DEF longer
      <4> QED
        BY <2>9, <3>2, <4>1, <4>2, <4>3 DEF FanOut
    <3>3. CASE ~(Len(send[c]) < SendCap)
      <4>1. /\ todo' = todo \ {c}
            /\ clients' = clients \ {c}
            /\ closed' = [closed EXCEPT ![c] = TRUE]
            /\ UNCHANGED <<send, pumpVars, history>>
        BY <2>9, <3>3 DEF FanOut
      <4>2. handler[c] \notin {"idle", "registering"}
        BY <2>9 DEF FanOut
      <4>3. TypeOK'
        BY <4>1
      <4>4. Control'
        BY <4>1, <4>2
      <4> QED
        BY <4>3, <4>4
    <3> QED
      BY <3>2, <3>3
  <2>10. ASSUME NEW c \in Client, TakeMessage(c) PROVE (TypeOK /\ Control)'
    <3>1. /\ Head(send[c]) \in Msg
          /\ Tail(send[c]) \in Seq(Msg)
          /\ Len(Tail(send[c])) <= SendCap
      BY <2>10, HeadTailProperties, LenProperties DEF TakeMessage
    <3>2. /\ <<Head(send[c])>> \in Seq(Msg)
          /\ Len(<<Head(send[c])>>) = 1
      BY <3>1
    <3>3. TypeOK'
      BY SMTT(20), <2>10, <3>1, <3>2 DEF TakeMessage
    <3>4. Control'
      BY <2>10, <3>2 DEF TakeMessage
    <3> QED
      BY <3>3, <3>4
  <2>11. ASSUME NEW c \in Client, WriteSucceeds(c) PROVE (TypeOK /\ Control)'
    BY <2>11 DEF WriteSucceeds
  <2>12. ASSUME NEW c \in Client, WriteFails(c) PROVE (TypeOK /\ Control)'
    BY <2>12 DEF WriteFails
  <2>13. ASSUME NEW c \in Client, TakeClosed(c) PROVE (TypeOK /\ Control)'
    BY <2>13 DEF TakeClosed
  <2>14. ASSUME NEW c \in Client, PingFails(c) PROVE (TypeOK /\ Control)'
    BY <2>14 DEF PingFails
  <2>15. ASSUME NEW c \in Client, WriterCloses(c) PROVE (TypeOK /\ Control)'
    BY <2>15 DEF WriterCloses
  <2>16. ASSUME NEW c \in Client, PeerLost(c) PROVE (TypeOK /\ Control)'
    BY <2>16 DEF PeerLost
  <2>17. CASE UNCHANGED vars
    BY <2>17 DEF vars
  <2> QED
    BY <2>1, <2>2, <2>3, <2>4, <2>5, <2>6, <2>7, <2>8, <2>9, <2>10, <2>11,
       <2>12, <2>13, <2>14, <2>15, <2>16, <2>17
       DEF Next, HandlerStep, WriterStep, Quiescent
<1> QED
  BY <1>1, <1>2, PTL DEF Spec

-----------------------------------------------------------------------------
\* The buffer of a registered client is closed exactly when the client is out
\* of h.clients, whichever of the hub's two cases dropped it, and a handler
\* that went through Unregister leaves no entry behind.
THEOREM ClosedIsRemoved == Spec => []ClosedIffRemoved
<1>1. Init => ClosedIffRemoved
  BY DEF Init, ClosedIffRemoved
<1>2. ClosedIffRemoved /\ TypeOK /\ Control /\ [Next]_vars => ClosedIffRemoved'
  <2> SUFFICES ASSUME ClosedIffRemoved, TypeOK, Control, [Next]_vars
               PROVE  ClosedIffRemoved'
    OBVIOUS
  <2> USE DEF ClosedIffRemoved, TypeOK, HandlerState, hubVars, pumpVars,
       history, Goto, WriterGoto, Remove
  <2>1. ASSUME NEW c \in Client, Connect(c) PROVE ClosedIffRemoved'
    BY <2>1 DEF Connect
  <2>2. ASSUME NEW c \in Client, Register(c) PROVE ClosedIffRemoved'
    BY <2>2 DEF Register, Control, NotYet
  <2>3. ASSUME NEW c \in Client, Unregister(c) PROVE ClosedIffRemoved'
    BY <2>3 DEF Unregister
  <2>4. ASSUME NEW c \in Client, FanOut(c) PROVE ClosedIffRemoved'
    <3>1. handler[c] \notin {"idle", "registering"}
      BY <2>4 DEF FanOut, Control, NotYet
    <3>2. CASE Len(send[c]) < SendCap
      BY <2>4, <3>2 DEF FanOut
    <3>3. CASE ~(Len(send[c]) < SendCap)
      <4>1. /\ clients' = clients \ {c}
            /\ closed' = [closed EXCEPT ![c] = TRUE]
            /\ handler' = handler
        BY <2>4, <3>3 DEF FanOut
      <4>2. /\ handler \in [Client -> HandlerState]
            /\ closed \in [Client -> BOOLEAN]
        OBVIOUS
      <4>3. ASSUME NEW d \in Client
            PROVE  /\ closed'[d] <=>
                        /\ d \notin clients'
                        /\ handler'[d] \notin {"idle", "registering"}
                   /\ handler'[d] \in {"closing", "returned"} =>
                        d \notin clients'
        <5>1. CASE d = c
          BY <4>1, <4>2, <5>1, <3>1
        <5>2. CASE d # c
          BY <4>1, <4>2, <5>2
        <5> QED
          BY <5>1, <5>2
      <4> QED
        BY <4>3
    <3> QED
      BY <3>2, <3>3
  <2>5. ASSUME NEW c \in Client,
               \/ StartPumps(c) \/ ReadMessage(c) \/ Broadcast(c)
               \/ ReadFails(c) \/ ReaderCloses(c) \/ PeerLost(c)
        PROVE  ClosedIffRemoved'
    BY <2>5 DEF StartPumps, ReadMessage, Broadcast, ReadFails, ReaderCloses,
                PeerLost
  <2>6. ASSUME NEW c \in Client, WriterStep(c) PROVE ClosedIffRemoved'
    BY <2>6 DEF WriterStep, TakeMessage, WriteSucceeds, WriteFails,
                TakeClosed, PingFails, WriterCloses
  <2>7. CASE UNCHANGED vars
    BY <2>7 DEF vars
  <2> QED
    BY <2>1, <2>2, <2>3, <2>4, <2>5, <2>6, <2>7
       DEF Next, HandlerStep, Quiescent
<1> QED
  BY <1>1, <1>2, TypeInvariant, PTL DEF Spec

\* The hub goroutine never sends on a closed c.send and never closes one
\* twice: either would panic and, with no recover, end the server.
THEOREM HubNeverPanics == Spec => []NoPanic
<1>1. ClosedIffRemoved /\ TypeOK => NoPanic
  BY DEF ClosedIffRemoved, TypeOK, NoPanic
<1> QED
  BY <1>1, ClosedIsRemoved, TypeInvariant, PTL

-----------------------------------------------------------------------------
\* What was in the log stays where it was when the log grows.
LEMMA MatchesLonger ==
  ASSUME NEW S, NEW s \in Seq(S), NEW l \in Seq(S), NEW e \in S,
         NEW at \in Nat, Matches(s, l, at)
  PROVE  Matches(s, Append(l, e), at)
<1>1. /\ Len(Append(l, e)) = Len(l) + 1
      /\ \A i \in 1 .. Len(l) : Append(l, e)[i] = l[i]
      /\ Len(s) \in Nat /\ Len(l) \in Nat
  BY AppendProperties, LenProperties
<1>2. ASSUME NEW i \in 1 .. Len(s) PROVE s[i] = Append(l, e)[at + i]
  <2>1. at + i \in 1 .. Len(l) /\ s[i] = l[at + i]
    BY <1>1 DEF Matches
  <2> QED
    BY <1>1, <2>1
<1>3. at + Len(s) <= Len(Append(l, e))
  BY <1>1 DEF Matches
<1> QED
  BY <1>2, <1>3 DEF Matches

\* A stage that takes the next message of the log still matches it.
LEMMA MatchesAppend ==
  ASSUME NEW S, NEW s \in Seq(S), NEW l \in Seq(S), NEW at \in Nat,
         Matches(s, l, at), at + Len(s) + 1 <= Len(l)
  PROVE  Matches(Append(s, l[at + Len(s) + 1]), l, at)
<1> DEFINE e == l[at + Len(s) + 1]
<1>1. Len(s) \in Nat /\ Len(l) \in Nat
  BY LenProperties
<1>2. e \in S
  BY <1>1, ElementOfSeq
<1> HIDE DEF e
<1>3. /\ Len(Append(s, e)) = Len(s) + 1
      /\ \A i \in 1 .. Len(s) : Append(s, e)[i] = s[i]
      /\ Append(s, e)[Len(s) + 1] = e
  BY <1>2, AppendProperties
<1>4. ASSUME NEW i \in 1 .. Len(s) + 1
      PROVE  Append(s, e)[i] = l[at + i]
  <2>1. CASE i \in 1 .. Len(s)
    BY <1>3, <2>1 DEF Matches
  <2>2. CASE i = Len(s) + 1
    BY <1>1, <1>3, <2>2 DEF e
  <2> QED
    BY <1>1, <2>1, <2>2
<1>5. Matches(Append(s, e), l, at)
  BY <1>1, <1>3, <1>4 DEF Matches
<1> QED
  BY <1>5 DEF e

\* A stage that gives its first message away holds what comes after it.
LEMMA MatchesTail ==
  ASSUME NEW S, NEW s \in Seq(S), NEW l \in Seq(S), NEW at \in Nat,
         Matches(s, l, at), s # <<>>
  PROVE  /\ Matches(<<Head(s)>>, l, at)
         /\ Matches(Tail(s), l, at + 1)
<1>1. /\ Len(s) \in Nat \ {0} /\ Len(l) \in Nat
      /\ Len(Tail(s)) = Len(s) - 1
      /\ \A i \in 1 .. Len(Tail(s)) : Tail(s)[i] = s[i + 1]
  BY EmptySeq, LenProperties, HeadTailProperties
<1>2. /\ Len(<<Head(s)>>) = 1
      /\ <<Head(s)>>[1] = s[1]
  BY <1>1
<1>3. Matches(<<Head(s)>>, l, at)
  BY <1>1, <1>2 DEF Matches
<1>4. ASSUME NEW i \in 1 .. Len(Tail(s))
      PROVE  Tail(s)[i] = l[at + 1 + i]
  <2>1. i + 1 \in 1 .. Len(s) /\ Tail(s)[i] = s[i + 1]
    BY <1>1
  <2>2. s[i + 1] = l[at + (i + 1)]
    BY <2>1 DEF Matches
  <2>3. at + (i + 1) = at + 1 + i
    OBVIOUS
  <2> QED
    BY <2>1, <2>2, <2>3
<1>5. Matches(Tail(s), l, at + 1)
  BY <1>1, <1>4 DEF Matches
<1> QED
  BY <1>3, <1>5

\* Nothing matches anywhere in the log.
LEMMA MatchesEmpty ==
  ASSUME NEW S, NEW l \in Seq(S), NEW at \in 0 .. Len(l)
  PROVE  Len(<<>>) = 0 /\ Matches(<<>>, l, at)
BY EmptySeq, LenProperties DEF Matches

\* Order is kept by every step that keeps TypeOK and Control.
LEMMA OrderInvariant == Spec => []Order
<1>1. Init => Order
  <2>1. Len(<<>>) = 0 /\ Matches(<<>>, <<>>, 0)
    BY EmptySeq DEF Matches
  <2> SUFFICES ASSUME Init, NEW c \in Client PROVE Placed(c) /\ UpToDate(c)
    BY DEF Order
  <2>2. /\ written[c] = <<>> /\ hand[c] = <<>> /\ send[c] = <<>>
        /\ log = <<>> /\ joinedAt[c] = 0 /\ c \notin clients
    BY DEF Init
  <2> QED
    BY <2>1, <2>2 DEF Placed, UpToDate, HandAt, SendAt
<1>2. Order /\ TypeOK /\ Control /\ [Next]_vars => Order'
  <2> SUFFICES ASSUME Order, TypeOK, Control, [Next]_vars, NEW d \in Client
               PROVE  Placed(d)' /\ UpToDate(d)'
    BY DEF Order
  <2> USE DEF HandAt, SendAt, End, hubVars, pumpVars, history
  <2>1. /\ Placed(d) /\ UpToDate(d)
        /\ written[d] \in Seq(Msg) /\ Len(written[d]) \in Nat
        /\ hand[d] \in Seq(Msg) /\ Len(hand[d]) \in Nat
        /\ send[d] \in Seq(Msg) /\ Len(send[d]) \in Nat
        /\ log \in Seq(Msg) /\ Len(log) \in Nat
        /\ joinedAt[d] \in Nat
    BY LenProperties DEF Order, TypeOK
  <2>2. ASSUME log' = log, joinedAt'[d] = joinedAt[d],
               written'[d] = written[d], hand'[d] = hand[d],
               send'[d] = send[d], d \in clients' => d \in clients,
               d \in clients' => (d \in todo' <=> d \in todo)
        PROVE  Placed(d)' /\ UpToDate(d)'
    BY <2>1, <2>2 DEF Placed, UpToDate, Matches
  <2>3. ASSUME NEW c \in Client, Register(c)
        PROVE  Placed(d)' /\ UpToDate(d)'
    <3>1. CASE d = c
      <4>1. /\ written'[d] = <<>> /\ hand'[d] = <<>> /\ send'[d] = <<>>
            /\ log' = log /\ joinedAt'[d] = Len(log) /\ todo' = {}
        BY <2>3, <3>1 DEF Register, Goto, AtSelect, Control, NotYet, TypeOK
      <4>2. Len(<<>>) = 0 /\ Matches(<<>>, log, Len(log))
        BY <2>1, MatchesEmpty
      <4> QED
        BY <2>1, <4>1, <4>2 DEF Placed, UpToDate
    <3>2. CASE d # c
      BY <2>2, <2>3, <3>2 DEF Register, TypeOK
    <3> QED
      BY <3>1, <3>2
  <2>4. ASSUME NEW c \in Client, Broadcast(c)
        PROVE  Placed(d)' /\ UpToDate(d)'
    <3> DEFINE e == <<c, sent[c]>>
    <3>1. e \in Msg
      BY <2>4 DEF Broadcast, Goto, TypeOK, Control, Msg
    <3> HIDE DEF e
    <3>2. /\ log' = Append(log, e)
          /\ todo = {} /\ todo' = clients
          /\ UNCHANGED <<joinedAt, written, hand, send, clients>>
      BY <2>4 DEF Broadcast, AtSelect, e
    <3>3. Placed(d)'
      BY <2>1, <3>1, <3>2, MatchesLonger DEF Placed
    <3>4. Len(log') = Len(log) + 1
      BY <2>1, <3>1, <3>2, AppendProperties
    <3>5. UpToDate(d)'
      BY <2>1, <3>2, <3>4 DEF UpToDate
    <3> QED
      BY <3>3, <3>5
  <2>5. ASSUME NEW c \in Client, Unregister(c)
        PROVE  Placed(d)' /\ UpToDate(d)'
    BY <2>2, <2>5 DEF Unregister, Remove
  <2>6. ASSUME NEW c \in Client, FanOut(c)
        PROVE  Placed(d)' /\ UpToDate(d)'
    <3>1. CASE d = c /\ Len(send[c]) < SendCap
      <4> DEFINE at == SendAt(d)
                 longer == Append(send[d], log[Len(log)])
      <4>1. End(d) = Len(log) - 1
        BY <2>1, <2>6, <3>1 DEF FanOut, TypeOK, UpToDate
      <4>2. at \in Nat /\ at + Len(send[d]) + 1 = Len(log)
        BY <2>1, <4>1
      <4>3. Matches(send[d], log, at)
        BY <2>1 DEF Placed
      <4>4. /\ send'[d] = longer /\ d \notin todo'
            /\ UNCHANGED <<log, joinedAt, written, hand>>
        BY <2>6, <3>1 DEF FanOut, TypeOK
      <4> HIDE DEF at
      <4>5. Matches(longer, log, at)
        <5>1. at + Len(send[d]) + 1 <= Len(log)
          BY <2>1, <4>2
        <5>2. Matches(Append(send[d], log[at + Len(send[d]) + 1]), log, at)
          BY ONLY <2>1, <4>2, <4>3, <5>1, MatchesAppend
        <5> QED
          BY <4>2, <5>2
      <4>6. Len(longer) = Len(send[d]) + 1
        BY <2>1, <4>2, ElementOfSeq, AppendProperties
      <4> HIDE DEF longer
      <4>7. Placed(d)'
        BY <2>1, <4>4, <4>5 DEF Placed, at
      <4>8. End(d)' = Len(log')
        BY <2>1, <4>2, <4>4, <4>6 DEF at
      <4> QED
        BY <4>4, <4>7, <4>8 DEF UpToDate
    <3>2. CASE d = c /\ ~(Len(send[c]) < SendCap)
      BY <2>2, <2>6, <3>2 DEF FanOut, Remove
    <3>3. CASE d # c
      BY <2>2, <2>6, <3>3 DEF FanOut, Remove, TypeOK
    <3> QED
      BY <3>1, <3>2, <3>3
  <2>7. ASSUME NEW c \in Client, TakeMessage(c)
        PROVE  Placed(d)' /\ UpToDate(d)'
    <3>1. CASE d = c
      <4>1. hand[d] = <<>> /\ Len(hand[d]) = 0
        BY <2>7, <3>1, EmptySeq DEF TakeMessage, WriterGoto, Control, Holding
      <4>2. send[d] # <<>>
        BY <2>7, <3>1 DEF TakeMessage
      <4>3. /\ hand'[d] = <<Head(send[d])>> /\ send'[d] = Tail(send[d])
            /\ UNCHANGED <<log, joinedAt, written, clients, todo>>
        BY <2>7, <3>1 DEF TakeMessage, TypeOK
      <4>4. HandAt(d) \in Nat /\ Matches(send[d], log, HandAt(d))
        BY <2>1, <4>1 DEF Placed
      <4>5. /\ Matches(hand'[d], log, HandAt(d))
            /\ Matches(send'[d], log, HandAt(d) + 1)
        BY <2>1, <4>2, <4>3, <4>4, MatchesTail
      <4>6. Len(hand'[d]) = 1 /\ Len(send'[d]) = Len(send[d]) - 1
        BY <2>1, <4>2, <4>3, HeadTailProperties
      <4> QED
        BY SMTT(20), <2>1, <4>1, <4>3, <4>5, <4>6 DEF Placed, UpToDate
    <3>2. CASE d # c
      BY <2>2, <2>7, <3>2 DEF TakeMessage, TypeOK
    <3> QED
      BY <3>1, <3>2
  <2>8. ASSUME NEW c \in Client, WriteSucceeds(c)
        PROVE  Placed(d)' /\ UpToDate(d)'
    <3>1. CASE d = c
      <4>1. Len(hand[d]) = 1
        BY <2>8, <3>1 DEF WriteSucceeds, WriterGoto, Control, Holding
      <4>2. /\ written'[d] = Append(written[d], hand[d][1])
            /\ hand'[d] = <<>>
            /\ UNCHANGED <<log, joinedAt, send, clients, todo>>
        BY <2>8, <3>1 DEF WriteSucceeds, TypeOK
      <4>3. /\ Matches(hand[d], log, HandAt(d))
            /\ hand[d][1] = log[HandAt(d) + 1]
            /\ HandAt(d) + 1 <= Len(log)
        BY <2>1, <4>1 DEF Placed, Matches
      <4>4. Matches(written'[d], log, joinedAt[d])
        BY <2>1, <4>2, <4>3, MatchesAppend DEF Placed
      <4>5. hand[d][1] \in Msg
        BY <2>1, <4>1, ElementOfSeq
      <4>6. Len(written'[d]) = Len(written[d]) + 1
        BY <2>1, <4>2, <4>5, AppendProperties
      <4>7. Len(<<>>) = 0 /\ Matches(<<>>, log, HandAt(d) + 1)
        BY <2>1, <4>3, MatchesEmpty
      <4> QED
        BY <2>1, <4>1, <4>2, <4>4, <4>6, <4>7 DEF Placed, UpToDate
    <3>2. CASE d # c
      BY <2>2, <2>8, <3>2 DEF WriteSucceeds, TypeOK
    <3> QED
      BY <3>1, <3>2
  <2>9. ASSUME NEW c \in Client,
               \/ Connect(c) \/ StartPumps(c) \/ ReadMessage(c)
               \/ ReadFails(c) \/ ReaderCloses(c) \/ PeerLost(c)
               \/ WriteFails(c) \/ TakeClosed(c) \/ PingFails(c)
               \/ WriterCloses(c)
        PROVE  Placed(d)' /\ UpToDate(d)'
    BY <2>2, <2>9 DEF Connect, StartPumps, ReadMessage, ReadFails,
       ReaderCloses, PeerLost, WriteFails, TakeClosed, PingFails,
       WriterCloses
  <2>10. CASE UNCHANGED vars
    BY <2>2, <2>10 DEF vars
  <2> QED
    BY <2>3, <2>4, <2>5, <2>6, <2>7, <2>8, <2>9, <2>10
       DEF Next, HandlerStep, WriterStep, Quiescent
<1> QED
  BY <1>1, <1>2, TypeInvariant, PTL DEF Spec

\* The pipeline of c is its three stages one after the other.
LEMMA PipelineMatches ==
  ASSUME TypeOK, NEW c \in Client, Placed(c)
  PROVE  /\ joinedAt[c] + Len(Pipeline(c)) = End(c)
         /\ Matches(Pipeline(c), log, joinedAt[c])
<1> DEFINE w == written[c]
           h == hand[c]
           s == send[c]
<1>1. /\ w \in Seq(Msg) /\ h \in Seq(Msg) /\ s \in Seq(Msg)
      /\ Len(w) \in Nat /\ Len(h) \in Nat /\ Len(s) \in Nat
      /\ joinedAt[c] \in Nat
  BY LenProperties DEF TypeOK
<1>2. /\ Matches(w, log, joinedAt[c])
      /\ Matches(h, log, joinedAt[c] + Len(w))
      /\ Matches(s, log, joinedAt[c] + Len(w) + Len(h))
  BY DEF Placed, HandAt, SendAt
<1> HIDE DEF w, h, s
<1>3. Pipeline(c) = (w \o h) \o s
  BY DEF Pipeline, w, h, s
<1>4. /\ w \o h \in Seq(Msg)
      /\ Len(w \o h) = Len(w) + Len(h)
      /\ \A i \in 1 .. Len(w) + Len(h) :
            (w \o h)[i] = IF i <= Len(w) THEN w[i] ELSE h[i - Len(w)]
  BY <1>1, ConcatProperties
<1>5. /\ Len(Pipeline(c)) = Len(w) + Len(h) + Len(s)
      /\ \A i \in 1 .. Len(w) + Len(h) + Len(s) :
            Pipeline(c)[i] = IF i <= Len(w) + Len(h) THEN (w \o h)[i]
                             ELSE s[i - (Len(w) + Len(h))]
  BY <1>1, <1>3, <1>4, ConcatProperties
<1>6. ASSUME NEW i \in 1 .. Len(Pipeline(c))
      PROVE  Pipeline(c)[i] = log[joinedAt[c] + i]
  <2>0. i \in Nat /\ 1 <= i /\ i <= Len(w) + Len(h) + Len(s)
    BY <1>1, <1>5
  <2>1. CASE i <= Len(w)
    <3>1. i \in 1 .. Len(w) /\ Pipeline(c)[i] = w[i]
      BY <1>1, <1>4, <1>5, <2>0, <2>1
    <3> QED
      BY <1>2, <3>1 DEF Matches
  <2>2. CASE Len(w) < i /\ i <= Len(w) + Len(h)
    <3> DEFINE j == i - Len(w)
    <3>1. j \in 1 .. Len(h) /\ Pipeline(c)[i] = h[j]
      BY <1>1, <1>4, <1>5, <2>0, <2>2
    <3>2. joinedAt[c] + Len(w) + j = joinedAt[c] + i
      BY <1>1, <2>0
    <3> HIDE DEF j
    <3> QED
      BY <1>2, <3>1, <3>2 DEF Matches
  <2>3. CASE Len(w) + Len(h) < i
    <3> DEFINE j == i - (Len(w) + Len(h))
    <3>1. j \in 1 .. Len(s) /\ Pipeline(c)[i] = s[j]
      BY <1>1, <1>5, <2>0, <2>3
    <3>2. joinedAt[c] + Len(w) + Len(h) + j = joinedAt[c] + i
      BY <1>1, <2>0
    <3> HIDE DEF j
    <3> QED
      BY <1>2, <3>1, <3>2 DEF Matches
  <2> QED
    BY <1>1, <2>0, <2>1, <2>2, <2>3
<1>7. joinedAt[c] + Len(Pipeline(c)) = End(c)
  <2>1. End(c) = joinedAt[c] + Len(w) + Len(h) + Len(s)
    BY DEF End, SendAt, HandAt, w, h, s
  <2> QED
    BY <1>1, <1>5, <2>1
<1>8. joinedAt[c] + Len(Pipeline(c)) <= Len(log)
  BY <1>1, <1>2, <1>5 DEF Matches
<1> QED
  BY <1>6, <1>7, <1>8 DEF Matches

\* What a connection is sent is a contiguous stretch of the hub's order that
\* starts where it registered, for every interleaving of the fan-out with the
\* WritePumps and for every place where a connection ends.
THEOREM NoGapNoReorder == Spec => []InOrder
<1>1. TypeOK /\ Order => InOrder
  BY PipelineMatches DEF Order, InOrder, Matches
<1> QED
  BY <1>1, TypeInvariant, OrderInvariant, PTL

\* A client is in h.clients only while everything broadcast since it
\* registered was put in its buffer, but for the message being fanned out.
THEOREM NothingMissed == Spec => []MembersMissNothing
<1>1. TypeOK /\ Order => MembersMissNothing
  <2> SUFFICES ASSUME TypeOK, Order, NEW c \in clients
               PROVE  joinedAt[c] + Len(Pipeline(c)) =
                        Len(log) - (IF c \in todo THEN 1 ELSE 0)
    BY DEF MembersMissNothing
  <2>1. c \in Client /\ Placed(c) /\ UpToDate(c) /\ Len(log) \in Nat
    BY LenProperties DEF Order, TypeOK
  <2> QED
    BY <2>1, PipelineMatches DEF UpToDate
<1> QED
  BY <1>1, TypeInvariant, OrderInvariant, PTL
=============================================================================
