--------------------------- MODULE HubRefinement ----------------------------
(***************************************************************************)
(* The hub with its goroutines implements Room, for every set of           *)
(* connections, every buffer capacity and every number of messages.        *)
(*                                                                         *)
(* A step of the room is one step of the code:                             *)
(*    Join     the hub's select takes a client from h.register             *)
(*    Post     the hub's select takes a message from h.broadcast           *)
(*    Deliver  WritePump's WriteMessage returns nil                        *)
(*    Leave    the hub drops a client, because its buffer is full or       *)
(*             because it was in h.clients when it unregistered            *)
(* and all others, the loop of a broadcast among them, are invisible.      *)
(***************************************************************************)
EXTENDS HubProofs

\* What the proofs of HubProofs established of every state.
Inv == TypeOK /\ Control /\ Order /\ ClosedIffRemoved

\* Three stages one after the other are as long as the three together.
LEMMA StagesAddUp ==
  ASSUME NEW S, NEW w \in Seq(S), NEW h \in Seq(S), NEW s \in Seq(S)
  PROVE  /\ Len(w \o h \o s) = Len(w) + Len(h) + Len(s)
         /\ \A at \in Nat : at + Len(w \o h \o s)
                              = at + Len(w) + Len(h) + Len(s)
<1>1. w \o h \in Seq(S) /\ Len(w \o h) = Len(w) + Len(h)
  BY ConcatProperties
<1>2. Len((w \o h) \o s) = Len(w \o h) + Len(s)
  BY <1>1, ConcatProperties
<1>3. Len(w) \in Nat /\ Len(h) \in Nat /\ Len(s) \in Nat
  BY LenProperties
<1> QED
  BY <1>1, <1>2, <1>3

\* The cut of a client whose channel is closed is where its buffer ends, before
\* a step of the hub and after it.
LEMMA CutIsTheEnd ==
  ASSUME TypeOK, TypeOK', NEW c \in Client
  PROVE  /\ cut[c] = IF closed[c] THEN End(c) ELSE 0
         /\ cut'[c] = IF closed'[c] THEN End(c)' ELSE 0
<1>1. /\ written[c] \in Seq(Msg) /\ hand[c] \in Seq(Msg)
      /\ send[c] \in Seq(Msg)
      /\ written'[c] \in Seq(Msg) /\ hand'[c] \in Seq(Msg)
      /\ send'[c] \in Seq(Msg)
  BY DEF TypeOK, Msg
<1>2. /\ Len(written[c]) \in Nat /\ Len(hand[c]) \in Nat
      /\ Len(send[c]) \in Nat
      /\ Len(written'[c]) \in Nat /\ Len(hand'[c]) \in Nat
      /\ Len(send'[c]) \in Nat
      /\ joinedAt[c] \in Nat /\ joinedAt'[c] \in Nat
  BY <1>1, LenProperties DEF TypeOK
<1>3. joinedAt[c] + Len(Pipeline(c)) = End(c)
  <2>1. \A at \in Nat :
          at + Len(Pipeline(c))
            = at + Len(written[c]) + Len(hand[c]) + Len(send[c])
    <3> DEFINE w == written[c]
               h == hand[c]
               s == send[c]
    <3>1. w \in Seq(Msg) /\ h \in Seq(Msg) /\ s \in Seq(Msg)
      BY <1>1
    <3>2. Pipeline(c) = w \o h \o s
      BY DEF Pipeline
    <3> HIDE DEF w, h, s
    <3>3. \A at \in Nat : at + Len(w \o h \o s)
                           = at + Len(w) + Len(h) + Len(s)
      BY <3>1, StagesAddUp
    <3> QED
      BY ONLY <3>2, <3>3, Zenon DEF w, h, s
  <2> QED
    BY Zenon, <1>2, <2>1 DEF End, SendAt, HandAt
<1>4. joinedAt'[c] + Len(Pipeline(c)') = End(c)'
  <2>1. \A at \in Nat :
          at + Len(Pipeline(c)')
            = at + Len(written'[c]) + Len(hand'[c]) + Len(send'[c])
    <3> DEFINE w == written'[c]
               h == hand'[c]
               s == send'[c]
    <3>1. w \in Seq(Msg) /\ h \in Seq(Msg) /\ s \in Seq(Msg)
      BY <1>1
    <3>2. Pipeline(c)' = w \o h \o s
      BY DEF Pipeline
    <3> HIDE DEF w, h, s
    <3>3. \A at \in Nat : at + Len(w \o h \o s)
                           = at + Len(w) + Len(h) + Len(s)
      BY <3>1, StagesAddUp
    <3> QED
      BY ONLY <3>2, <3>3, Zenon DEF w, h, s
  <2> QED
    BY Zenon, <1>2, <2>1 DEF End, SendAt, HandAt
<1> QED
  BY <1>3, <1>4 DEF cut

\* A step that leaves a connection where it is for the hub, and its buffered
\* messages with it, is invisible to the room.
LEMMA Invisible ==
  ASSUME UNCHANGED <<log, joinedAt, written, clients, closed>>,
         \A c \in Client :
           /\ handler'[c] \in {"idle", "registering"} <=>
                handler[c] \in {"idle", "registering"}
           /\ posted'[c] = posted[c]
           /\ cut'[c] = cut[c]
  PROVE  UNCHANGED R!vars
<1>1. phase' = phase
  BY DEF phase
<1>2. posted' = posted
  BY DEF posted
<1>3. cut' = cut
  BY DEF cut
<1> QED
  BY <1>1, <1>2, <1>3 DEF R!vars

\* `case client := <-h.register`.
LEMMA RegisterJoins ==
  ASSUME Inv, Inv', NEW c \in Client, Register(c)
  PROVE  R!Join(c)
<1>1. /\ handler[c] = "registering"
      /\ handler' = [handler EXCEPT ![c] = "registered"]
      /\ clients' = clients \cup {c}
      /\ joinedAt' = [joinedAt EXCEPT ![c] = Len(log)]
      /\ UNCHANGED <<closed, send, hand, sent, log, written>>
  BY DEF Register, Goto
<1>2. c \notin clients /\ ~closed[c]
  BY <1>1 DEF Inv, Control, NotYet
<1>3. phase[c] = "out" /\ phase' = [phase EXCEPT ![c] = "in"]
  BY <1>1, <1>2 DEF phase, Inv, TypeOK
<1>4. posted' = posted
  BY <1>1 DEF posted, Inv, TypeOK
<1>5. cut' = cut
  BY <1>1, <1>2 DEF cut, Pipeline, Inv, TypeOK
<1> QED
  BY <1>1, <1>3, <1>4, <1>5 DEF R!Join

\* `case message := <-h.broadcast`, whatever the loop has still to do.
LEMMA BroadcastPosts ==
  ASSUME Inv, Inv', NEW c \in Client, Broadcast(c)
  PROVE  R!Post(c)
<1>1. /\ handler[c] = "broadcasting"
      /\ handler' = [handler EXCEPT ![c] = "reading"]
      /\ log' = Append(log, <<c, sent[c]>>)
      /\ UNCHANGED <<clients, closed, send, hand, sent, joinedAt, written>>
  BY DEF Broadcast, Goto
<1>2. sent[c] \in 1 .. MaxMsgs
  BY <1>1, HubAssumption DEF Inv, Control, TypeOK
<1>3. /\ posted[c] = sent[c] - 1
      /\ posted' = [posted EXCEPT ![c] = @ + 1]
  <2>1. posted[c] = sent[c] - 1 /\ posted'[c] = sent[c]
    BY <1>1 DEF posted, Inv, TypeOK
  <2>2. \A d \in Client \ {c} : posted'[d] = posted[d]
    BY <1>1 DEF posted, Inv, TypeOK
  <2>3. posted'[c] = posted[c] + 1
    BY <1>2, <2>1
  <2>4. /\ posted = [d \in Client |-> posted[d]]
        /\ posted' = [d \in Client |-> posted'[d]]
    BY DEF posted
  <2> QED
    BY ONLY <2>1, <2>2, <2>3, <2>4
<1>4. posted[c] + 1 = sent[c] /\ posted[c] < MaxMsgs
  BY <1>2, <1>3, HubAssumption
<1>5. phase[c] # "out" /\ phase' = phase
  BY <1>1 DEF phase, Inv, TypeOK
<1>6. cut' = cut
  BY <1>1 DEF cut, Pipeline
<1> QED
  BY <1>1, <1>3, <1>4, <1>5, <1>6 DEF R!Post

\* A message that WritePump has written is the one the room shows next, also
\* when the client was dropped after WritePump took it.
LEMMA WriteDelivers ==
  ASSUME Inv, Inv', NEW c \in Client, WriteSucceeds(c)
  PROVE  R!Deliver(c)
<1>1. /\ writer[c] = "writing"
      /\ written' = [written EXCEPT ![c] = Append(@, hand[c][1])]
      /\ hand' = [hand EXCEPT ![c] = <<>>]
      /\ UNCHANGED <<clients, closed, send, handler, sent, log, joinedAt>>
  BY DEF WriteSucceeds, WriterGoto, hubVars
<1>2. /\ written[c] \in Seq(Msg) /\ Len(written[c]) \in Nat
      /\ hand[c] \in Seq(Msg) /\ Len(hand[c]) = 1
      /\ send[c] \in Seq(Msg) /\ Len(send[c]) \in Nat
      /\ joinedAt[c] \in Nat
      /\ Placed(c)
  BY <1>1, LenProperties DEF Inv, TypeOK, Control, Holding, Order
<1>3. /\ hand[c][1] = log[HandAt(c) + 1]
      /\ HandAt(c) + 1 <= Len(log)
      /\ HandAt(c) < End(c)
  BY <1>2 DEF Placed, Matches, HandAt, SendAt, End
<1>4. R!Shown(c) = HandAt(c)
  BY DEF R!Shown, HandAt
<1>5. written' = [written EXCEPT ![c] = Append(@, log[R!Shown(c) + 1])]
  BY <1>1, <1>3, <1>4
<1>6. phase' = phase /\ posted' = posted
  BY <1>1 DEF phase, posted
<1>7. cut' = cut
  <2>1. ASSUME NEW d \in Client PROVE cut'[d] = cut[d]
    <3>1. End(d)' = End(d)
      <4>1. CASE d = c
        <5>1. hand[c][1] \in Msg
          BY <1>2, ElementOfSeq
        <5>2. /\ Len(written'[c]) = Len(written[c]) + 1
              /\ hand'[c] = <<>> /\ Len(hand'[c]) = 0
          BY <1>1, <1>2, <5>1, AppendProperties, EmptySeq DEF Inv, TypeOK
        <5>3. /\ Len(written[c]) \in Nat /\ Len(hand[c]) = 1
              /\ Len(send[c]) \in Nat /\ joinedAt[c] \in Nat
              /\ send'[c] = send[c] /\ joinedAt'[c] = joinedAt[c]
          BY <1>1, <1>2
        <5> QED
          BY <4>1, <5>2, <5>3 DEF End, SendAt, HandAt
      <4>2. CASE d # c
        BY <1>1, <4>2 DEF End, SendAt, HandAt, Inv, TypeOK
      <4> QED
        BY <4>1, <4>2
    <3> QED
      BY <1>1, <3>1, CutIsTheEnd DEF Inv
  <2> QED
    BY <2>1 DEF cut
<1>8. \/ phase[c] = "in" /\ R!Shown(c) < Len(log)
      \/ phase[c] = "left" /\ R!Shown(c) < cut[c]
  <2>1. handler[c] \notin {"idle", "registering"}
    BY <1>1 DEF Inv, Control, Started
  <2>2. CASE c \in clients
    <3>1. phase[c] = "in"
      BY <2>2 DEF phase
    <3>2. Len(log) \in Nat /\ HandAt(c) \in Nat
      BY <1>2, LenProperties DEF Inv, TypeOK, HandAt
    <3> QED
      BY <1>3, <1>4, <3>1, <3>2
  <2>3. CASE c \notin clients
    <3>1. phase[c] = "left" /\ closed[c]
      BY <2>1, <2>3 DEF phase, Inv, ClosedIffRemoved
    <3>2. cut[c] = End(c)
      BY <3>1, CutIsTheEnd DEF Inv
    <3> QED
      BY <1>3, <1>4, <3>1, <3>2
  <2> QED
    BY <2>2, <2>3
<1> QED
  BY <1>1, <1>5, <1>6, <1>7, <1>8 DEF R!Deliver

\* delete(h.clients, client) and close(client.send), in either of its places:
\* the cut is after what is in the buffer, neither before what was written nor
\* after what was broadcast.
LEMMA RemoveLeaves ==
  ASSUME Inv, Inv', NEW c \in Client, c \in clients, Remove(c),
         UNCHANGED <<send, hand, sent, log, joinedAt, written>>,
         \/ UNCHANGED handler
         \/ Goto(c, "unregistering", "closing")
  PROVE  R!Leave(c)
<1>1. /\ clients' = clients \ {c}
      /\ closed' = [closed EXCEPT ![c] = TRUE]
  BY DEF Remove
<1>2. handler[c] \notin {"idle", "registering"}
  BY DEF Inv, Control, NotYet
<1>3. phase[c] = "in" /\ phase' = [phase EXCEPT ![c] = "left"]
  BY <1>1, <1>2 DEF phase, Inv, TypeOK, Goto
<1>4. posted' = posted
  BY DEF posted, Inv, TypeOK, Goto
<1>5. End(c) \in R!Shown(c) .. Len(log)
  <2>1. /\ written[c] \in Seq(Msg) /\ Len(written[c]) \in Nat
        /\ hand[c] \in Seq(Msg) /\ Len(hand[c]) \in Nat
        /\ send[c] \in Seq(Msg) /\ Len(send[c]) \in Nat
        /\ joinedAt[c] \in Nat
        /\ log \in Seq(Msg) /\ Len(log) \in Nat
        /\ Placed(c)
    BY LenProperties DEF Inv, TypeOK, Order
  <2>2. End(c) <= Len(log)
    BY <2>1 DEF Placed, Matches, End
  <2> DEFINE j == joinedAt[c]
             w == Len(written[c])
             h == Len(hand[c])
             s == Len(send[c])
             n == Len(log)
  <2>3. j \in Nat /\ w \in Nat /\ h \in Nat /\ s \in Nat /\ n \in Nat
    BY <2>1
  <2>4. End(c) = ((j + w) + h) + s /\ R!Shown(c) = j + w
    BY Zenon DEF End, SendAt, HandAt, R!Shown
  <2>5. End(c) <= n
    BY <2>2
  <2> HIDE DEF j, w, h, s, n
  <2>6. ((j + w) + h) + s <= n => ((j + w) + h) + s \in j + w .. n
    BY ONLY <2>3
  <2>7. End(c) \in R!Shown(c) .. n
    BY ONLY <2>4, <2>5, <2>6, Zenon
  <2> QED
    BY <2>7 DEF n
<1>6. cut' = [cut EXCEPT ![c] = End(c)]
  <2>1. cut'[c] = End(c)
    <3>1. closed'[c] /\ End(c)' = End(c)
      BY <1>1 DEF End, SendAt, HandAt, Inv, TypeOK
    <3> QED
      BY <3>1, CutIsTheEnd DEF Inv
  <2>2. ASSUME NEW d \in Client, d # c PROVE cut'[d] = cut[d]
    BY <1>1, <2>2 DEF cut, Pipeline, Inv, TypeOK
  <2> QED
    BY <2>1, <2>2 DEF cut
<1> QED
  BY <1>3, <1>4, <1>5, <1>6 DEF R!Leave

\* The loop of a broadcast drops a client whose buffer is full; with room in
\* the buffer nothing changes for the room, because nothing is added to the
\* buffer of a client that was dropped.
LEMMA FanOutLeavesOrNothing ==
  ASSUME Inv, Inv', NEW c \in Client, FanOut(c)
  PROVE  R!Leave(c) \/ UNCHANGED R!vars
<1>1. c \in clients /\ ~closed[c]
  BY DEF FanOut, Inv, TypeOK, ClosedIffRemoved
<1>2. CASE Len(send[c]) < SendCap
  <2>1. /\ send' = [send EXCEPT ![c] = Append(@, log[Len(log)])]
        /\ UNCHANGED <<clients, closed, handler, hand, sent, log, joinedAt,
                       written>>
    BY <1>2 DEF FanOut, pumpVars, history
  <2>2. \A d \in Client : posted'[d] = posted[d] /\ cut'[d] = cut[d]
    BY <1>1, <2>1 DEF posted, cut, Pipeline, Inv, TypeOK
  <2> QED
    BY <2>1, <2>2, Invisible
<1>3. CASE ~(Len(send[c]) < SendCap)
  BY <1>1, <1>3, RemoveLeaves DEF FanOut, pumpVars, history
<1> QED
  BY <1>2, <1>3

\* `case client := <-h.unregister` for a client that is in h.clients; one that
\* was dropped before has left already.
LEMMA UnregisterLeavesOrNothing ==
  ASSUME Inv, Inv', NEW c \in Client, Unregister(c)
  PROVE  R!Leave(c) \/ UNCHANGED R!vars
<1>1. CASE c \in clients
  BY <1>1, RemoveLeaves DEF Unregister, history
<1>2. CASE c \notin clients
  <2>1. /\ handler[c] = "unregistering"
        /\ handler' = [handler EXCEPT ![c] = "closing"]
        /\ UNCHANGED <<clients, closed, send, hand, sent, log, joinedAt,
                       written>>
    BY <1>2 DEF Unregister, Goto, history
  <2>2. \A d \in Client : /\ handler'[d] \in {"idle", "registering"} <=>
                               handler[d] \in {"idle", "registering"}
                          /\ posted'[d] = posted[d]
                          /\ cut'[d] = cut[d]
    BY <2>1 DEF posted, cut, Pipeline, Inv, TypeOK
  <2> QED
    BY <2>1, <2>2, Invisible
<1> QED
  BY <1>1, <1>2

\* What WritePump takes from the buffer stays in the pipeline of its client,
\* and a write that fails leaves it there for good.
LEMMA PumpsAreInvisible ==
  ASSUME Inv, Inv', NEW c \in Client,
         \/ Connect(c) \/ StartPumps(c) \/ ReadMessage(c) \/ ReadFails(c)
         \/ ReaderCloses(c) \/ PeerLost(c)
         \/ TakeMessage(c) \/ WriteFails(c) \/ TakeClosed(c)
         \/ PingFails(c) \/ WriterCloses(c)
  PROVE  UNCHANGED R!vars
<1>1. UNCHANGED <<log, joinedAt, written, clients, closed>>
  BY DEF Connect, StartPumps, ReadMessage, ReadFails, ReaderCloses, PeerLost,
         TakeMessage, WriteFails, TakeClosed, PingFails, WriterCloses,
         hubVars, history
<1>2. ASSUME NEW d \in Client
      PROVE  /\ handler'[d] \in {"idle", "registering"} <=>
                  handler[d] \in {"idle", "registering"}
             /\ posted'[d] = posted[d]
  <2>1. CASE ReadMessage(c)
    <3>1. /\ handler[c] = "reading"
          /\ handler' = [handler EXCEPT ![c] = "broadcasting"]
          /\ sent' = [sent EXCEPT ![c] = @ + 1]
          /\ sent[c] \in Nat
      BY <2>1, HubAssumption DEF ReadMessage, Goto, Inv, TypeOK
    <3>2. (sent[c] + 1) - 1 = sent[c]
      BY <3>1
    <3> QED
      BY <3>1, <3>2 DEF posted, Inv, TypeOK
  <2> QED
    BY <2>1 DEF Connect, StartPumps, ReadMessage, ReadFails, ReaderCloses,
           PeerLost, TakeMessage, WriteFails, TakeClosed, PingFails, WriterCloses,
           Goto, posted, Inv, TypeOK
<1>3. ASSUME NEW d \in Client PROVE cut'[d] = cut[d]
  <2>1. CASE TakeMessage(c) /\ d = c
    <3>1. /\ hand[d] = <<>> /\ send[d] # <<>>
          /\ hand'[d] = <<Head(send[d])>> /\ send'[d] = Tail(send[d])
      BY <2>1 DEF TakeMessage, WriterGoto, Inv, TypeOK, Control, Holding
    <3>2. /\ written[d] \in Seq(Msg) /\ Len(written[d]) \in Nat
          /\ send[d] \in Seq(Msg) /\ Len(send[d]) \in Nat
          /\ joinedAt[d] \in Nat
      BY LenProperties DEF Inv, TypeOK
    <3>3. /\ Len(hand[d]) = 0 /\ Len(hand'[d]) = 1
          /\ Len(send'[d]) = Len(send[d]) - 1
      BY <3>1, <3>2, EmptySeq, HeadTailProperties
    <3>4. End(d)' = End(d)
      <4> DEFINE a == HandAt(d)
                 s == Len(send[d])
      <4>1. HandAt(d)' = a
        BY <1>1 DEF HandAt
      <4>2. a \in Nat /\ s \in Nat
        BY <3>2 DEF HandAt
      <4>3. End(d) = (a + Len(hand[d])) + s
        BY DEF End, SendAt
      <4>4. End(d)' = (HandAt(d)' + Len(hand'[d])) + Len(send'[d])
        BY DEF End, SendAt
      <4> HIDE DEF a
      <4>5. End(d) = (a + 0) + s /\ End(d)' = (a + 1) + (s - 1)
        BY <3>3, <4>1, <4>3, <4>4, Zenon
      <4> HIDE DEF s
      <4>6. (a + 0) + s = (a + 1) + (s - 1)
        BY ONLY <4>2
      <4> QED
        BY ONLY <4>5, <4>6, Zenon
    <3> QED
      BY <1>1, <3>4, CutIsTheEnd DEF Inv
  <2>2. CASE ~(TakeMessage(c) /\ d = c)
    <3>1. hand'[d] = hand[d] /\ send'[d] = send[d]
      BY <2>2 DEF Connect, StartPumps, ReadMessage, ReadFails, ReaderCloses,
                  PeerLost, TakeMessage, WriteFails, TakeClosed, PingFails,
                  WriterCloses, Inv, TypeOK
    <3> QED
      BY <1>1, <3>1 DEF cut, Pipeline
  <2> QED
    BY <2>1, <2>2
<1> QED
  BY <1>1, <1>2, <1>3, Invisible

-----------------------------------------------------------------------------
\* The hub with its goroutines, buffers and dropped clients is the room: what
\* any connection is shown is a stretch of one order of all messages, that
\* starts where it joined and ends at a cut that is fixed when it leaves.
THEOREM HubImplementsRoom == Spec => ImplementsRoom
<1>1. Init => R!Init
  BY DEF Init, R!Init, phase, posted, cut
<1>2. Inv /\ Inv' /\ [Next]_vars => [R!Next]_(R!vars)
  <2> SUFFICES ASSUME Inv, Inv', [Next]_vars
               PROVE  R!Next \/ UNCHANGED R!vars
    OBVIOUS
  <2>1. ASSUME NEW c \in Client, Register(c) PROVE R!Next
    BY <2>1, RegisterJoins DEF R!Next
  <2>2. ASSUME NEW c \in Client, Broadcast(c) PROVE R!Next
    BY <2>2, BroadcastPosts DEF R!Next
  <2>3. ASSUME NEW c \in Client, WriteSucceeds(c) PROVE R!Next
    BY <2>3, WriteDelivers DEF R!Next
  <2>4. ASSUME NEW c \in Client, FanOut(c) PROVE R!Next \/ UNCHANGED R!vars
    BY <2>4, FanOutLeavesOrNothing DEF R!Next
  <2>5. ASSUME NEW c \in Client, Unregister(c)
        PROVE  R!Next \/ UNCHANGED R!vars
    BY <2>5, UnregisterLeavesOrNothing DEF R!Next
  <2>6. ASSUME NEW c \in Client,
               \/ Connect(c) \/ StartPumps(c) \/ ReadMessage(c)
               \/ ReadFails(c) \/ ReaderCloses(c) \/ PeerLost(c)
               \/ TakeMessage(c) \/ WriteFails(c) \/ TakeClosed(c)
               \/ PingFails(c) \/ WriterCloses(c)
        PROVE  UNCHANGED R!vars
    BY <2>6, PumpsAreInvisible
  <2>7. CASE UNCHANGED vars
    BY <2>7 DEF vars, hubVars, pumpVars, history, R!vars, phase, posted, cut,
                Pipeline
  <2> QED
    BY <2>1, <2>2, <2>3, <2>4, <2>5, <2>6, <2>7
       DEF Next, HandlerStep, WriterStep, Quiescent
<1>3. Spec => []Inv
  BY TypeInvariant, OrderInvariant, ClosedIsRemoved, PTL DEF Inv
<1> QED
  BY <1>1, <1>2, <1>3, PTL DEF Spec, ImplementsRoom, R!Spec
=============================================================================
