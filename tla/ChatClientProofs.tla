-------------------------- MODULE ChatClientProofs --------------------------
(***************************************************************************)
(* The safety invariants of ChatClient, proved for any channels and any    *)
(* number of sockets and requests.  What makes them inductive is that the  *)
(* only live socket is the newest, and that the channels on the list and   *)
(* the one the effect ran for were admitted.                               *)
(***************************************************************************)
EXTENDS ChatClient, SequenceTheorems, TLAPS

Socket == [chan : Channel, state : {"connecting", "open", "closing", "closed"}]

\* The effect that ran for a channel has made the newest socket, for it.
Newest == ran # Home => /\ Len(sockets) > 0
                        /\ sockets[Len(sockets)].chan = ran

\* The list, and the channel the effect ran for, come from the server.
Entered == channels \subseteq admitted /\ ran \in admitted \cup {Home}

\* Every request but fetchChannels is about a channel.
Aimed == \A a \in asks : a.op # "list" => a.chan \in Channel

\* Members are asked for of admitted channels: that of the effect, by its
\* socket, and those of earlier requests.
Asked == \A a \in asks : a.op = "members" =>
           /\ a.chan \in admitted
           /\ ran # Home /\ a.chan # ran => a.chan \in late

IInv == /\ TypeOK /\ Newest /\ Entered /\ Aimed /\ Asked
        /\ OneConnection /\ OnlyItsMessages
        /\ ActiveIsListed /\ StrayMembersAreLate

-----------------------------------------------------------------------------
\* Positions in the sequence of sockets.
LEMMA SocketTypes ==
  ASSUME TypeOK
  PROVE  /\ sockets \in Seq(Socket)
         /\ Len(sockets) \in Nat
         /\ DOMAIN sockets = 1 .. Len(sockets)
         /\ \A s \in DOMAIN sockets : sockets[s] \in Socket
<1>1. sockets \in Seq(Socket)
  BY DEF TypeOK, Socket
<1> QED
  BY <1>1, LenProperties, ElementOfSeq

\* What close() on some sockets leaves: the same channels, and of the live ones
\* those that are not among them.
LEMMA ClosingCloses ==
  ASSUME TypeOK, NEW ss
  PROVE  /\ Closing(ss) \in Seq(Socket)
         /\ Len(Closing(ss)) = Len(sockets)
         /\ DOMAIN Closing(ss) = DOMAIN sockets
         /\ \A s \in DOMAIN sockets :
              /\ Closing(ss)[s] \in Socket
              /\ Closing(ss)[s].chan = sockets[s].chan
              /\ Closing(ss)[s].state \in {"connecting", "open"} =>
                   Live(s) /\ s \notin ss
<1> USE SocketTypes
<1>1. DOMAIN Closing(ss) = 1 .. Len(sockets)
  BY DEF Closing
<1>2. \A s \in 1 .. Len(sockets) :
         /\ Closing(ss)[s] \in Socket
         /\ Closing(ss)[s].chan = sockets[s].chan
         /\ Closing(ss)[s].state \in {"connecting", "open"} =>
              Live(s) /\ s \notin ss
  BY DEF Closing, Socket, Live
<1>3. Closing(ss) = [s \in 1 .. Len(sockets) |-> Closing(ss)[s]]
  BY DEF Closing
<1>4. Closing(ss) \in [1 .. Len(sockets) -> Socket]
  BY <1>2, <1>3
<1>5. Closing(ss) \in Seq(Socket)
  BY <1>4, SeqDef
<1> QED
  BY <1>1, <1>2, <1>5, LenProperties

\* Every behaviour starts in IInv.
LEMMA InitIInv == Init => IInv
<1> SUFFICES ASSUME Init PROVE IInv
  OBVIOUS
<1> USE DEF Init, Mounting
<1>1. TypeOK
  <2>1. sockets \in Seq(Socket) /\ ws \in {0, Len(sockets)}
    BY EmptySeq
  <2>2. asks \subseteq Ask
    BY DEF Ask
  <2> QED
    BY <2>1, <2>2 DEF TypeOK, Socket
<1>2. DOMAIN sockets = {}
  OBVIOUS
<1>3. /\ Newest /\ Entered /\ Aimed /\ Asked
      /\ ActiveIsListed /\ StrayMembersAreLate
  BY HomeAssumption
     DEF Newest, Entered, Aimed, Asked, ActiveIsListed, StrayMembersAreLate
<1>4. OneConnection /\ OnlyItsMessages
  BY <1>2 DEF OneConnection, OnlyItsMessages
<1> QED
  BY <1>1, <1>3, <1>4 DEF IInv

-----------------------------------------------------------------------------
\* A click, an answer or a change of the user touches no socket and no message,
\* and puts on the list and on show only what the server let the user see.
LEMMA PageStep ==
  ASSUME IInv, UserStep \/ (\E a \in asks : Answer(a)) \/ ChangeUser
  PROVE  IInv'
<1> USE HomeAssumption DEF IInv, TypeOK, Ask, Aimed
<1>1. UNCHANGED <<ran, sockets, ws, messages>>
  BY DEF UserStep, SelectChannel, Submit, Answer, Fails, Listed, Found, Joined,
     Created, Deleted, MembersCame, ChangeUser
<1>2. /\ channels' \subseteq admitted' /\ admitted' \subseteq Channel
      /\ admitted \subseteq admitted' /\ late \subseteq late'
      /\ active' \in channels' \cup {Home} /\ late' \subseteq Channel
  <2>1. CASE UserStep
    BY <2>1 DEF UserStep, SelectChannel, Submit, Entered, ActiveIsListed
  <2>2. ASSUME NEW a \in asks, Answer(a)
        PROVE  /\ channels' \subseteq admitted' /\ admitted' \subseteq Channel
               /\ admitted \subseteq admitted' /\ late \subseteq late'
               /\ active' \in channels' \cup {Home} /\ late' \subseteq Channel
    <3>1. CASE Fails(a) \/ Found(a) \/ MembersCame(a)
      BY <3>1 DEF Fails, Found, MembersCame, Entered, ActiveIsListed
    <3>2. CASE Listed(a)
      BY <3>2 DEF Listed, Entered, ActiveIsListed
    <3>3. CASE Joined(a) \/ Created(a)
      BY <3>3 DEF Joined, Created, Entered, ActiveIsListed
    <3>4. CASE Deleted(a)
      <4>1. active' \in channels' \cup {Home}
        BY <3>4 DEF Deleted, ActiveIsListed
      <4> QED
        BY <3>4, <4>1 DEF Deleted, Entered
    <3> QED
      BY <2>2, <3>1, <3>2, <3>3, <3>4 DEF Answer
  <2>3. CASE ChangeUser
    BY <2>3 DEF ChangeUser, Entered, ActiveIsListed
  <2> QED
    BY <2>1, <2>2, <2>3
<1>3. asks' \subseteq Ask /\ Aimed' /\ Asked'
  <2>1. CASE UserStep
    <3>1. CASE UNCHANGED <<asks, admitted, late>>
      BY <1>1, <3>1 DEF Asked
    <3>2. ASSUME NEW op \in {"search", "create", "delete"}, NEW c \in Channel,
                 Submit(op, c)
          PROVE  asks' \subseteq Ask /\ Aimed' /\ Asked'
      BY <1>1, <3>2 DEF Submit, Send, Asked
    <3> QED
      BY <2>1, <3>1, <3>2 DEF UserStep, SelectChannel
  <2>2. ASSUME NEW a \in asks, Answer(a)
        PROVE  asks' \subseteq Ask /\ Aimed' /\ Asked'
    <3>1. CASE Joined(a)
      BY <1>1, <3>1 DEF Joined, Asked
    <3>2. CASE Found(a)
      BY <1>1, <3>2 DEF Found, Asked
    <3>3. CASE asks' \subseteq asks
      BY <1>1, <1>2, <3>3 DEF Asked
    <3> QED
      BY <2>2, <3>1, <3>2, <3>3 DEF Answer, Fails, Listed, Created, Deleted,
         MembersCame, Done
  <2>3. CASE ChangeUser
    BY <1>1, <2>3 DEF ChangeUser, Send, Asked
  <2> QED
    BY <2>1, <2>2, <2>3
<1>4. members' \in Channel \cup {Nobody, Myself} /\ StrayMembersAreLate'
  <2>1. CASE UserStep \/ ChangeUser
    BY <1>1, <2>1 DEF UserStep, SelectChannel, Submit, ChangeUser,
       StrayMembersAreLate
  <2>2. ASSUME NEW a \in asks, Answer(a)
        PROVE  /\ members' \in Channel \cup {Nobody, Myself}
               /\ StrayMembersAreLate'
    <3>1. CASE MembersCame(a)
      BY <1>1, <3>1 DEF MembersCame, Asked, StrayMembersAreLate
    <3>2. CASE members' \in {members, Nobody, Myself}
      BY <1>1, <1>2, <3>2 DEF StrayMembersAreLate
    <3> QED
      BY <2>2, <3>1, <3>2 DEF Answer, Fails, Listed, Found, Joined, Created,
         Deleted
  <2> QED
    BY <2>1, <2>2
<1>5. TypeOK'
  BY <1>1, <1>2, <1>3, <1>4
<1>6. Newest' /\ Entered' /\ ActiveIsListed'
  BY <1>1, <1>2 DEF Newest, Entered, ActiveIsListed
<1>7. OneConnection' /\ OnlyItsMessages'
  BY <1>1 DEF OneConnection, OnlyItsMessages, Live
<1> QED
  BY <1>3, <1>4, <1>5, <1>6, <1>7

-----------------------------------------------------------------------------
\* The effect closes what its last run, and wsRef, left live, and makes one
\* socket at most.
LEMMA EffectStep == IInv /\ RunEffect => IInv'
<1> SUFFICES ASSUME IInv, RunEffect PROVE IInv'
  OBVIOUS
<1> USE HomeAssumption, SocketTypes DEF IInv
<1>1. /\ ran # active /\ ran' = active /\ active \in channels \cup {Home}
      /\ UNCHANGED <<channels, active, asks, admitted>>
  BY DEF RunEffect, ActiveIsListed
<1>2. Entered' /\ Aimed' /\ ActiveIsListed'
  BY <1>1 DEF Entered, Aimed, ActiveIsListed
<1>3. CASE active = Home
  <2>1. /\ sockets' = Closing({Len(sockets)})
        /\ UNCHANGED <<ws, messages, members, late>>
    BY <1>1, <1>3 DEF RunEffect, Leave, Old
  <2>2. /\ sockets' \in Seq(Socket) /\ Len(sockets') = Len(sockets)
        /\ DOMAIN sockets' = DOMAIN sockets
    BY <2>1, ClosingCloses
  <2>3. TypeOK'
    BY <1>1, <2>1, <2>2 DEF TypeOK, Socket
  <2>4. OneConnection'
    <3> SUFFICES ASSUME NEW s \in DOMAIN sockets', Live(s)' PROVE FALSE
      BY DEF OneConnection
    <3>1. Live(s) /\ s # Len(sockets) /\ s \in DOMAIN sockets
      BY <2>1, <2>2, ClosingCloses DEF Live
    <3>2. s = ws /\ s \in 1 .. Len(sockets)
      BY <3>1 DEF OneConnection
    <3> QED
      BY <3>1, <3>2 DEF TypeOK
  <2>5. Newest' /\ OnlyItsMessages' /\ Asked' /\ StrayMembersAreLate'
    BY <1>1, <1>3, <2>1, <2>2
       DEF Newest, OnlyItsMessages, Asked, StrayMembersAreLate
  <2> QED
    BY <1>2, <2>3, <2>4, <2>5
<1>4. CASE active # Home
  <2> DEFINE left == Closing(Old \cup {ws})
  <2>1. /\ messages' = {} /\ members' = Nobody /\ late' = AskedFor
        /\ sockets' = Append(left, Connect(active)) /\ ws' = Len(sockets')
    BY <1>4 DEF RunEffect, Open
  <2>2. left \in Seq(Socket) /\ Len(left) = Len(sockets)
    BY ClosingCloses
  <2>3. active \in Channel /\ Connect(active) \in Socket
    BY <1>1, <1>4 DEF TypeOK, Connect, Socket
  <2> HIDE DEF left
  <2>4. /\ sockets' \in Seq(Socket) /\ Len(sockets') = Len(sockets) + 1
        /\ DOMAIN sockets' = 1 .. Len(sockets) + 1
        /\ sockets'[Len(sockets) + 1] = Connect(active)
        /\ \A s \in 1 .. Len(sockets) : sockets'[s] = left[s]
    BY <2>1, <2>2, <2>3, AppendProperties
  <2>5. TypeOK'
    BY <1>1, <2>1, <2>3, <2>4 DEF TypeOK, Socket, AskedFor
  <2>6. ASSUME NEW s \in 1 .. Len(sockets) PROVE ~Live(s)'
    <3>1. SUFFICES ASSUME Live(s)' PROVE FALSE
      OBVIOUS
    <3>2. Live(s) /\ s # ws
      BY <2>4, <3>1, ClosingCloses DEF left, Live
    <3> QED
      BY <3>2 DEF OneConnection
  <2>7. Newest' /\ OneConnection'
    BY <1>1, <2>1, <2>4, <2>6 DEF Newest, OneConnection, Connect
  <2>8. OnlyItsMessages' /\ StrayMembersAreLate'
    BY <2>1 DEF OnlyItsMessages, StrayMembersAreLate
  <2>9. Asked'
    <3>1. ASSUME NEW a \in asks, a.op = "members" PROVE a.chan \in AskedFor
      <4>1. a \in Ask /\ a.chan \in Channel
        BY <3>1 DEF TypeOK, Aimed
      <4>2. a = [op |-> "members", chan |-> a.chan]
        BY <3>1, <4>1 DEF Ask
      <4> QED
        BY <4>1, <4>2 DEF AskedFor
    <3> QED
      BY <1>1, <2>1, <3>1 DEF Asked
  <2> QED
    BY <1>2, <2>5, <2>7, <2>8, <2>9
<1> QED
  BY <1>3, <1>4

\* Events reach a live socket, the newest, or close one.
LEMMA SocketKeeps == IInv /\ SocketStep => IInv'
<1> SUFFICES ASSUME IInv, NEW s \in DOMAIN sockets,
                    SocketOpens(s) \/ SocketMessage(s) \/ SocketCloses(s)
             PROVE  IInv'
  BY DEF SocketStep
<1> USE SocketTypes DEF IInv
<1>1. UNCHANGED <<channels, active, ran, members, admitted, late>>
  BY DEF SocketOpens, SocketMessage, SocketCloses
<1>2. Entered' /\ ActiveIsListed' /\ StrayMembersAreLate'
  BY <1>1 DEF Entered, ActiveIsListed, StrayMembersAreLate
<1>3. CASE SocketOpens(s)
  <2>1. /\ sockets[s].state = "connecting"
        /\ sockets' = [sockets EXCEPT ![s] =
                         [sockets[s] EXCEPT !.state = "open"]]
        /\ asks' = asks \cup {[op |-> "members", chan |-> sockets[s].chan]}
        /\ UNCHANGED <<ws, messages>>
    BY <1>3 DEF SocketOpens, Send
  <2>2. sockets[s].chan \in Channel
    BY DEF Socket
  <2>3. asks' \subseteq Ask /\ Aimed'
    BY <2>1, <2>2 DEF TypeOK, Ask, Aimed
  <2>10. Asked'
    <3>1. sockets[s].chan = ran /\ ran # Home
      BY <2>1, <2>2, HomeAssumption DEF OneConnection, Live
    <3>2. ran \in admitted
      BY <3>1 DEF Entered
    <3> QED
      BY <1>1, <2>1, <3>1, <3>2 DEF Asked
  <2>4. [sockets[s] EXCEPT !.state = "open"] \in Socket
    BY DEF Socket
  <2>5. /\ sockets' \in Seq(Socket) /\ Len(sockets') = Len(sockets)
        /\ \A t \in DOMAIN sockets : sockets'[t] =
             IF t = s THEN [sockets[s] EXCEPT !.state = "open"] ELSE sockets[t]
    BY <2>1, <2>4, ExceptSeq
  <2>6. DOMAIN sockets' = DOMAIN sockets
    BY <2>5, LenProperties
  <2>7. \A t \in DOMAIN sockets : /\ sockets'[t].chan = sockets[t].chan
                                   /\ Live(t)' => Live(t)
    BY <2>1, <2>5 DEF Live, Socket
  <2>8. TypeOK'
    BY <1>1, <2>1, <2>3, <2>5, <2>6 DEF TypeOK, Socket
  <2>9. Newest' /\ OneConnection' /\ OnlyItsMessages'
    BY <1>1, <2>1, <2>5, <2>6, <2>7
       DEF Newest, OneConnection, OnlyItsMessages, TypeOK
  <2> QED
    BY <1>2, <2>3, <2>8, <2>9, <2>10
<1>4. CASE SocketMessage(s)
  <2>1. /\ sockets[s].state = "open" /\ messages' = messages \cup {s}
        /\ UNCHANGED <<sockets, ws, asks>>
    BY <1>4 DEF SocketMessage
  <2>2. s = Len(sockets) /\ sockets[s].chan = ran
    BY <2>1 DEF OneConnection, Live, TypeOK
  <2>3. OnlyItsMessages'
    BY <1>1, <2>1, <2>2 DEF OnlyItsMessages
  <2>4. TypeOK' /\ Aimed' /\ Asked'
    BY <1>1, <2>1 DEF TypeOK, Aimed, Asked
  <2>5. Newest' /\ OneConnection'
    BY <1>1, <2>1 DEF Newest, OneConnection, Live
  <2> QED
    BY <1>2, <2>3, <2>4, <2>5
<1>5. CASE SocketCloses(s)
  <2>1. /\ sockets' = [sockets EXCEPT ![s] =
                         [sockets[s] EXCEPT !.state = "closed"]]
        /\ ws' = (IF ws = s THEN 0 ELSE ws)
        /\ UNCHANGED <<messages, asks>>
    BY <1>5 DEF SocketCloses
  <2>2. [sockets[s] EXCEPT !.state = "closed"] \in Socket
    BY DEF Socket
  <2>3. /\ sockets' \in Seq(Socket) /\ Len(sockets') = Len(sockets)
        /\ \A t \in DOMAIN sockets : sockets'[t] =
             IF t = s THEN [sockets[s] EXCEPT !.state = "closed"]
             ELSE sockets[t]
    BY <2>1, <2>2, ExceptSeq
  <2>4. DOMAIN sockets' = DOMAIN sockets
    BY <2>3, LenProperties
  <2>5. \A t \in DOMAIN sockets : /\ sockets'[t].chan = sockets[t].chan
                                   /\ Live(t)' => Live(t) /\ t # s
    BY <2>3 DEF Live, Socket
  <2>6. TypeOK' /\ Aimed' /\ Asked'
    BY <1>1, <2>1, <2>3, <2>4 DEF TypeOK, Socket, Aimed, Asked
  <2>7. Newest' /\ OneConnection' /\ OnlyItsMessages'
    BY <1>1, <2>1, <2>3, <2>4, <2>5
       DEF Newest, OneConnection, OnlyItsMessages, TypeOK
  <2> QED
    BY <1>2, <2>6, <2>7
<1> QED
  BY <1>3, <1>4, <1>5

\* A chat that unmounts leaves no live connection.
LEMMA UnmountStep == IInv /\ Unmount => IInv'
<1> SUFFICES ASSUME IInv, Unmount PROVE IInv'
  OBVIOUS
<1> USE HomeAssumption, SocketTypes DEF IInv, Unmount, Fresh
<1>1. /\ sockets' \in Seq(Socket) /\ DOMAIN sockets' = DOMAIN sockets
      /\ \A s \in DOMAIN sockets : Live(s)' => Live(s) /\ s \notin Old
  BY ClosingCloses DEF Live
<1>2. ASSUME NEW s \in DOMAIN sockets, Live(s), s \notin Old PROVE FALSE
  <2>1. s = ws /\ sockets[s].chan = ran /\ ran # Home
    BY <1>2 DEF OneConnection, Socket
  <2>2. Old = {Len(sockets)}
    BY <2>1 DEF Old
  <2> QED
    BY <1>2, <2>1, <2>2 DEF TypeOK
<1>3. OneConnection'
  BY <1>1, <1>2 DEF OneConnection
<1>4. TypeOK'
  <2>1. asks' \subseteq Ask
    BY DEF Mounting, Ask
  <2>2. sockets' \in Seq([chan : Channel, state : {"connecting", "open",
                                                  "closing", "closed"}])
    BY <1>1 DEF Socket
  <2> QED
    BY <2>1, <2>2 DEF TypeOK
<1>5. /\ Newest' /\ Entered' /\ Aimed' /\ Asked'
      /\ OnlyItsMessages' /\ ActiveIsListed' /\ StrayMembersAreLate'
  BY DEF Newest, Entered, Aimed, Asked, Mounting, OnlyItsMessages,
     ActiveIsListed, StrayMembersAreLate
<1> QED
  BY <1>3, <1>4, <1>5

-----------------------------------------------------------------------------
\* IInv holds in every state of every behaviour.
LEMMA Inductive == Spec => []IInv
<1>1. IInv /\ [Next]_vars => IInv'
  <2> SUFFICES ASSUME IInv, [Next]_vars PROVE IInv'
    OBVIOUS
  <2>1. CASE UNCHANGED vars
    BY <2>1 DEF vars, IInv, TypeOK, Newest, Entered, Aimed, Asked,
       OneConnection, OnlyItsMessages, ActiveIsListed, StrayMembersAreLate, Live
  <2> QED
    BY <2>1, PageStep, EffectStep, SocketKeeps, UnmountStep DEF Next
<1> QED
  BY InitIInv, <1>1, PTL DEF Spec

\* The types of the variables; wsRef is null or the newest socket.
THEOREM TypeInvariant == Spec => []TypeOK
<1>1. IInv => TypeOK
  BY DEF IInv
<1> QED
  BY Inductive, <1>1, PTL

\* At most one connection is live, the one wsRef names, for the channel the
\* effect last ran for, through any hops, logouts and slow closes.
THEOREM OneLiveConnection == Spec => []OneConnection
<1>1. IInv => OneConnection
  BY DEF IInv
<1> QED
  BY Inductive, <1>1, PTL

\* All messages on show came through the newest socket, never through one of a
\* channel, or a visit, that is over.
THEOREM ShowsItsMessages == Spec => []OnlyItsMessages
<1>1. IInv => OnlyItsMessages
  BY DEF IInv
<1> QED
  BY Inductive, <1>1, PTL

\* A live connection is for a channel that the server listed, created or let the
\* user join.
THEOREM ConnectsWhereAdmitted == Spec => []OnlyAdmittedChannels
<1>1. IInv => OnlyAdmittedChannels
  BY SocketTypes, HomeAssumption
     DEF IInv, Socket, Entered, OneConnection, OnlyAdmittedChannels, Live
<1> QED
  BY Inductive, <1>1, PTL

\* The channel on show is on the list, whatever is deleted, found or created.
THEOREM ShowsAListedChannel == Spec => []ActiveIsListed
<1>1. IInv => ActiveIsListed
  BY DEF IInv
<1> QED
  BY Inductive, <1>1, PTL

\* Members on show of another channel than that of the effect were asked for
\* before it ran, or by a join, and are of an admitted channel.
THEOREM StrayMembersWereAskedFor == Spec => []StrayMembersAreLate
<1>1. IInv => StrayMembersAreLate
  BY DEF IInv
<1> QED
  BY Inductive, <1>1, PTL
=============================================================================
