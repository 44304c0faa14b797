----------------------------- MODULE ChatClient -----------------------------
(***************************************************************************)
(* components/ChatLayout.tsx: the state of the chat page, its WebSockets   *)
(* and the requests it has under way.                                      *)
(*                                                                         *)
(* JavaScript runs one callback at a time, and every callback is an        *)
(* action: a click, the answer to a request, an event of a socket, and the *)
(* effect on activeChannelId, which React runs some time after the change: *)
(* other callbacks come in between, and changes made before the next       *)
(* render share one effect.  Answers arrive in any order.                  *)
(*                                                                         *)
(* Abstracted: names, texts and the two message lines of the sidebar; a    *)
(* message on show is the socket it came through; a list of members is the *)
(* channel it was asked for; the server grants or refuses as it likes.     *)
(* HOME_CHANNEL_ID and null, both "no channel", are Home.                  *)
(***************************************************************************)
EXTENDS Naturals, Sequences, FiniteSets

CONSTANTS Channel,
          MaxAsks,      \* bound: requests under way at once
          MaxSockets    \* bound: WebSockets ever made

ASSUME ClientAssumption == MaxAsks \in Nat /\ MaxSockets \in Nat

Home   == 0
Nobody == "nobody"      \* members is []
Myself == "myself"      \* members is the user alone, after a create

ASSUME HomeAssumption == /\ Home \notin Channel
                         /\ Nobody \notin Channel
                         /\ Myself \notin Channel

VARIABLES
  channels,     \* the ids in channels
  active,       \* activeChannelId
  ran,          \* the value of activeChannelId the effect last ran for
  sockets,      \* every WebSocket made: its channel and readyState
  ws,           \* wsRef.current: a position in sockets, 0 for null
  messages,     \* the sockets whose messages are on show
  members,      \* the channel whose members are on show, Nobody or Myself
  asks,         \* the requests under way
  admitted,     \* history: channels the server listed, made or let us join
  late          \* history: channels whose members were asked for before the
                \* effect last ran for a channel, or by a join since

vars == <<channels, active, ran, sockets, ws, messages, members, asks,
          admitted, late>>

Ask == [op : {"list", "search", "join", "create", "delete", "members"},
        chan : Channel \cup {Home}]

Mounting == {[op |-> "list", chan |-> Home]}

Init == /\ channels = {}
        /\ active = Home
        /\ ran = Home
        /\ sockets = <<>>
        /\ ws = 0
        /\ messages = {}
        /\ members = Nobody
        /\ asks = Mounting
        /\ admitted = {}
        /\ late = {}

\* A request goes out; one that is under way already is not told apart.
Send(op, c) == asks' = asks \cup {[op |-> op, chan |-> c]}
Done(a)     == asks' = asks \ {a}

-----------------------------------------------------------------------------
(***************************************************************************)
(* The user.                                                               *)
(***************************************************************************)

\* A click on a channel of the list.  The list is taken as it is; a click that
\* comes after a channel was deleted, but before React has rendered the list
\* without it, is left out.
SelectChannel(c) == /\ active # c
                    /\ active' = c
                    /\ UNCHANGED <<channels, ran, sockets, ws, messages,
                                   members, asks, admitted, late>>

\* handleSearch, handleCreateChannel and handleDeleteChannel up to the await.
Submit(op, c) == /\ Cardinality(asks) < MaxAsks
                 /\ [op |-> op, chan |-> c] \notin asks
                 /\ Send(op, c)
                 /\ UNCHANGED <<channels, active, ran, sockets, ws, messages,
                                members, admitted, late>>

UserStep == \/ \E c \in channels \cup {Home} : SelectChannel(c)
            \/ \E c \in Channel : Submit("search", c)
            \/ \E c \in Channel \ admitted : Submit("create", c)
            \/ \E c \in channels : Submit("delete", c)

-----------------------------------------------------------------------------
(***************************************************************************)
(* Answers.                                                                *)
(***************************************************************************)

\* A request fails: all a handler's catch does is set an error text, but for
\* fetchMembers, which empties the list.
Fails(a) == /\ Done(a)
            /\ members' = IF a.op = "members" THEN Nobody ELSE members
            /\ UNCHANGED <<channels, active, ran, sockets, ws, messages,
                           admitted, late>>

\* fetchChannels: what the server listed is merged with what is there.
Listed(a) == /\ a.op = "list"
             /\ Done(a)
             /\ \E cs \in SUBSET Channel :
                  /\ channels' = channels \cup cs
                  /\ admitted' = admitted \cup cs
             /\ UNCHANGED <<active, ran, sockets, ws, messages, members,
                            late>>

\* Mutant of Found: the channel is shown without waiting for the join.
FoundShows(a) == /\ a.op = "search"
                 /\ asks' = (asks \ {a}) \cup {[op |-> "join", chan |-> a.chan]}
                 /\ active' = a.chan
                 /\ UNCHANGED <<channels, ran, sockets, ws, messages, members,
                                admitted, late>>

\* handleSearch found the channel and goes on to join it.
Found(a) == /\ a.op = "search"
            /\ asks' = (asks \ {a}) \cup {[op |-> "join", chan |-> a.chan]}
            /\ UNCHANGED <<channels, active, ran, sockets, ws, messages,
                           members, admitted, late>>

\* The rest of handleSearch: the channel is shown and its members fetched,
\* besides the fetch that the new socket will make.
Joined(a) == /\ a.op = "join"
             /\ channels' = channels \cup {a.chan}
             /\ active' = a.chan
             /\ admitted' = admitted \cup {a.chan}
             /\ asks' = (asks \ {a})
                          \cup {[op |-> "members", chan |-> a.chan]}
             /\ late' = late \cup {a.chan}
             /\ UNCHANGED <<ran, sockets, ws, messages, members>>

Created(a) == /\ a.op = "create"
              /\ Done(a)
              /\ channels' = channels \cup {a.chan}
              /\ active' = a.chan
              /\ members' = Myself
              /\ admitted' = admitted \cup {a.chan}
              /\ UNCHANGED <<ran, sockets, ws, messages, late>>

\* Mutant of Deleted: the channel on show is left as it is.
DeletedStaysActive(a) == /\ a.op = "delete"
                         /\ Done(a)
                         /\ channels' = channels \ {a.chan}
                         /\ UNCHANGED <<active, ran, sockets, ws, messages,
                                        members, admitted, late>>

\* handleDeleteChannel: if the channel was on show, the first that remains is
\* shown; their order is abstracted.
Deleted(a) == /\ a.op = "delete"
              /\ Done(a)
              /\ channels' = channels \ {a.chan}
              /\ IF active # a.chan THEN active' = active
                 ELSE IF channels' = {} THEN active' = Home
                 ELSE active' \in channels'
              /\ UNCHANGED <<ran, sockets, ws, messages, members, admitted,
                             late>>

\* fetchMembers shows what it got, whatever is on show by now.
MembersCame(a) == /\ a.op = "members"
                  /\ Done(a)
                  /\ members' = a.chan
                  /\ UNCHANGED <<channels, active, ran, sockets, ws, messages,
                                 admitted, late>>

Answer(a) == \/ Fails(a) \/ Listed(a) \/ Found(a) \/ Joined(a) \/ Created(a)
             \/ Deleted(a) \/ MembersCame(a)

-----------------------------------------------------------------------------
(***************************************************************************)
(* The effect on activeChannelId and the sockets it makes.                 *)
(***************************************************************************)

Live(s) == sockets[s].state \in {"connecting", "open"}

\* socket.close() on each of ss; it has no effect on one that is closed.
Closing(ss) == [s \in DOMAIN sockets |->
                  IF s \in ss /\ Live(s)
                  THEN [sockets[s] EXCEPT !.state = "closing"] ELSE sockets[s]]

\* What the cleanup of the last run of the effect closes: the socket it made.
Old == IF ran = Home THEN {} ELSE {Len(sockets)}

Connect(c) == [chan |-> c, state |-> "connecting"]

\* The channels whose members are being fetched.
AskedFor == {c \in Channel : [op |-> "members", chan |-> c] \in asks}

\* Mutant of Open: the list of messages is kept.
OpenKeepsMessages(c) == /\ Len(sockets) < MaxSockets
                        /\ messages' = messages
                        /\ members' = Nobody
                        /\ late' = AskedFor
                        /\ sockets' = Append(Closing(Old \cup {ws}), Connect(c))
                        /\ ws' = Len(sockets')

\* Mutant of Open: the last socket is left to itself.
OpenLeavesOld(c) == /\ Len(sockets) < MaxSockets
                    /\ messages' = {}
                    /\ members' = Nobody
                    /\ late' = AskedFor
                    /\ sockets' = Append(sockets, Connect(c))
                    /\ ws' = Len(sockets')

\* Mutant of Open: wsRef is set only if it is null.
OpenKeepsRef(c) == /\ Len(sockets) < MaxSockets
                   /\ messages' = {}
                   /\ members' = Nobody
                   /\ late' = AskedFor
                   /\ sockets' = Append(Closing(Old \cup {ws}), Connect(c))
                   /\ ws' = IF ws = 0 THEN Len(sockets') ELSE ws

\* The effect for a channel, after the cleanup of the last one.
Open(c) == /\ Len(sockets) < MaxSockets
           /\ messages' = {}
           /\ members' = Nobody
           /\ late' = AskedFor
           /\ sockets' = Append(Closing(Old \cup {ws}), Connect(c))
           /\ ws' = Len(sockets')

\* The effect for no channel returns at once; only the cleanup acts.
Leave == /\ sockets' = Closing(Old)
         /\ UNCHANGED <<ws, messages, members, late>>

RunEffect == /\ ran # active
             /\ IF active = Home THEN Leave ELSE Open(active)
             /\ ran' = active
             /\ UNCHANGED <<channels, active, asks, admitted>>

\* onopen: the members of the channel the socket is for are fetched.
SocketOpens(s) == /\ sockets[s].state = "connecting"
                  /\ sockets' = [sockets EXCEPT ![s].state = "open"]
                  /\ Send("members", sockets[s].chan)
                  /\ UNCHANGED <<channels, active, ran, ws, messages, members,
                                 admitted, late>>

\* onmessage, which a browser fires for an open socket only.
SocketMessage(s) == /\ sockets[s].state = "open"
                    /\ messages' = messages \cup {s}
                    /\ UNCHANGED <<channels, active, ran, sockets, ws, members,
                                   asks, admitted, late>>

\* Mutant of SocketCloses: any socket's close empties wsRef.
SocketClosesAny(s) == /\ sockets[s].state # "closed"
                      /\ sockets' = [sockets EXCEPT ![s].state = "closed"]
                      /\ ws' = 0
                      /\ UNCHANGED <<channels, active, ran, messages, members,
                                     asks, admitted, late>>

\* onclose, whoever closed the connection and whether or not it was made.
SocketCloses(s) == /\ sockets[s].state # "closed"
                   /\ sockets' = [sockets EXCEPT ![s].state = "closed"]
                   /\ ws' = IF ws = s THEN 0 ELSE ws
                   /\ UNCHANGED <<channels, active, ran, messages, members,
                                  asks, admitted, late>>

\* handleSend sends on wsRef's socket if it is open, and else does nothing.
CanSend == ws # 0 /\ sockets[ws].state = "open"

SocketStep == \E s \in DOMAIN sockets : \/ SocketOpens(s)
                                       \/ SocketMessage(s)
                                       \/ SocketCloses(s)

-----------------------------------------------------------------------------
(***************************************************************************)
(* What App does to the page.                                              *)
(***************************************************************************)

\* The state of a chat that has just mounted.
Fresh == /\ channels' = {}
         /\ active' = Home
         /\ ran' = Home
         /\ ws' = 0
         /\ messages' = {}
         /\ members' = Nobody
         /\ asks' = Mounting
         /\ late' = {}

\* Mutant of Unmount: the effect's cleanup is missing.
UnmountLeavesOpen == /\ Fresh
                     /\ admitted' = {}
                     /\ sockets' = sockets

\* App forgets its user, the chat unmounts with the cleanup of the last effect,
\* and one for the next user mounts.  Answers to the old one act on nothing.
Unmount == /\ Fresh
           /\ admitted' = {}
           /\ sockets' = Closing(Old)

\* App changes its user while the chat is there (see Session!LoginArrives): the
\* channels are fetched again, and those that are listed stay.
ChangeUser == /\ Send("list", Home)
              /\ UNCHANGED <<channels, active, ran, sockets, ws, messages,
                             members, admitted, late>>

Next == \/ UserStep
        \/ \E a \in asks : Answer(a)
        \/ Unmount \/ ChangeUser
        \/ RunEffect
        \/ SocketStep

Spec == Init /\ [][Next]_vars

-----------------------------------------------------------------------------
\* The types of the variables; wsRef is null or the newest socket.
TypeOK == /\ channels \subseteq Channel
          /\ active \in Channel \cup {Home}
          /\ ran \in Channel \cup {Home}
          /\ sockets \in Seq([chan : Channel,
                             state : {"connecting", "open", "closing", "closed"}])
          /\ ws \in {0, Len(sockets)}
          /\ messages \subseteq DOMAIN sockets
          /\ members \in Channel \cup {Nobody, Myself}
          /\ asks \subseteq Ask
          /\ admitted \subseteq Channel
          /\ late \subseteq Channel

\* However the user hops between channels and however slowly the old sockets
\* close, at most one connection is live; it is the one wsRef names, and it is
\* for the channel the effect last ran for, so that handleSend sends there.
OneConnection == \A s \in DOMAIN sockets :
                   Live(s) => s = ws /\ sockets[s].chan = ran

\* All messages on show came through the newest socket: no message of a
\* channel visited earlier, not even one of an earlier visit to the same
\* channel, is among them, whenever it arrives.
OnlyItsMessages == /\ messages \subseteq {Len(sockets)}
                   /\ ran # Home /\ messages # {} =>
                        sockets[Len(sockets)].chan = ran

\* The channel on show is on the list, also when the user deletes it while
\* answers that show it, or another one, are under way.  (See SelectChannel for
\* a click that comes before a render.)
ActiveIsListed == active \in channels \cup {Home}

\* The page has a connection only to a channel that the server listed for the
\* user, created for the user or let the user join since the chat mounted (it
\* may have been deleted since); after a logout none is left from before.
OnlyAdmittedChannels ==
  \A s \in DOMAIN sockets : Live(s) => sockets[s].chan \in admitted

\* fetchMembers does not look which channel is on show when its answer comes,
\* so the members of another one may be shown.  They are of a channel that the
\* user was let into, and of one asked about before the effect ran for the
\* channel on show, or by a join: the sockets of channels left earlier, or of
\* the user before, ask for no more, however late they would have opened.
StrayMembersAreLate ==
  /\ members \in Channel => members \in admitted
  /\ ran # Home /\ members \in Channel \ {ran} => members \in late
=============================================================================
