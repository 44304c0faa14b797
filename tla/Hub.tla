-------------------------------- MODULE Hub ---------------------------------
(***************************************************************************)
(* One channel's hub (internal/ws/hub.go) with the two goroutines of each  *)
(* of its connections (internal/ws/client.go): the HTTP handler, which     *)
(* registers the client and then runs ReadPump, and WritePump.             *)
(*                                                                         *)
(* h.register, h.unregister and h.broadcast are unbuffered, so sending on  *)
(* one is a rendezvous with the hub's select: one action, enabled when the *)
(* hub is at its select, that does the hub's case as well.  The case for a *)
(* broadcast is a loop over h.clients that WritePumps run beside: one      *)
(* action for each client it visits.  c.send is buffered.                  *)
(*                                                                         *)
(* Abstracted: the text, time and JSON of a message (a message is its      *)
(* sender and its number), the clock (a deadline that expires is a         *)
(* connection lost or a write failing), and pings that succeed.            *)
(***************************************************************************)
EXTENDS Naturals, Sequences

CONSTANTS Client,       \* the connections ever made to the channel
          SendCap,      \* capacity of c.send (256 in NewClient)
          MaxMsgs       \* bound: messages ReadPump reads from one connection

ASSUME HubAssumption == /\ SendCap \in Nat \ {0}
                        /\ MaxMsgs \in Nat

VARIABLES
  clients,    \* h.clients
  todo,       \* the clients the broadcast loop has still to visit
  handler,    \* handler[c]: where the handler goroutine of c is
  writer,     \* writer[c]: where WritePump of c is
  conn,       \* conn[c]: c.conn
  send,       \* send[c]: the messages in c.send
  closed,     \* closed[c]: close(c.send) was called
  hand,       \* hand[c]: <<m>> when WritePump took m and has not written it
  sent,       \* sent[c]: how many messages ReadPump read from c.conn
  log,        \* history: every message the hub took, in order
  joinedAt,   \* history: the length of log when c was registered
  written     \* history: the messages written to c.conn

hubVars  == <<clients, todo, closed>>
pumpVars == <<handler, writer, conn, hand, sent>>
history  == <<log, joinedAt, written>>
vars     == <<hubVars, send, pumpVars, history>>

Msg == Client \X (1 .. MaxMsgs)

HandlerState == {"idle", "registering", "registered", "reading",
                 "broadcasting", "unregistering", "closing", "returned"}
WriterState  == {"none", "select", "writing", "closing", "returned"}

Init ==
  /\ clients = {}
  /\ todo = {}
  /\ closed = [c \in Client |-> FALSE]
  /\ send = [c \in Client |-> <<>>]
  /\ handler = [c \in Client |-> "idle"]
  /\ writer = [c \in Client |-> "none"]
  /\ conn = [c \in Client |-> "none"]
  /\ hand = [c \in Client |-> <<>>]
  /\ sent = [c \in Client |-> 0]
  /\ log = <<>>
  /\ joinedAt = [c \in Client |-> 0]
  /\ written = [c \in Client |-> <<>>]

Goto(c, from, to) == /\ handler[c] = from
                     /\ handler' = [handler EXCEPT ![c] = to]

WriterGoto(c, from, to) == /\ writer[c] = from
                           /\ writer' = [writer EXCEPT ![c] = to]

\* The hub goroutine is at its select, not in the loop of a broadcast.
AtSelect == todo = {}

\* Mutant of Remove: the entry is not deleted from h.clients.
RemoveKeepsEntry(c) == /\ UNCHANGED clients
                       /\ closed' = [closed EXCEPT ![c] = TRUE]

\* Mutant of Remove: client.send is not closed.
RemoveKeepsOpen(c) == /\ clients' = clients \ {c}
                      /\ UNCHANGED closed

\* delete(h.clients, client) and close(client.send).
Remove(c) == /\ clients' = clients \ {c}
             /\ closed' = [closed EXCEPT ![c] = TRUE]

-----------------------------------------------------------------------------
(***************************************************************************)
(* The handler goroutine: WSController.Serve, then ReadPump.               *)
(***************************************************************************)

\* The upgrade succeeded and NewClient made the client.
Connect(c) == /\ Goto(c, "idle", "registering")
              /\ conn' = [conn EXCEPT ![c] = "open"]
              /\ UNCHANGED <<hubVars, send, writer, hand, sent, history>>

\* hub.Register meets `case client := <-h.register`.
Register(c) == /\ AtSelect
               /\ Goto(c, "registering", "registered")
               /\ clients' = clients \cup {c}
               /\ joinedAt' = [joinedAt EXCEPT ![c] = Len(log)]
               /\ UNCHANGED <<todo, closed, send, writer, conn, hand, sent,
                              log, written>>

\* go client.WritePump(), and ReadPump reaches its loop.
StartPumps(c) == /\ Goto(c, "registered", "reading")
                 /\ WriterGoto(c, "none", "select")
                 /\ UNCHANGED <<hubVars, send, conn, hand, sent, history>>

\* ReadMessage returns a message: also one that had arrived before the
\* connection was lost or closed.
ReadMessage(c) == /\ Goto(c, "reading", "broadcasting")
                  /\ sent[c] < MaxMsgs
                  /\ sent' = [sent EXCEPT ![c] = @ + 1]
                  /\ UNCHANGED <<hubVars, send, writer, conn, hand, history>>

\* Mutant of Broadcast: the sender is left out of the loop.
BroadcastNoEcho(c) == /\ AtSelect
                      /\ Goto(c, "broadcasting", "reading")
                      /\ log' = Append(log, <<c, sent[c]>>)
                      /\ todo' = clients \ {c}
                      /\ UNCHANGED <<clients, closed, send, writer, conn, hand,
                                     sent, joinedAt, written>>

\* `c.hub.broadcast <- encoded` meets `case message := <-h.broadcast`, which
\* then has every client to visit.
Broadcast(c) == /\ AtSelect
                /\ Goto(c, "broadcasting", "reading")
                /\ log' = Append(log, <<c, sent[c]>>)
                /\ todo' = clients
                /\ UNCHANGED <<clients, closed, send, writer, conn, hand, sent,
                               joinedAt, written>>

\* ReadMessage returns an error and the loop breaks.
ReadFails(c) == /\ Goto(c, "reading", "unregistering")
                /\ conn[c] # "open"
                /\ UNCHANGED <<hubVars, send, writer, conn, hand, sent, history>>

\* The deferred hub.Unregister meets `case client := <-h.unregister`.
Unregister(c) == /\ AtSelect
                 /\ Goto(c, "unregistering", "closing")
                 /\ IF c \in clients
                    THEN Remove(c)
                    ELSE UNCHANGED <<clients, closed>>
                 /\ UNCHANGED <<todo, send, writer, conn, hand, sent, history>>

\* The deferred conn.Close(), and the handler returns.
ReaderCloses(c) == /\ Goto(c, "closing", "returned")
                   /\ conn' = [conn EXCEPT ![c] = "closed"]
                   /\ UNCHANGED <<hubVars, send, writer, hand, sent, history>>

-----------------------------------------------------------------------------
(***************************************************************************)
(* The hub goroutine, inside `case message := <-h.broadcast`.              *)
(***************************************************************************)

\* Mutant of FanOut: a full buffer loses the message and keeps the client.
FanOutSkips(c) == /\ c \in todo
                  /\ todo' = todo \ {c}
                  /\ send' = [send EXCEPT ![c] = IF Len(@) < SendCap
                                                THEN Append(@, log[Len(log)])
                                                ELSE @]
                  /\ UNCHANGED <<clients, closed, pumpVars, history>>

\* Mutant of FanOut: the select has no default and waits for room.
FanOutBlocks(c) == Len(send[c]) < SendCap /\ FanOutSkips(c)

\* Mutant of FanOut: the buffer takes one message more than it has room for.
FanOutOverfills(c) == /\ c \in todo
                      /\ todo' = todo \ {c}
                      /\ IF Len(send[c]) <= SendCap
                         THEN /\ send' = [send EXCEPT
                                             ![c] = Append(@, log[Len(log)])]
                              /\ UNCHANGED <<clients, closed>>
                         ELSE Remove(c) /\ UNCHANGED send
                      /\ UNCHANGED <<pumpVars, history>>

\* One turn of the loop: the message goes into the buffer of c if there is
\* room; otherwise c is dropped and its channel closed.  Map iteration visits
\* the clients in any order.
FanOut(c) == /\ c \in todo
             /\ todo' = todo \ {c}
             /\ IF Len(send[c]) < SendCap
                THEN /\ send' = [send EXCEPT ![c] = Append(@, log[Len(log)])]
                     /\ UNCHANGED <<clients, closed>>
                ELSE /\ Remove(c)
                     /\ UNCHANGED send
             /\ UNCHANGED <<pumpVars, history>>

-----------------------------------------------------------------------------
(***************************************************************************)
(* The WritePump goroutine.                                                *)
(***************************************************************************)

\* `message, ok := <-c.send` gives a message.
TakeMessage(c) == /\ WriterGoto(c, "select", "writing")
                  /\ send[c] # <<>>
                  /\ hand' = [hand EXCEPT ![c] = <<Head(send[c])>>]
                  /\ send' = [send EXCEPT ![c] = Tail(@)]
                  /\ UNCHANGED <<hubVars, handler, conn, sent, history>>

\* WriteMessage returns nil: the message left for the peer.
WriteSucceeds(c) == /\ WriterGoto(c, "writing", "select")
                    /\ conn[c] # "closed"
                    /\ written' = [written EXCEPT ![c] = Append(@, hand[c][1])]
                    /\ hand' = [hand EXCEPT ![c] = <<>>]
                    /\ UNCHANGED <<hubVars, send, handler, conn, sent, log,
                                   joinedAt>>

\* Mutant of WriteFails: the loop goes on after a failed write.
WriteFailsGoesOn(c) == /\ WriterGoto(c, "writing", "select")
                       /\ hand' = [hand EXCEPT ![c] = <<>>]
                       /\ UNCHANGED <<hubVars, send, handler, conn, sent,
                                      history>>

\* WriteMessage returns an error: the connection is closed or lost, or the
\* peer takes nothing for writeWait.  The message in hand is never written.
WriteFails(c) == /\ WriterGoto(c, "writing", "closing")
                 /\ UNCHANGED <<hubVars, send, handler, conn, hand, sent,
                                history>>

\* `message, ok := <-c.send` gives !ok: closed and drained.
TakeClosed(c) == /\ WriterGoto(c, "select", "closing")
                 /\ closed[c]
                 /\ send[c] = <<>>
                 /\ UNCHANGED <<hubVars, send, handler, conn, hand, sent,
                                history>>

\* The ticker fires and the ping cannot be written.
PingFails(c) == /\ WriterGoto(c, "select", "closing")
                /\ UNCHANGED <<hubVars, send, handler, conn, hand, sent,
                               history>>

\* Mutant of WriterCloses: WritePump returns without closing the connection.
WriterLeavesOpen(c) == /\ WriterGoto(c, "closing", "returned")
                       /\ UNCHANGED <<hubVars, send, handler, conn, hand, sent,
                                      history>>

\* The deferred conn.Close(), and WritePump returns.
WriterCloses(c) == /\ WriterGoto(c, "closing", "returned")
                   /\ conn' = [conn EXCEPT ![c] = "closed"]
                   /\ UNCHANGED <<hubVars, send, handler, hand, sent, history>>

-----------------------------------------------------------------------------
\* The environment: the peer closes, vanishes, stops answering pings until
\* the read deadline passes, or sends a frame over the read limit.
PeerLost(c) == /\ conn[c] = "open"
               /\ conn' = [conn EXCEPT ![c] = "lost"]
               /\ UNCHANGED <<hubVars, send, handler, writer, hand, sent,
                              history>>

\* Every connection came and went; the hub waits at its select for ever.
Quiescent == /\ AtSelect
             /\ \A c \in Client : /\ handler[c] = "returned"
                                  /\ writer[c] = "returned"
             /\ UNCHANGED vars

HandlerStep(c) == \/ Connect(c) \/ Register(c) \/ StartPumps(c)
                  \/ ReadMessage(c) \/ Broadcast(c) \/ ReadFails(c)
                  \/ Unregister(c) \/ ReaderCloses(c)

WriterStep(c) == \/ TakeMessage(c) \/ WriteSucceeds(c) \/ WriteFails(c)
                 \/ TakeClosed(c) \/ PingFails(c) \/ WriterCloses(c)

Next == \/ \E c \in Client : \/ HandlerStep(c)
                             \/ FanOut(c)
                             \/ WriterStep(c)
                             \/ PeerLost(c)
        \/ Quiescent

Spec == Init /\ [][Next]_vars

-----------------------------------------------------------------------------
(***************************************************************************)
(* Fairness, by goroutine.  Sending on an unbuffered channel waits in the  *)
(* channel's FIFO queue and the hub's select picks uniformly among the     *)
(* ready cases, so a rendezvous that is possible again and again happens:  *)
(* strong fairness.  A goroutine that can step on its own does: weak       *)
(* fairness.  A write ends within writeWait, in success or in failure.     *)
(* Nothing obliges a client to connect or to speak, a ping to fail or a    *)
(* connection to be lost.                                                  *)
(***************************************************************************)
HandlerFairness ==
  \A c \in Client :
    /\ SF_vars(Register(c) \/ Broadcast(c) \/ Unregister(c))
    /\ WF_vars(StartPumps(c) \/ ReadFails(c) \/ ReaderCloses(c))

HubFairness == \A c \in Client : WF_vars(FanOut(c))

WriterFairness ==
  \A c \in Client :
    WF_vars(\/ TakeMessage(c) \/ TakeClosed(c)
            \/ WriteSucceeds(c) \/ WriteFails(c)
            \/ WriterCloses(c))

FairSpec == Spec /\ HandlerFairness /\ HubFairness /\ WriterFairness

-----------------------------------------------------------------------------
(***************************************************************************)
(* Safety.                                                                 *)
(***************************************************************************)

\* The types of the variables; the loop of a broadcast has only registered
\* clients to visit, and no buffer holds more than it has room for.
TypeOK ==
  /\ clients \subseteq Client
  /\ todo \subseteq clients
  /\ closed \in [Client -> BOOLEAN]
  /\ send \in [Client -> Seq(Msg)]
  /\ \A c \in Client : Len(send[c]) <= SendCap
  /\ handler \in [Client -> HandlerState]
  /\ writer \in [Client -> WriterState]
  /\ conn \in [Client -> {"none", "open", "lost", "closed"}]
  /\ hand \in [Client -> Seq(Msg)]
  /\ \A c \in Client : Len(hand[c]) <= 1
  /\ sent \in [Client -> 0 .. MaxMsgs]
  /\ log \in Seq(Msg)
  /\ joinedAt \in [Client -> Nat]
  /\ written \in [Client -> Seq(Msg)]

\* The hub goroutine, which no recover protects, never sends on a closed
\* c.send and never closes one twice, whichever of the two places that drop a
\* client (a full buffer, an unregister) comes first: the clients it may still
\* send to or close are open.
NoPanic == \A c \in clients \cup todo : ~closed[c]

\* All that the hub ever put in the buffer of c: written to the connection,
\* in WritePump's hand, still in the buffer.
Pipeline(c) == written[c] \o hand[c] \o send[c]

\* What a connection is sent is a contiguous stretch of the hub's order that
\* starts where it registered: no gap, no repetition, no reordering, also for
\* a client that is too slow and one that is already dropped.
InOrder == \A c \in Client :
             /\ joinedAt[c] + Len(Pipeline(c)) <= Len(log)
             /\ \A i \in 1 .. Len(Pipeline(c)) :
                   Pipeline(c)[i] = log[joinedAt[c] + i]

\* A client is in h.clients only while it has missed nothing: whatever was
\* broadcast since it registered was put in its buffer, but for the message
\* whose loop has not reached it yet.
MembersMissNothing ==
  \A c \in clients :
    joinedAt[c] + Len(Pipeline(c)) = Len(log) - (IF c \in todo THEN 1 ELSE 0)

\* The buffer of a registered client is closed exactly when the client is out
\* of h.clients, so its WritePump ends exactly when nothing more can come; a
\* handler that went through Unregister leaves no entry behind in h.clients.
ClosedIffRemoved ==
  \A c \in Client :
    /\ closed[c] <=> /\ c \notin clients
                     /\ handler[c] \notin {"idle", "registering"}
    /\ handler[c] \in {"closing", "returned"} => c \notin clients

(***************************************************************************)
(* The hub implements the room: a client is in while it is in h.clients,   *)
(* and its cut is fixed by what was in its buffer when it was closed.      *)
(***************************************************************************)
phase == [c \in Client |->
            IF c \in clients THEN "in"
            ELSE IF handler[c] \in {"idle", "registering"} THEN "out"
            ELSE "left"]

posted == [c \in Client |->
             IF handler[c] = "broadcasting" THEN sent[c] - 1 ELSE sent[c]]

cut == [c \in Client |->
          IF closed[c] THEN joinedAt[c] + Len(Pipeline(c)) ELSE 0]

R == INSTANCE Room WITH delivered <- written

\* Every behaviour of the hub and its pumps is one of the room.
ImplementsRoom == R!Spec

(***************************************************************************)
(* Liveness.                                                               *)
(***************************************************************************)

\* No goroutine leaks and nobody stays connected and deaf: once the hub has
\* dropped a client, or its connection is lost or closed by either side at any
\* point, its handler and its WritePump both return, the connection is closed
\* and the hub forgets it.
EndedIsReaped ==
  \A c \in Client :
    (closed[c] \/ conn[c] \in {"lost", "closed"}) ~>
      /\ handler[c] = "returned"
      /\ writer[c] = "returned"
      /\ conn[c] = "closed"
      /\ c \notin clients

\* A message broadcast while c is a member is written to its connection,
\* unless the connection breaks.
DeliveredOrDisconnected ==
  \A c \in Client, m \in Msg :
    (c \in clients /\ \E i \in joinedAt[c] + 1 .. Len(log) : log[i] = m) ~>
      \/ \E i \in 1 .. Len(written[c]) : written[c][i] = m
      \/ conn[c] # "open"

\* A message that ReadPump read is broadcast, and the hub is at its select
\* again, also when the WritePump is gone that would have emptied a buffer the
\* message goes to: no connection that is slow or half dead ever stops the hub.
ReadIsBroadcast ==
  \A c \in Client, n \in 1 .. MaxMsgs :
    (handler[c] = "broadcasting" /\ sent[c] = n) ~>
      AtSelect /\ \E i \in 1 .. Len(log) : log[i] = <<c, n>>
=============================================================================
