-------------------------------- MODULE Room --------------------------------
(***************************************************************************)
(* What one chat channel promises its connections, with no goroutines, no  *)
(* buffers and no sockets.  The hub puts every posted message in one total *)
(* order, log.  A connection that joins sees a contiguous stretch of log:  *)
(* it starts at the message after the one that was last when it joined,    *)
(* never skips, repeats or reorders a message, and ends at a cut that is   *)
(* fixed when it leaves.  A connection that has left may still be shown    *)
(* what was before its cut (its backlog) and may still post, because the   *)
(* reading half of a connection outlives its removal from the hub.         *)
(***************************************************************************)
EXTENDS Naturals, Sequences

CONSTANTS Client,       \* the WebSocket connections of the channel
          MaxMsgs       \* how many messages one connection posts at most

VARIABLES log,          \* every message posted, in the order all members see
          posted,       \* posted[c]: how many of them came from c
          phase,        \* "out" before joining, "in", "left" for ever after
          joinedAt,     \* joinedAt[c]: the length of log when c joined
          delivered,    \* delivered[c]: what c has been shown
          cut           \* cut[c]: c is shown nothing after log[cut[c]]

vars == <<log, posted, phase, joinedAt, delivered, cut>>

\* The n-th message of connection c; its text and its time are abstracted.
Msg == Client \X (1 .. MaxMsgs)

\* The position in log up to which c has been shown everything.
Shown(c) == joinedAt[c] + Len(delivered[c])

Init == /\ log = <<>>
        /\ posted = [c \in Client |-> 0]
        /\ phase = [c \in Client |-> "out"]
        /\ joinedAt = [c \in Client |-> 0]
        /\ delivered = [c \in Client |-> <<>>]
        /\ cut = [c \in Client |-> 0]

Join(c) == /\ phase[c] = "out"
           /\ phase' = [phase EXCEPT ![c] = "in"]
           /\ joinedAt' = [joinedAt EXCEPT ![c] = Len(log)]
           /\ UNCHANGED <<log, posted, delivered, cut>>

\* The next message of c enters the order: each sender's messages keep the
\* order it sent them in, none twice and none from a connection not admitted.
Post(c) == /\ phase[c] # "out"
           /\ posted[c] < MaxMsgs
           /\ log' = Append(log, <<c, posted[c] + 1>>)
           /\ posted' = [posted EXCEPT ![c] = @ + 1]
           /\ UNCHANGED <<phase, joinedAt, delivered, cut>>

Deliver(c) == /\ \/ phase[c] = "in" /\ Shown(c) < Len(log)
                 \/ phase[c] = "left" /\ Shown(c) < cut[c]
              /\ delivered' = [delivered EXCEPT
                                 ![c] = Append(@, log[Shown(c) + 1])]
              /\ UNCHANGED <<log, posted, phase, joinedAt, cut>>

Leave(c) == /\ phase[c] = "in"
            /\ phase' = [phase EXCEPT ![c] = "left"]
            /\ \E k \in Shown(c) .. Len(log) : cut' = [cut EXCEPT ![c] = k]
            /\ UNCHANGED <<log, posted, joinedAt, delivered>>

Next == \E c \in Client : Join(c) \/ Post(c) \/ Deliver(c) \/ Leave(c)

Spec == Init /\ [][Next]_vars
=============================================================================
