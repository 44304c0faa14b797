------------------------------ MODULE Sockets -------------------------------
(***************************************************************************)
(* How a WebSocket gets into a hub: WSController.Serve up to the           *)
(* registration (controllers/ws_controller.go) with Manager.Get and its    *)
(* mutex (ws/hub.go), each goroutine step by step, while other requests    *)
(* create and delete channels and memberships.  What happens in the hub    *)
(* from then on is the business of Hub.                                    *)
(*                                                                         *)
(* Abstracted: the tables to what Serve reads of them; a look-up that      *)
(* fails refuses as one that finds nothing does; the origin check and the  *)
(* upgrade succeed or fail; a connection that ended may be made again.     *)
(***************************************************************************)
EXTENDS Naturals, FiniteSets

CONSTANTS Conn,         \* the connections asked for at once
          User,
          Channel,
          Owner         \* Owner[c]: whose channel c is

ASSUME OwnerAssumption == Owner \in [Channel -> User]

CONSTANT Nobody         \* no connection, channel or user

ASSUME NobodyAssumption == Nobody \notin Conn \cup User \cup Channel

VARIABLES
  made,         \* the channels ever made
  rows,         \* those of them that are still there
  members,      \* channel_members: pairs of a channel and a user
  at,           \* at[k]: where Serve is for k
  chan, who,    \* the channel and the user k asks for, if it does
  mu,           \* who holds m.mu
  hubs,         \* m.hubs: the hub of a channel, 0 for none
  hub,          \* hub[k]: what Get returned to k
  nextHub,      \* hubs are numbered as they are made
  entitled      \* history: k's user owned the channel or was a member of it
                \* at some moment since k asked

tables  == <<made, rows, members>>
locals  == <<chan, who, hub, entitled>>
manager == <<mu, hubs, nextHub>>
vars    == <<tables, at, locals, manager>>

Step == {"idle", "find", "member", "upgrade", "lock", "lookup", "make",
         "unlock", "register", "in"}

\* In the critical section of Get; admitted; with a hub in hand.
Inside(k)   == at[k] \in {"lookup", "make", "unlock"}
Admitted(k) == at[k] \notin {"idle", "find", "member"}
Holds(k)    == at[k] \in {"unlock", "register", "in"}

MayEnter(u, c) == (c \in rows /\ Owner[c] = u) \/ <<c, u>> \in members
Rightful(k)    == MayEnter(who[k], chan[k])

Init == /\ made = {} /\ rows = {} /\ members = {}
        /\ at = [k \in Conn |-> "idle"]
        /\ chan = [k \in Conn |-> Nobody]
        /\ who = [k \in Conn |-> Nobody]
        /\ mu = Nobody
        /\ hubs = [c \in Channel |-> 0]
        /\ hub = [k \in Conn |-> 0]
        /\ nextHub = 1
        /\ entitled = [k \in Conn |-> FALSE]

Goto(k, from, to) == at[k] = from /\ at' = [at EXCEPT ![k] = to]

\* Serve, or the connection, ends: its locals are gone.
End(k) == /\ at' = [at EXCEPT ![k] = "idle"]
          /\ chan' = [chan EXCEPT ![k] = Nobody]
          /\ who' = [who EXCEPT ![k] = Nobody]
          /\ hub' = [hub EXCEPT ![k] = 0]
          /\ entitled' = [entitled EXCEPT ![k] = FALSE]

-----------------------------------------------------------------------------
(***************************************************************************)
(* The other requests, statement by statement as in Channels and Accounts. *)
(***************************************************************************)

\* What the history notes when the tables change.
Noted ==
  entitled' = [k \in Conn |->
                 entitled[k] \/ (at[k] # "idle" /\ Rightful(k)')]

Create(c) == /\ c \notin made
             /\ made' = made \cup {c}
             /\ rows' = rows \cup {c}
             /\ UNCHANGED members

Join(c, u) == /\ c \in rows
              /\ members' = members \cup {<<c, u>>}
              /\ UNCHANGED <<made, rows>>

DeleteMembers(ms) == /\ members' = members \ ms
                     /\ UNCHANGED <<made, rows>>

DeleteChannel(c) == /\ c \in rows
                    /\ \A u \in User : <<c, u>> \notin members
                    /\ rows' = rows \ {c}
                    /\ UNCHANGED <<made, members>>

TableStep == /\ \/ \E c \in Channel : \/ Create(c) \/ DeleteChannel(c)
                                      \/ DeleteMembers({c} \X User)
                \/ \E c \in Channel, u \in User : Join(c, u)
                \/ \E u \in User : DeleteMembers(Channel \X {u})
             /\ UNCHANGED <<at, chan, who, hub, manager>>
             /\ Noted

-----------------------------------------------------------------------------
(***************************************************************************)
(* WSController.Serve.                                                     *)
(***************************************************************************)

\* GET /ws/:id, past Auth.
Dial(k) == /\ Goto(k, "idle", "find")
           /\ \E c \in Channel, u \in User :
                /\ chan' = [chan EXCEPT ![k] = c]
                /\ who' = [who EXCEPT ![k] = u]
                /\ entitled' = [entitled EXCEPT ![k] = MayEnter(u, c)]
           /\ UNCHANGED <<tables, hub, manager>>

\* A look-up that fails or finds nothing, or an upgrade that fails.
Refuse(k) == /\ at[k] \in {"find", "member", "upgrade"}
             /\ End(k)
             /\ UNCHANGED <<tables, manager>>

FindChannel(k) ==
  /\ chan[k] \in rows
  /\ Goto(k, "find", IF Owner[chan[k]] = who[k] THEN "upgrade" ELSE "member")
  /\ UNCHANGED <<tables, locals, manager>>

\* Mutant of FindMember: the user is left out of the condition.
FindMemberOfAnyone(k) == /\ \E u \in User : <<chan[k], u>> \in members
                         /\ Goto(k, "member", "upgrade")
                         /\ UNCHANGED <<tables, locals, manager>>

FindMember(k) == /\ <<chan[k], who[k]>> \in members
                 /\ Goto(k, "member", "upgrade")
                 /\ UNCHANGED <<tables, locals, manager>>

Upgrade(k) == /\ Goto(k, "upgrade", "lock")
              /\ UNCHANGED <<tables, locals, manager>>

\* hub.Register.  The hub takes it sooner or later: see Hub.
Register(k) == /\ Goto(k, "register", "in")
               /\ UNCHANGED <<tables, locals, manager>>

\* The connection ends; what became of its channel meanwhile ends nothing.
Leave(k) == /\ at[k] = "in"
            /\ End(k)
            /\ UNCHANGED <<tables, manager>>

-----------------------------------------------------------------------------
(***************************************************************************)
(* Manager.Get.                                                            *)
(***************************************************************************)

\* Mutant of Lock: m.mu is not taken.
LockNot(k) == /\ Goto(k, "lock", "lookup")
              /\ mu' = k
              /\ UNCHANGED <<tables, locals, hubs, nextHub>>

Lock(k) == /\ Goto(k, "lock", "lookup")
           /\ mu = Nobody
           /\ mu' = k
           /\ UNCHANGED <<tables, locals, hubs, nextHub>>

\* Mutant of LookUp: the hub that is there is returned without unlocking.
LookUpReturns(k) ==
  /\ Goto(k, "lookup", IF hubs[chan[k]] = 0 THEN "make" ELSE "register")
  /\ hub' = [hub EXCEPT ![k] = hubs[chan[k]]]
  /\ UNCHANGED <<tables, chan, who, entitled, manager>>

LookUp(k) ==
  /\ Goto(k, "lookup", IF hubs[chan[k]] = 0 THEN "make" ELSE "unlock")
  /\ hub' = [hub EXCEPT ![k] = hubs[chan[k]]]
  /\ UNCHANGED <<tables, chan, who, entitled, manager>>

\* Mutant of Make: the hub is not put into the map.
MakeUnlisted(k) == /\ Goto(k, "make", "unlock")
                   /\ hub' = [hub EXCEPT ![k] = nextHub]
                   /\ nextHub' = nextHub + 1
                   /\ UNCHANGED <<tables, chan, who, entitled, mu, hubs>>

\* A hub is never removed again, so the map may only grow.
Make(k) == /\ Goto(k, "make", "unlock")
           /\ hub' = [hub EXCEPT ![k] = nextHub]
           /\ hubs' = [hubs EXCEPT ![chan[k]] = nextHub]
           /\ nextHub' = nextHub + 1
           /\ UNCHANGED <<tables, chan, who, entitled, mu>>

Unlock(k) == /\ Goto(k, "unlock", "register")
             /\ mu' = Nobody
             /\ UNCHANGED <<tables, locals, hubs, nextHub>>

Get(k) == Lock(k) \/ LookUp(k) \/ Make(k) \/ Unlock(k)

Serve(k) == \/ Refuse(k) \/ FindChannel(k) \/ FindMember(k) \/ Upgrade(k)
            \/ Get(k) \/ Register(k)

Next == \/ TableStep
        \/ \E k \in Conn : Dial(k) \/ Serve(k) \/ Leave(k)

Spec == Init /\ [][Next]_vars

\* A goroutine runs on, and sync.Mutex lets no goroutine wait for ever: one
\* that has waited for a millisecond is handed the lock.
FairSpec == Spec /\ \A k \in Conn : WF_vars(Serve(k)) /\ SF_vars(Lock(k))

-----------------------------------------------------------------------------
\* The types of the variables.
TypeOK == /\ made \subseteq Channel /\ rows \subseteq made
          /\ members \subseteq Channel \X User
          /\ at \in [Conn -> Step]
          /\ chan \in [Conn -> Channel \cup {Nobody}]
          /\ who \in [Conn -> User \cup {Nobody}]
          /\ mu \in Conn \cup {Nobody}
          /\ nextHub = 1 + Cardinality({c \in Channel : hubs[c] # 0})
          /\ hubs \in [Channel -> 0 .. nextHub - 1]
          /\ hub \in [Conn -> 0 .. nextHub - 1]
          /\ entitled \in [Conn -> BOOLEAN]

\* However many connections come at once, those of one channel meet in one hub,
\* the one in m.hubs, and no two channels share a hub: otherwise a message would
\* reach only some of a channel's members, or those of another channel.
OneRoom ==
  /\ \A k \in Conn : Holds(k) => hub[k] # 0 /\ hub[k] = hubs[chan[k]]
  /\ \A c, d \in Channel : hubs[c] = hubs[d] /\ hubs[c] # 0 => c = d

\* Serve checks with two statements and registers later, and what is deleted in
\* between is not noticed; but nobody gets in on a right that had ended before
\* the request began.
OnlyTheEntitled == \A k \in Conn : Admitted(k) => entitled[k]

\* Whoever is upgraded gets a hub: no goroutine leaves Get without unlocking.
UpgradedGetsIn == \A k \in Conn : at[k] = "lock" ~> at[k] = "in"
=============================================================================
