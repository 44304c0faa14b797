--------------------------- MODULE SocketsProofs ----------------------------
(***************************************************************************)
(* The safety invariants of Sockets, proved for any connections, users and *)
(* channels.  IInv is inductive: mutual exclusion, with what a goroutine   *)
(* in the critical section knows, carries OneRoom, and a history that is   *)
(* never behind the tables carries OnlyTheEntitled.                        *)
(***************************************************************************)
EXTENDS Sockets, FiniteSetTheorems, TLAPS

\* The channels that have a hub.
Rooms == {c \in Channel : hubs[c] # 0}

\* Whoever asks has a user and a channel to ask for.
Asking == \A k \in Conn : at[k] # "idle" => /\ chan[k] \in Channel
                                            /\ who[k] \in User

\* The critical section is held by the owner of the mutex, and a goroutine
\* that goes to make a hub has found none, which stays so.
Mutex == \A k \in Conn : /\ Inside(k) <=> mu = k
                         /\ at[k] = "make" => hubs[chan[k]] = 0

\* The history is never behind the tables.
Watched == \A k \in Conn : at[k] # "idle" /\ Rightful(k) => entitled[k]

IInv == /\ TypeOK /\ IsFiniteSet(Rooms) /\ Asking
        /\ Mutex /\ OneRoom
        /\ Watched /\ OnlyTheEntitled

-----------------------------------------------------------------------------
\* Every behaviour starts in IInv.
LEMMA InitIInv == Init => IInv
<1> SUFFICES ASSUME Init PROVE IInv
  OBVIOUS
<1>1. Rooms = {}
  BY DEF Init, Rooms
<1>2. IsFiniteSet(Rooms) /\ Cardinality(Rooms) = 0
  BY <1>1, FS_EmptySet
<1>3. TypeOK
  BY <1>2 DEF Init, TypeOK, Rooms, Step
<1>4. Asking /\ Mutex /\ OneRoom /\ Watched /\ OnlyTheEntitled
  BY NobodyAssumption DEF Init, Asking, Mutex, Inside, OneRoom, Holds, Watched,
     OnlyTheEntitled, Admitted
<1> QED
  BY <1>2, <1>3, <1>4 DEF IInv

\* The types are kept; a hub is made only for a channel that has none, so that
\* the hubs in the map are all that were made.
LEMMA TypeStep == IInv /\ [Next]_vars => TypeOK' /\ IsFiniteSet(Rooms')
<1> SUFFICES ASSUME IInv, [Next]_vars PROVE TypeOK' /\ IsFiniteSet(Rooms')
  OBVIOUS
<1> USE DEF IInv
<1>1. CASE TableStep
  <2>1. /\ made' \subseteq Channel /\ rows' \subseteq made'
        /\ members' \subseteq Channel \X User
    BY <1>1 DEF TableStep, Create, DeleteChannel, DeleteMembers, Join, TypeOK
  <2>2. entitled' \in [Conn -> BOOLEAN]
    BY <1>1 DEF TableStep, Noted, TypeOK, Rightful, MayEnter
  <2> QED
    BY <1>1, <2>1, <2>2 DEF TableStep, TypeOK, Rooms, manager
<1>2. ASSUME NEW k \in Conn, Make(k) PROVE TypeOK' /\ IsFiniteSet(Rooms')
  <2>1. chan[k] \in Channel /\ hubs[chan[k]] = 0 /\ nextHub \in Nat \ {0}
    <3>1. Cardinality(Rooms) \in Nat
      BY FS_CardinalityType
    <3> QED
      BY <1>2, <3>1 DEF Make, Goto, Asking, Mutex, TypeOK, Rooms
  <2>2. /\ hubs' = [hubs EXCEPT ![chan[k]] = nextHub]
        /\ hubs \in [Channel -> 0 .. nextHub - 1]
    BY <1>2 DEF Make, TypeOK
  <2>3. Rooms' = Rooms \cup {chan[k]} /\ chan[k] \notin Rooms
    BY <2>1, <2>2 DEF Rooms
  <2>4. IsFiniteSet(Rooms') /\ Cardinality(Rooms') = Cardinality(Rooms) + 1
    BY <2>3, FS_AddElement
  <2>5. nextHub' = 1 + Cardinality(Rooms')
    BY <1>2, <2>1, <2>4, FS_CardinalityType DEF Make, TypeOK, Rooms
  <2>6. hubs' \in [Channel -> 0 .. nextHub' - 1]
    BY <1>2, <2>1, <2>2 DEF Make
  <2>7. at' \in [Conn -> Step]
    BY <1>2 DEF Make, Goto, TypeOK, Step
  <2>8. hub' \in [Conn -> 0 .. nextHub' - 1]
    <3>1. hub \in [Conn -> 0 .. nextHub - 1]
      BY DEF TypeOK
    <3>2. hub' = [hub EXCEPT ![k] = nextHub] /\ nextHub' = nextHub + 1
      BY <1>2 DEF Make
    <3> QED
      BY <2>1, <3>1, <3>2
  <2> QED
    BY <1>2, <2>4, <2>5, <2>6, <2>7, <2>8 DEF Make, TypeOK, tables, Rooms
<1>3. ASSUME NEW k \in Conn, Dial(k) \/ Serve(k) \/ Leave(k), ~Make(k)
      PROVE  TypeOK' /\ IsFiniteSet(Rooms')
  <2>1. hubs' = hubs /\ nextHub' = nextHub /\ UNCHANGED tables
    BY <1>3 DEF Dial, Serve, Leave, Refuse, FindChannel, FindMember, Upgrade,
       Register, Get, Lock, LookUp, Unlock, manager
  <2>2. at' \in [Conn -> Step]
    BY <1>3 DEF TypeOK, Step, Goto, End, Dial, Serve, Leave, Refuse,
       FindChannel, FindMember, Upgrade, Register, Get, Lock, LookUp, Unlock
  <2>3. /\ chan' \in [Conn -> Channel \cup {Nobody}]
        /\ who' \in [Conn -> User \cup {Nobody}]
    BY <1>3 DEF TypeOK, End, Dial, Serve, Leave, Refuse, FindChannel,
       FindMember, Upgrade, Register, Get, Lock, LookUp, Unlock, locals
  <2>4. mu' \in Conn \cup {Nobody}
    BY <1>3 DEF TypeOK, Dial, Serve, Leave, Refuse, FindChannel, FindMember,
       Upgrade, Register, Get, Lock, LookUp, Unlock, manager
  <2>5. entitled' \in [Conn -> BOOLEAN]
    BY <1>3 DEF TypeOK, MayEnter, End, Dial, Serve, Leave, Refuse, FindChannel,
       FindMember, Upgrade, Register, Get, Lock, LookUp, Unlock, locals
  <2>6. hub' \in [Conn -> 0 .. nextHub - 1]
    <3>1. nextHub \in Nat \ {0} /\ hub \in [Conn -> 0 .. nextHub - 1]
          /\ hubs \in [Channel -> 0 .. nextHub - 1]
      BY FS_CardinalityType DEF TypeOK, Rooms
    <3>2. CASE LookUp(k)
      <4>1. chan[k] \in Channel
        BY <3>2 DEF LookUp, Goto, Asking
      <4> QED
        BY <3>1, <3>2, <4>1 DEF LookUp
    <3>3. CASE hub' = hub \/ hub' = [hub EXCEPT ![k] = 0]
      BY <3>1, <3>3
    <3> QED
      BY <1>3, <3>2, <3>3 DEF End, Dial, Serve, Leave, Refuse, FindChannel,
         FindMember, Upgrade, Register, Get, Lock, Unlock, locals
  <2> QED
    BY <2>1, <2>2, <2>3, <2>4, <2>5, <2>6 DEF TypeOK, Rooms, tables
<1>4. CASE UNCHANGED vars
  BY <1>4 DEF vars, tables, locals, manager, TypeOK, Rooms
<1> QED
  BY <1>1, <1>2, <1>3, <1>4 DEF Next

\* The mutex is held by one goroutine at a time, which alone changes m.hubs.
LEMMA MutexStep == IInv /\ [Next]_vars => Asking' /\ Mutex'
<1> SUFFICES ASSUME IInv, [Next]_vars PROVE Asking' /\ Mutex'
  OBVIOUS
<1> USE NobodyAssumption DEF IInv, TypeOK
<1>1. CASE TableStep
  BY <1>1 DEF TableStep, manager, Asking, Mutex, Inside
<1>2. ASSUME NEW k \in Conn, Dial(k) \/ Serve(k) \/ Leave(k)
      PROVE  Asking'
  BY <1>2 DEF Asking, Goto, End, Dial, Serve, Leave, Refuse, FindChannel,
     FindMember, Upgrade, Register, Get, Lock, LookUp, Make, Unlock, locals
<1>3. ASSUME NEW k \in Conn,
             \/ Dial(k) \/ Refuse(k) \/ FindChannel(k) \/ FindMember(k)
             \/ Upgrade(k) \/ Register(k) \/ Leave(k)
      PROVE  Mutex'
  BY <1>3 DEF Mutex, Inside, Goto, End, Dial, Refuse, FindChannel, FindMember,
     Upgrade, Register, Leave, manager, locals
<1>4. ASSUME NEW k \in Conn, Get(k) PROVE Mutex'
  <2>1. CASE Lock(k)
    BY <2>1 DEF Lock, Goto, Mutex, Inside, locals
  <2>2. CASE LookUp(k)
    BY <2>2 DEF LookUp, Goto, Mutex, Inside, manager
  <2>3. CASE Make(k)
    BY <2>3 DEF Make, Goto, Mutex, Inside
  <2>4. CASE Unlock(k)
    BY <2>4 DEF Unlock, Goto, Mutex, Inside, locals
  <2> QED
    BY <1>4, <2>1, <2>2, <2>3, <2>4 DEF Get
<1>5. CASE UNCHANGED vars
  BY <1>5 DEF vars, locals, manager, Asking, Mutex, Inside
<1> QED
  BY <1>1, <1>2, <1>3, <1>4, <1>5 DEF Next, Serve

\* Who has a hub in hand has the one of its channel.
LEMMA RoomStep == IInv /\ [Next]_vars => OneRoom'
<1> SUFFICES ASSUME IInv, [Next]_vars PROVE OneRoom'
  OBVIOUS
<1> USE DEF IInv
<1>1. ASSUME NEW k \in Conn, Make(k) PROVE OneRoom'
  <2>1. chan[k] \in Channel /\ hubs[chan[k]] = 0 /\ nextHub \in Nat \ {0}
    BY <1>1, FS_CardinalityType DEF Make, Goto, Asking, Mutex, TypeOK, Rooms
  <2>2. /\ hubs' = [hubs EXCEPT ![chan[k]] = nextHub]
        /\ hubs \in [Channel -> 0 .. nextHub - 1]
    BY <1>1 DEF Make, TypeOK
  <2>3. \A c, d \in Channel : hubs'[c] = hubs'[d] /\ hubs'[c] # 0 => c = d
    BY <2>1, <2>2 DEF OneRoom
  <2>4. ASSUME NEW l \in Conn, Holds(l)'
        PROVE  hub'[l] # 0 /\ hub'[l] = hubs'[chan'[l]]
    <3>1. CASE l = k
      BY <1>1, <2>1, <2>2, <3>1 DEF Make, TypeOK
    <3>2. CASE l # k
      <4>1. Holds(l) /\ hub'[l] = hub[l] /\ chan'[l] = chan[l]
        BY <1>1, <2>4, <3>2 DEF Make, Goto, Holds, TypeOK
      <4>2. hub[l] # 0 /\ hub[l] = hubs[chan[l]] /\ chan[l] \in Channel
        BY <4>1 DEF OneRoom, Holds, Asking
      <4> QED
        BY <2>1, <2>2, <4>1, <4>2
    <3> QED
      BY <3>1, <3>2
  <2> QED
    BY <2>3, <2>4 DEF OneRoom
<1>2. ASSUME NEW k \in Conn, LookUp(k) PROVE OneRoom'
  BY <1>2 DEF LookUp, Goto, OneRoom, Holds, TypeOK, manager
<1>3. ASSUME NEW k \in Conn,
             \/ Dial(k) \/ Refuse(k) \/ FindChannel(k) \/ FindMember(k)
             \/ Upgrade(k) \/ Register(k) \/ Leave(k) \/ Lock(k) \/ Unlock(k)
      PROVE  OneRoom'
  BY <1>3 DEF OneRoom, Holds, TypeOK, Goto, End, Dial, Refuse, FindChannel,
     FindMember, Upgrade, Register, Leave, Lock, Unlock, manager, locals
<1>4. CASE TableStep \/ UNCHANGED vars
  BY <1>4 DEF TableStep, vars, locals, manager, OneRoom, Holds
<1> QED
  BY <1>1, <1>2, <1>3, <1>4 DEF Next, Serve, Get

\* A look-up that admits finds a right that the history knows of.
LEMMA RightStep == IInv /\ [Next]_vars => Watched' /\ OnlyTheEntitled'
<1> SUFFICES ASSUME IInv, [Next]_vars PROVE Watched' /\ OnlyTheEntitled'
  OBVIOUS
<1> USE DEF IInv, TypeOK
<1>1. CASE TableStep
  <2>1. \A k \in Conn :
          entitled'[k] = (entitled[k] \/ (at[k] # "idle" /\ Rightful(k)'))
    BY <1>1 DEF TableStep, Noted
  <2>2. at' = at
    BY <1>1 DEF TableStep
  <2> QED
    BY <2>1, <2>2 DEF Watched, OnlyTheEntitled, Admitted
<1>2. ASSUME NEW k \in Conn, Dial(k) PROVE Watched' /\ OnlyTheEntitled'
  <2>1. PICK c \in Channel, u \in User :
          /\ chan' = [chan EXCEPT ![k] = c]
          /\ who' = [who EXCEPT ![k] = u]
          /\ entitled' = [entitled EXCEPT ![k] = MayEnter(u, c)]
    BY <1>2 DEF Dial
  <2>2. at[k] = "idle" /\ at' = [at EXCEPT ![k] = "find"] /\ UNCHANGED tables
    BY <1>2 DEF Dial, Goto
  <2> QED
    BY <2>1, <2>2 DEF Watched, OnlyTheEntitled, Admitted, Rightful, MayEnter,
       tables
<1>3. ASSUME NEW k \in Conn, FindChannel(k) \/ FindMember(k)
      PROVE  Watched' /\ OnlyTheEntitled'
  BY <1>3 DEF FindChannel, FindMember, Goto, Watched, OnlyTheEntitled, Admitted,
     Rightful, MayEnter, tables, locals
<1>4. ASSUME NEW k \in Conn,
             \/ Upgrade(k) \/ Register(k) \/ Lock(k) \/ LookUp(k) \/ Make(k)
             \/ Unlock(k)
      PROVE  Watched' /\ OnlyTheEntitled'
  BY <1>4 DEF Upgrade, Register, Lock, LookUp, Make, Unlock, Goto, Watched,
     OnlyTheEntitled, Admitted, Rightful, MayEnter, tables, locals
<1>5. ASSUME NEW k \in Conn, Refuse(k) \/ Leave(k)
      PROVE  Watched' /\ OnlyTheEntitled'
  BY <1>5 DEF Refuse, Leave, End, Watched, OnlyTheEntitled, Admitted, Rightful,
     MayEnter, tables
<1>6. CASE UNCHANGED vars
  BY <1>6 DEF vars, Watched, OnlyTheEntitled, Admitted, Rightful, MayEnter,
     tables, locals
<1> QED
  BY <1>1, <1>2, <1>3, <1>4, <1>5, <1>6 DEF Next, Serve, Get

-----------------------------------------------------------------------------
\* IInv holds in every state of every behaviour.
LEMMA Inductive == Spec => []IInv
<1>1. IInv /\ [Next]_vars => IInv'
  BY TypeStep, MutexStep, RoomStep, RightStep DEF IInv
<1> QED
  BY InitIInv, <1>1, PTL DEF Spec

\* The types of the variables; every hub ever made is in m.hubs.
THEOREM TypeInvariant == Spec => []TypeOK
<1>1. IInv => TypeOK
  BY DEF IInv
<1> QED
  BY Inductive, <1>1, PTL

\* However many connections come at once, to however many channels, those of
\* one channel have one hub in hand, and no two channels share one.
THEOREM ChannelsHaveOneRoom == Spec => []OneRoom
<1>1. IInv => OneRoom
  BY DEF IInv
<1> QED
  BY Inductive, <1>1, PTL

\* Whoever is admitted owned the channel or was its member at some moment since
\* the request began, whatever else is created, joined and deleted meanwhile.
THEOREM AdmittedWereEntitled == Spec => []OnlyTheEntitled
<1>1. IInv => OnlyTheEntitled
  BY DEF IInv
<1> QED
  BY Inductive, <1>1, PTL
=============================================================================
