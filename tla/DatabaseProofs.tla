--------------------------- MODULE DatabaseProofs ---------------------------
(***************************************************************************)
(* Each statement that Database accepts, proved to keep the tables sound   *)
(* for every set of names and every number of rows, whatever request sends *)
(* it and whatever ran before it.  ApiProofs composes the statements into  *)
(* the handlers.                                                           *)
(***************************************************************************)
EXTENDS Database, TLAPS

\* The tables are sound.
Sound == DbTypeOK /\ Integrity

\* What every statement keeps of what a request may have read: an id that was
\* given out stays given out, and a channel's row is changed by nobody and
\* comes back never.
Lasting == /\ nextUser <= nextUser'
           /\ nextChannel <= nextChannel'
           /\ \A c \in DOMAIN channels' :
                c < nextChannel =>
                  c \in DOMAIN channels /\ channels'[c] = channels[c]

\* Nothing changed.
LEMMA NoStatement ==
  ASSUME Sound, UNCHANGED db
  PROVE  Sound' /\ Lasting
BY DatabaseAssumption
   DEF Sound, Lasting, db, DbTypeOK, Integrity, UserId, ChannelId

\* INSERT INTO users keeps names and emails unique: the unique indexes of
\* schema.sql refuse any other row.
LEMMA InsertUserSound ==
  ASSUME Sound, NEW row \in User, UserInsertable(row), InsertUser(row)
  PROVE  Sound' /\ Lasting
<1>1. /\ DOMAIN users' = DOMAIN users \cup {nextUser}
      /\ users'[nextUser] = row
      /\ \A x \in DOMAIN users \ {nextUser} : users'[x] = users[x]
      /\ nextUser' = nextUser + 1
      /\ UNCHANGED <<channels, members, nextChannel>>
  BY DEF InsertUser, Put
<1>2. nextUser \notin DOMAIN users /\ nextUser <= MaxUsers
  BY DatabaseAssumption DEF Sound, DbTypeOK, UserInsertable
<1>3. DbTypeOK'
  BY DatabaseAssumption, <1>1, <1>2 DEF Sound, DbTypeOK, Channel
<1>4. Integrity'
  BY <1>1, <1>2 DEF Sound, Integrity, UserInsertable, UserFits
<1>5. Lasting
  BY <1>1, DatabaseAssumption DEF Lasting, Sound, DbTypeOK
<1> QED
  BY <1>3, <1>4, <1>5 DEF Sound

\* Writing a row of users over another or under an id given out keeps names
\* and emails unique when the row fits there.
LEMMA PutUserSound ==
  ASSUME Sound, NEW id \in 1 .. nextUser - 1, NEW row \in User,
         UserFits(id, row),
         users' = Put(users, id, row),
         UNCHANGED <<channels, members, nextUser, nextChannel>>
  PROVE  Sound' /\ Lasting
<1>1. /\ DOMAIN users' = DOMAIN users \cup {id}
      /\ users'[id] = row
      /\ \A x \in DOMAIN users \ {id} : users'[x] = users[x]
  BY DEF Put
<1>2. DbTypeOK'
  BY DatabaseAssumption, <1>1 DEF Sound, DbTypeOK, Channel
<1>3. Integrity'
  BY <1>1 DEF Sound, Integrity, UserFits
<1>4. Lasting
  BY DatabaseAssumption DEF Lasting, Sound, DbTypeOK
<1> QED
  BY <1>2, <1>3, <1>4 DEF Sound

\* The UPDATE of UpdateMe, when it affects its row.
LEMMA UpdateUserSound ==
  ASSUME Sound, NEW id, NEW row \in User, NEW rehashed \in BOOLEAN,
         UpdateAffects(id, row, rehashed), UserFits(id, row),
         UpdateUser(id, row)
  PROVE  Sound' /\ Lasting
<1>1. id \in DOMAIN users /\ id \in 1 .. nextUser - 1
  BY DEF UpdateAffects, Sound, DbTypeOK
<1>2. users' = Put(users, id, row)
  BY <1>1 DEF UpdateUser, Put
<1> QED
  BY <1>1, <1>2, PutUserSound DEF UpdateUser

\* The INSERT ... ON DUPLICATE KEY UPDATE of UpdateMe, for an id given out
\* some time: whichever row it turns out to write, that id was given out too.
LEMMA UpsertTargetKnown ==
  ASSUME Sound, NEW id \in 1 .. nextUser - 1, NEW row
  PROVE  /\ UpsertTarget(id, row) \in 1 .. nextUser - 1
         /\ id \in DOMAIN users => UpsertTarget(id, row) = id
<1>1. Duplicate(id, row) \subseteq {id} \cup DOMAIN users
  BY DEF Duplicate, MatchingRows
<1>2. CASE Duplicate(id, row) = {}
  BY <1>2 DEF UpsertTarget, Duplicate
<1>3. CASE Duplicate(id, row) # {}
  <2>1. UpsertTarget(id, row) \in Duplicate(id, row)
    BY <1>3 DEF UpsertTarget
  <2> QED
    BY <1>1, <2>1 DEF Sound, DbTypeOK, Duplicate
<1> QED
  BY <1>2, <1>3

\* It keeps the tables sound, whatever row it falls on.
LEMMA UpsertUserSound ==
  ASSUME Sound, NEW id \in 1 .. nextUser - 1, NEW row \in User,
         Upsertable(id, row), UpsertUser(id, row)
  PROVE  Sound' /\ Lasting
<1> DEFINE target == UpsertTarget(id, row)
<1>1. target \in 1 .. nextUser - 1
  BY UpsertTargetKnown
<1>2. /\ UserFits(target, row)
      /\ users' = Put(users, target, row)
      /\ UNCHANGED <<channels, members, nextUser, nextChannel>>
  BY DEF Upsertable, UpsertUser
<1> HIDE DEF target
<1> QED
  BY <1>1, <1>2, PutUserSound

\* INSERT INTO channels: the owner is there, and has no channel of that name.
LEMMA InsertChannelSound ==
  ASSUME Sound, NEW row, row.name \in ChanName,
         row = [name |-> row.name, owner |-> row.owner],
         ChannelInsertable(row), InsertChannel(row)
  PROVE  Sound' /\ Lasting
<1>1. /\ DOMAIN channels' = DOMAIN channels \cup {nextChannel}
      /\ channels'[nextChannel] = row
      /\ \A x \in DOMAIN channels \ {nextChannel} : channels'[x] = channels[x]
      /\ nextChannel' = nextChannel + 1
      /\ UNCHANGED <<users, members, nextUser>>
  BY DEF InsertChannel, Put
<1>2. nextChannel \notin DOMAIN channels /\ nextChannel <= MaxChannels
  BY DatabaseAssumption DEF Sound, DbTypeOK, ChannelInsertable
<1>3. row.owner \in DOMAIN users /\ row \in Channel
  BY DatabaseAssumption
     DEF Sound, DbTypeOK, ChannelInsertable, Channel, UserId
<1>4. DbTypeOK'
  BY DatabaseAssumption, <1>1, <1>2, <1>3 DEF Sound, DbTypeOK
<1>5. Integrity'
  BY <1>1, <1>2, <1>3 DEF Sound, Integrity, ChannelInsertable
<1>6. Lasting
  BY <1>1, DatabaseAssumption DEF Lasting, Sound, DbTypeOK
<1> QED
  BY <1>4, <1>5, <1>6 DEF Sound

\* INSERT INTO channel_members: both foreign keys are there.
LEMMA InsertMemberSound ==
  ASSUME Sound, NEW c, NEW u, MemberInsertable(c, u), InsertMember(c, u)
  PROVE  Sound' /\ Lasting
<1>1. /\ members' = members \cup {<<c, u>>}
      /\ UNCHANGED <<users, channels, nextUser, nextChannel>>
      /\ c \in DOMAIN channels /\ u \in DOMAIN users
  BY DEF InsertMember, MemberInsertable
<1>2. c \in ChannelId /\ u \in UserId
  BY <1>1, DatabaseAssumption DEF Sound, DbTypeOK, ChannelId, UserId
<1>3. DbTypeOK'
  BY DatabaseAssumption, <1>1, <1>2 DEF Sound, DbTypeOK, Channel
<1>4. Integrity'
  BY <1>1 DEF Sound, Integrity
<1>5. Lasting
  BY <1>1, DatabaseAssumption DEF Lasting, Sound, DbTypeOK
<1> QED
  BY <1>3, <1>4, <1>5 DEF Sound

\* DELETE FROM channel_members leaves nothing without what it refers to.
LEMMA DeleteMembersSound ==
  ASSUME Sound, NEW c, DeleteMembers(c)
  PROVE  Sound' /\ Lasting
BY DatabaseAssumption
   DEF Sound, Lasting, DbTypeOK, Integrity, DeleteMembers, Channel

\* DELETE FROM channels takes only a channel that has no members left.
LEMMA DeleteChannelSound ==
  ASSUME Sound, NEW c, ChannelDeletable(c), DeleteChannel(c)
  PROVE  /\ Sound' /\ Lasting
         /\ c \notin DOMAIN channels'
         /\ \A d \in DOMAIN channels \ {c} : d \in DOMAIN channels'
<1>1. /\ DOMAIN channels' = DOMAIN channels \ {c}
      /\ \A x \in DOMAIN channels \ {c} : channels'[x] = channels[x]
      /\ UNCHANGED <<users, members, nextUser, nextChannel>>
  BY DEF DeleteChannel, Without
<1>2. DbTypeOK'
  BY DatabaseAssumption, <1>1 DEF Sound, DbTypeOK
<1>3. \A m \in members : m[1] # c
  BY DEF ChannelDeletable, MembersOf
<1>4. Integrity'
  BY <1>1, <1>3 DEF Sound, Integrity
<1>5. Lasting
  BY <1>1, DatabaseAssumption DEF Lasting, Sound, DbTypeOK
<1> QED
  BY <1>1, <1>2, <1>4, <1>5 DEF Sound

\* An account goes with the channels cs it owns, the members of the channels
\* ds and its own memberships: no row that is left refers to one that went.
LEMMA DeleteAccountSound ==
  ASSUME Sound, NEW u, NEW cs, NEW ds,
         u \in DOMAIN users => OwnedBy(u) \subseteq cs,
         MembersOf(cs \ ds) = {},
         users' = Without(users, {u}),
         channels' = Without(channels, cs),
         members' = members \ (MembersOf(ds) \cup MembershipsOf(u)),
         UNCHANGED <<nextUser, nextChannel>>
  PROVE  Sound' /\ Lasting
<1>1. /\ DOMAIN channels' = DOMAIN channels \ cs
      /\ \A x \in DOMAIN channels \ cs : channels'[x] = channels[x]
      /\ DOMAIN users' = DOMAIN users \ {u}
      /\ \A x \in DOMAIN users \ {u} : users'[x] = users[x]
  BY DEF Without
<1>2. DbTypeOK'
  BY DatabaseAssumption, <1>1 DEF Sound, DbTypeOK
<1>3. \A c \in DOMAIN channels' : channels[c].owner # u
  BY <1>1 DEF OwnedBy, Sound, Integrity
<1>4. \A m \in members' : m \in members /\ m[2] # u /\ m[1] \notin cs
  BY DEF MembersOf, MembershipsOf
<1>5. Integrity'
  <2>1. \A c \in DOMAIN channels' : channels'[c].owner \in DOMAIN users'
    BY <1>1, <1>3 DEF Sound, Integrity
  <2>2. \A m \in members' : m[1] \in DOMAIN channels' /\ m[2] \in DOMAIN users'
    <3> SUFFICES ASSUME NEW m \in members'
                 PROVE  m[1] \in DOMAIN channels' /\ m[2] \in DOMAIN users'
      OBVIOUS
    <3>1. m[1] \in DOMAIN channels /\ m[2] \in DOMAIN users
      BY <1>4 DEF Sound, Integrity
    <3>2. m[1] \notin cs /\ m[2] # u
      BY <1>4
    <3>3. /\ m[1] \in DOMAIN channels \ cs
          /\ m[2] \in DOMAIN users \ {u}
      BY <3>1, <3>2
    <3>4. /\ DOMAIN channels' = DOMAIN channels \ cs
          /\ DOMAIN users' = DOMAIN users \ {u}
      BY <1>1
    <3> QED
      BY ONLY <3>3, <3>4
  <2>3. \A c \in DOMAIN channels' :
          \A d \in DOMAIN channels' \ {c} : channels'[d] # channels'[c]
    BY <1>1 DEF Sound, Integrity
  <2>4. \A v \in DOMAIN users' : \A w \in DOMAIN users' \ {v} :
          users'[v].name # users'[w].name /\ users'[v].email # users'[w].email
    <3> SUFFICES ASSUME NEW v \in DOMAIN users \ {u},
                        NEW w \in DOMAIN users \ {u}, v # w
                 PROVE  /\ users'[v].name # users'[w].name
                        /\ users'[v].email # users'[w].email
      BY <1>1
    <3>1. users'[v] = users[v] /\ users'[w] = users[w]
      BY <1>1
    <3>2. users[v].name # users[w].name /\ users[v].email # users[w].email
      BY DEF Sound, Integrity
    <3> QED
      BY <3>1, <3>2
  <2> QED
    BY <2>1, <2>2, <2>3, <2>4 DEF Integrity
<1>6. Lasting
  BY <1>1, DatabaseAssumption DEF Lasting, Sound, DbTypeOK
<1> QED
  BY <1>2, <1>5, <1>6 DEF Sound
=============================================================================
