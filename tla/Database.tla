------------------------------ MODULE Database ------------------------------
(***************************************************************************)
(* The three tables of schema.sql and the statements the controllers send  *)
(* to them.  A statement is atomic; what runs beside it, and what happens  *)
(* between two statements of one request, is the business of the modules   *)
(* that EXTEND this one.                                                   *)
(*                                                                         *)
(* A statement is a condition under which the server accepts it (its       *)
(* unique and foreign keys) and the change it makes.  Ids are given out in *)
(* order and never again (AUTO_INCREMENT).  The id of a membership and the *)
(* creation times are abstracted.                                          *)
(***************************************************************************)
EXTENDS Naturals

CONSTANTS Name, Email, Pass,    \* what a user row is made of
          ChanName,
          MaxUsers,             \* bound: the last id of users
          MaxChannels           \* bound: the last id of channels

ASSUME DatabaseAssumption == MaxUsers \in Nat /\ MaxChannels \in Nat

VARIABLES users,        \* users[u]: the row with id u
          channels,     \* channels[c]: the row with id c
          members,      \* the pairs <<channel_id, user_id>>
          nextUser, nextChannel         \* the next ids

db == <<users, channels, members, nextUser, nextChannel>>

UserId    == 1 .. MaxUsers
ChannelId == 1 .. MaxChannels

User    == [name : Name, email : Email, pw : Pass]
Channel == [name : ChanName, owner : UserId]

DbInit == /\ users = [u \in {} |-> 0]
          /\ channels = [c \in {} |-> 0]
          /\ members = {}
          /\ nextUser = 1
          /\ nextChannel = 1

\* f with the row k, and f without the rows of ks.
Put(f, k, row)  == [x \in DOMAIN f \cup {k} |-> IF x = k THEN row ELSE f[x]]
Without(f, ks) == [x \in DOMAIN f \ ks |-> f[x]]

-----------------------------------------------------------------------------
\* Mutant of UserFits: schema.sql without idx_users_email.
UserFitsByName(id, row) ==
  \A u \in DOMAIN users \ {id} : users[u].name # row.name

\* idx_users_username and idx_users_email leave room for this row.
UserFits(id, row) ==
  \A u \in DOMAIN users \ {id} : /\ users[u].name # row.name
                                 /\ users[u].email # row.email

\* INSERT INTO users.
UserInsertable(row) == nextUser <= MaxUsers /\ UserFits(nextUser, row)

\* Mutant of InsertUser: the id is given out again.
InsertUserSameId(row) == /\ users' = Put(users, nextUser, row)
                         /\ UNCHANGED <<channels, members, nextUser,
                                        nextChannel>>

InsertUser(row) == /\ users' = Put(users, nextUser, row)
                   /\ nextUser' = nextUser + 1
                   /\ UNCHANGED <<channels, members, nextChannel>>

\* UPDATE users SET ... WHERE id = id.  A row that is missing, or that the new
\* values leave as it is, does not count as affected; a password that was
\* hashed again is always a new value, because bcrypt salts it.
UpdateAffects(id, row, rehashed) ==
  id \in DOMAIN users /\ (rehashed \/ users[id] # row)
UpdateUser(id, row) == /\ users' = [users EXCEPT ![id] = row]
                       /\ UNCHANGED <<channels, members, nextUser, nextChannel>>

\* INSERT INTO users ... ON DUPLICATE KEY UPDATE, with the id given: the row
\* that has the id is set to the new values, or else the row that has the
\* username, or else the row that has the email; with none of them the row is
\* inserted under its id.
MatchingRows(field, row) == {u \in DOMAIN users : users[u][field] = row[field]}

Duplicate(id, row) ==
  IF id \in DOMAIN users THEN {id}
  ELSE IF MatchingRows("name", row) # {} THEN MatchingRows("name", row)
  ELSE MatchingRows("email", row)
UpsertTarget(id, row) == IF Duplicate(id, row) = {} THEN id
                         ELSE CHOOSE u \in Duplicate(id, row) : TRUE
Upsertable(id, row) == UserFits(UpsertTarget(id, row), row)
UpsertUser(id, row) ==
  /\ users' = Put(users, UpsertTarget(id, row), row)
  /\ UNCHANGED <<channels, members, nextUser, nextChannel>>

\* INSERT INTO channels: fk_channels_owner and idx_owner_name.
ChannelInsertable(row) ==
  /\ nextChannel <= MaxChannels
  /\ row.owner \in DOMAIN users
  /\ \A c \in DOMAIN channels : channels[c] # row
InsertChannel(row) == /\ channels' = Put(channels, nextChannel, row)
                      /\ nextChannel' = nextChannel + 1
                      /\ UNCHANGED <<users, members, nextUser>>

\* INSERT INTO channel_members: both foreign keys and idx_channel_user.
MemberInsertable(c, u) == /\ c \in DOMAIN channels
                          /\ u \in DOMAIN users
                          /\ <<c, u>> \notin members
InsertMember(c, u) == /\ members' = members \cup {<<c, u>>}
                      /\ UNCHANGED <<users, channels, nextUser, nextChannel>>

MembersOf(cs)   == {m \in members : m[1] \in cs}
MembershipsOf(u) == {m \in members : m[2] = u}
OwnedBy(u)      == {c \in DOMAIN channels : channels[c].owner = u}

\* DELETE FROM channel_members WHERE channel_id = c.
DeleteMembers(c) == /\ members' = members \ MembersOf({c})
                    /\ UNCHANGED <<users, channels, nextUser, nextChannel>>

\* Mutant of ChannelDeletable: channel_members without its foreign key.
ChannelDeletableAlways(c) == TRUE

\* DELETE FROM channels WHERE id = c: fk_channel_members_channel.
ChannelDeletable(c) == MembersOf({c}) = {}
DeleteChannel(c) == /\ channels' = Without(channels, {c})
                    /\ UNCHANGED <<users, members, nextUser, nextChannel>>

-----------------------------------------------------------------------------
DbTypeOK ==
  /\ nextUser \in 1 .. MaxUsers + 1
  /\ nextChannel \in 1 .. MaxChannels + 1
  /\ DOMAIN users \subseteq 1 .. nextUser - 1
  /\ \A u \in DOMAIN users : users[u] \in User
  /\ DOMAIN channels \subseteq 1 .. nextChannel - 1
  /\ \A c \in DOMAIN channels : channels[c] \in Channel
  /\ members \subseteq ChannelId \X UserId

\* No two accounts share a name or an email, no owner has two channels of one
\* name, and no row refers to a row that is gone.
Integrity ==
  /\ \A u \in DOMAIN users : \A v \in DOMAIN users \ {u} :
       /\ users[u].name # users[v].name
       /\ users[u].email # users[v].email
  /\ \A c \in DOMAIN channels :
       /\ channels[c].owner \in DOMAIN users
       /\ \A d \in DOMAIN channels \ {c} : channels[d] # channels[c]
  /\ \A m \in members : m[1] \in DOMAIN channels /\ m[2] \in DOMAIN users
=============================================================================
