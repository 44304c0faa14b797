------------------------------ MODULE Channels ------------------------------
(***************************************************************************)
(* controllers/channel_controller.go: the handlers that change channels    *)
(* and memberships.  None of them uses a transaction.  ListMine, Search,   *)
(* ListJoined and ListMembers change no table.                             *)
(***************************************************************************)
EXTENDS Requests

\* POST /api/channels.
Create(r) == \E u \in KnownUser, n \in ChanName :
               Begin(r, "create", "create:insert", u, 0,
                     [NoForm EXCEPT !.name = n])

CreateInsert(r) ==
  LET row == [name |-> req[r].form.name, owner |-> req[r].user]
  IN /\ At(r, "create:insert")
     /\ \/ /\ ChannelInsertable(row)
           /\ InsertChannel(row)
           /\ \/ req' = [req EXCEPT ![r].chan = nextChannel,
                                    ![r].at = "member:find",
                                    ![r].wrote = TRUE]
              \/ DbFails /\ ReplyWritten(r, 409)
        \/ /\ ~ChannelInsertable(row) \/ DbFails
           /\ Reply(r, 409)
           /\ UNCHANGED db

\* POST /api/channels/:id/join.
Join(r) == \E u \in KnownUser, c \in ChannelId :
             Begin(r, "join", "join:find", u, c, NoForm)

JoinFind(r) ==
  /\ At(r, "join:find")
  /\ \/ req[r].chan \in DOMAIN channels /\ Go(r, "member:find")
     \/ /\ req[r].chan \notin DOMAIN channels \/ DbFails
        /\ Reply(r, 404)
  /\ UNCHANGED db

\* What Create and Join answer, whatever FirstOrCreate returned.
Success(r) == IF req[r].op = "create" THEN 201 ELSE 200

\* The same after a failure that has nothing to do with the tables.  An INSERT
\* that is done and whose answer is lost comes to the same as one that is
\* answered, since nobody looks at the answer.
ReplyDropping(r) == req' = [req EXCEPT ![r].at = "replied",
                                       ![r].status = Success(r),
                                       ![r].dropped = TRUE]

\* The SELECT of FirstOrCreate.
MemberFind(r) ==
  /\ At(r, "member:find")
  /\ \/ /\ <<req[r].chan, req[r].user>> \notin members
        /\ Go(r, "member:insert")
     \/ /\ <<req[r].chan, req[r].user>> \in members
        /\ Reply(r, Success(r))
     \/ /\ DbFails
        /\ ReplyDropping(r)
  /\ UNCHANGED db

\* Mutant of MemberInsert: FirstOrCreate looks for the channel's membership
\* without the user, and makes none for a second member.
MemberInsertFirstOnly(r) ==
  /\ At(r, "member:insert")
  /\ \/ /\ MemberInsertable(req[r].chan, req[r].user)
        /\ MembersOf({req[r].chan}) = {}
        /\ InsertMember(req[r].chan, req[r].user)
        /\ ReplyWritten(r, Success(r))
     \/ /\ \/ ~MemberInsertable(req[r].chan, req[r].user)
           \/ MembersOf({req[r].chan}) # {}
        /\ Reply(r, Success(r))
        /\ UNCHANGED db

\* Its INSERT; the error, if there is one, is dropped.
MemberInsert(r) ==
  /\ At(r, "member:insert")
  /\ \/ /\ MemberInsertable(req[r].chan, req[r].user)
        /\ InsertMember(req[r].chan, req[r].user)
        /\ ReplyWritten(r, Success(r))
     \/ /\ ~MemberInsertable(req[r].chan, req[r].user)
        /\ Reply(r, Success(r))
        /\ UNCHANGED db
     \/ /\ DbFails
        /\ ReplyDropping(r)
        /\ UNCHANGED db

-----------------------------------------------------------------------------
\* DELETE /api/channels/:id.
Delete(r) == \E u \in KnownUser, c \in ChannelId :
               Begin(r, "delete", "delete:find", u, c, NoForm)

\* Mutant of DeleteFind: anyone may delete a channel.
DeleteFindByAnyone(r) ==
  /\ At(r, "delete:find")
  /\ IF req[r].chan \in DOMAIN channels THEN Go(r, "delete:members")
     ELSE Reply(r, 404)
  /\ UNCHANGED db

DeleteFind(r) ==
  LET c == req[r].chan
  IN /\ At(r, "delete:find")
     /\ \/ /\ c \in DOMAIN channels
           /\ IF channels[c].owner = req[r].user THEN Go(r, "delete:members")
              ELSE Reply(r, 403)
        \/ /\ c \notin DOMAIN channels \/ DbFails
           /\ Reply(r, 404)
     /\ UNCHANGED db

\* The members go first; the error, if there is one, is dropped.
DeleteMembersOf(r) ==
  /\ At(r, "delete:members")
  /\ \/ /\ DeleteMembers(req[r].chan)
        /\ GoWritten(r, "delete:channel")
     \/ /\ DbFails
        /\ Go(r, "delete:channel")
        /\ UNCHANGED db

\* Mutant of DeleteChannelRow: the answer does not depend on the statement.
DeleteChannelRowBlindly(r) ==
  /\ At(r, "delete:channel")
  /\ IF ChannelDeletable(req[r].chan) THEN DeleteChannel(req[r].chan)
     ELSE UNCHANGED db
  /\ ReplyWritten(r, 200)

\* Then the channel, by its id: a row that is gone already is no error, a
\* member who joined meanwhile is.
DeleteChannelRow(r) ==
  /\ At(r, "delete:channel")
  /\ \/ /\ ChannelDeletable(req[r].chan)
        /\ DeleteChannel(req[r].chan)
        /\ ReplyDone(r, 200, 500)
     \/ /\ ~ChannelDeletable(req[r].chan) \/ DbFails
        /\ Reply(r, 500)
        /\ UNCHANGED db

ChannelStep(r) ==
  \/ Create(r) \/ CreateInsert(r)
  \/ Join(r) \/ JoinFind(r)
  \/ MemberFind(r) \/ MemberInsert(r)
  \/ Delete(r) \/ DeleteFind(r) \/ DeleteMembersOf(r) \/ DeleteChannelRow(r)
=============================================================================
