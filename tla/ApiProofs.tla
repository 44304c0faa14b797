----------------------------- MODULE ApiProofs ------------------------------
(***************************************************************************)
(* The invariants and action properties of Api, proved for any number of   *)
(* requests served at once, any names and any number of rows.              *)
(*                                                                         *)
(* Sound is about the tables and every statement keeps it (DatabaseProofs).*)
(* Knows says what a request still knows, at each of its steps, of what    *)
(* its earlier statements saw, although other requests ran between them.   *)
(***************************************************************************)
EXTENDS Api, DatabaseProofs

\* The channel c is one that u owns, or it is gone for ever.
OwnedOrGone(c, u) ==
  /\ c \in 1 .. nextChannel - 1
  /\ c \in DOMAIN channels => channels[c].owner = u

UpdateForm == [name : Name \cup {Blank}, email : Email \cup {Blank},
               pw : Pass \cup {Blank}]

Registering == {"register:find", "register:insert"}
Updating    == {"update:read", "update:name", "update:email", "update:save",
                "update:upsert"}
Erasing     == {"deleteMe:list", "deleteMe:purge"}
Joining     == {"join:find", "member:find", "member:insert"}
Deleting    == {"delete:find", "delete:members", "delete:channel"}

\* Which handler is at a step, for whom, and with what payload.
Running(q) ==
  /\ q.at \in Registering => q.op = "register" /\ q.form \in User
  /\ q.at \in Updating => /\ q.op = "update" /\ q.user \in KnownUser
                          /\ q.form \in UpdateForm
  /\ q.at \in Updating \ {"update:read"} => q.row \in User
  /\ q.at = "update:name" => q.form.name # Blank
  /\ q.at = "update:email" => q.form.email # Blank
  /\ q.at \in {"update:email", "update:save", "update:upsert"} =>
       q.form.name \in {Blank, q.row.name}
  /\ q.at \in {"update:save", "update:upsert"} =>
       q.form.email \in {Blank, q.row.email}
  /\ q.at \in Erasing => q.op = "deleteMe" /\ q.user \in KnownUser
  /\ q.at = "create:insert" => /\ q.op = "create" /\ q.user \in KnownUser
                               /\ q.form.name \in ChanName
  /\ q.at = "join:find" => q.op = "join"
  /\ q.at \in Joining => q.op \in {"create", "join"}
  /\ q.at \in Deleting => q.op = "delete"
  /\ q.at # "replied" => q.status = 0
  /\ q.wrote /\ q.at # "replied" => q.op \in {"create", "delete"}

\* What an earlier statement of the request saw and no other can have undone.
StillTrue(q) ==
  /\ q.at \in Deleting \ {"delete:find"} => OwnedOrGone(q.chan, q.user)
  /\ q.at = "deleteMe:purge" => \A c \in q.seen : OwnedOrGone(c, q.user)
  /\ q.op = "delete" /\ q.status = 200 =>
       q.chan \in 1 .. nextChannel - 1 /\ q.chan \notin DOMAIN channels

Knows(r) == Running(req[r]) /\ StillTrue(req[r])

IInv == /\ Sound
        /\ ReqTypeOK
        /\ \A r \in Req : Knows(r)

-----------------------------------------------------------------------------
\* The step is request r's.
Moves(r) == req' = [x \in Req |-> IF x = r THEN req'[r] ELSE req[x]]

\* An id that was given out once stays one of those given out.
LEMMA LongerInterval ==
  ASSUME NEW m \in Nat, NEW n \in Nat, m <= n
  PROVE  1 .. m - 1 \subseteq 1 .. n - 1
OBVIOUS

\* A step keeps the invariant when its statement keeps the tables sound and its
\* own request knows what it needs: the other requests cannot have been told
\* otherwise, because what they saw lasts.
LEMMA OneRequestSteps ==
  ASSUME IInv, NEW r \in Req, Moves(r), Sound', Lasting,
         req'[r] \in Request, Knows(r)'
  PROVE  IInv'
<1>1. ReqTypeOK'
  BY DEF Moves, IInv, ReqTypeOK
<1>2. ASSUME NEW s \in Req PROVE Knows(s)'
  <2>1. CASE s = r
    BY <2>1
  <2>2. CASE s # r
    <3>1. req'[s] = req[s] /\ Knows(s) /\ req[s] \in Request
      BY <2>2 DEF Moves, IInv, ReqTypeOK
    <3>2. /\ nextUser \in Nat /\ nextUser' \in Nat
          /\ nextChannel \in Nat /\ nextChannel' \in Nat
      BY DatabaseAssumption DEF IInv, Sound, DbTypeOK
    <3>3. Running(req[s])'
      <4>1. nextUser' \in Nat
        BY <3>2
      <4>2. nextUser \in Nat /\ nextUser <= nextUser'
        BY <3>2 DEF Lasting
      <4>3. KnownUser \subseteq KnownUser'
        BY ONLY <4>1, <4>2, LongerInterval, Zenon DEF KnownUser
      <4> QED
        BY <3>1, <4>3 DEF Knows, Running, Registering, Updating, Erasing,
           Joining, Deleting
    <3>4. StillTrue(req[s])'
      BY <3>1, <3>2 DEF Knows, StillTrue, OwnedOrGone, Lasting
    <3> QED
      BY <3>3, <3>4 DEF Knows
  <2> QED
    BY <2>1, <2>2
<1> QED
  BY <1>1, <1>2 DEF IInv


\* A request that comes in takes a free place and touches nothing else.
LEMMA BeginMoves ==
  ASSUME IInv, NEW r \in Req, NEW op \in Ops, NEW at \in Step,
         NEW user \in 0 .. MaxUsers, NEW chan \in 0 .. MaxChannels,
         NEW form \in Form, Begin(r, op, at, user, chan, form)
  PROVE  /\ Sound' /\ Lasting /\ nextUser' = nextUser
         /\ Moves(r)
         /\ req'[r] = Fresh(op, at, user, chan, form)
         /\ Fresh(op, at, user, chan, form) \in Request
<1>1. Sound' /\ Lasting /\ nextUser' = nextUser
  BY NoStatement DEF IInv, Begin, db
<1>2. Moves(r) /\ req'[r] = Fresh(op, at, user, chan, form)
  BY DEF Begin, IInv, ReqTypeOK, Moves
<1>3. Fresh(op, at, user, chan, form) \in Request
  BY DEF Fresh, Request
<1> QED
  BY <1>1, <1>2, <1>3

\* POST /api/register keeps the invariant, statement by statement.
LEMMA RegisterKeeps ==
  ASSUME IInv, NEW r \in Req,
         Register(r) \/ RegisterFind(r) \/ RegisterInsert(r)
  PROVE  IInv'
<1> USE DEF IInv, ReqTypeOK, At, Go, GoWritten, Reply, ReplyWritten, ReplyDone,
            Step, Knows, Running, KnownUser, Registering, Updating, Erasing,
            Joining, Deleting
<1>1. ASSUME Register(r) PROVE IInv'
  <2>1. PICK f \in [name : Name, email : Email, pw : Pass] :
          Begin(r, "register", "register:find", 0, 0, f)
    BY <1>1 DEF Register
  <2>2. /\ "register" \in Ops /\ f \in Form
        /\ 0 \in 0 .. MaxUsers /\ 0 \in 0 .. MaxChannels
    BY <2>1, DatabaseAssumption
       DEF Begin, Form, NoForm, Sound, DbTypeOK, ChannelId
  <2>3. /\ Sound' /\ Lasting /\ nextUser' = nextUser
        /\ Moves(r) /\ req'[r] \in Request
        /\ req'[r] = Fresh("register", "register:find", 0, 0, f)
    BY <2>1, <2>2, BeginMoves
  <2>4. Knows(r)'
    BY <2>1, <2>3 DEF Fresh, StillTrue, User
  <2> QED
    BY <2>3, <2>4, OneRequestSteps
<1>2. ASSUME RegisterFind(r) PROVE IInv'
  <2>1. Sound' /\ Lasting
    BY <1>2, NoStatement DEF RegisterFind
  <2>2. Moves(r) /\ req'[r] \in Request
    BY <1>2 DEF RegisterFind, Moves, Request
  <2>3. Knows(r)'
    BY <1>2 DEF RegisterFind, Request, StillTrue
  <2> QED
    BY <2>1, <2>2, <2>3, OneRequestSteps
<1>3. ASSUME RegisterInsert(r) PROVE IInv'
  <2>1. Sound' /\ Lasting
    <3>1. req[r].form \in User
      BY <1>3 DEF RegisterInsert
    <3>2. \/ UserInsertable(req[r].form) /\ InsertUser(req[r].form)
          \/ UNCHANGED db
      BY <1>3 DEF RegisterInsert
    <3> QED
      BY <3>1, <3>2, InsertUserSound, NoStatement
  <2>2. Moves(r) /\ req'[r] \in Request
    BY <1>3 DEF RegisterInsert, Moves, Request
  <2>3. Knows(r)'
    BY <1>3 DEF RegisterInsert, Request, StillTrue
  <2> QED
    BY <2>1, <2>2, <2>3, OneRequestSteps
<1> QED
  BY <1>1, <1>2, <1>3

\* PUT /api/me keeps the invariant: the row it saves is a row of users,
\* whatever became of the account since it was read.
LEMMA UpdateMeKeeps ==
  ASSUME IInv, NEW r \in Req,
         UpdateMe(r) \/ UpdateRead(r) \/ UpdateName(r) \/ UpdateEmail(r) \/
         UpdateSave(r) \/ UpdateUpsert(r)
  PROVE  IInv'
<1> USE DEF IInv, ReqTypeOK, At, Go, GoWritten, Reply, ReplyWritten, ReplyDone,
            Step, Knows, Running, KnownUser, Registering, Updating, Erasing,
            Joining, Deleting
<1>1. ASSUME UpdateMe(r) PROVE IInv'
  <2>1. PICK u \in KnownUser,
               f \in UpdateForm \ {NoForm} :
          Begin(r, "update", "update:read", u, 0, f)
    BY <1>1 DEF UpdateMe, UpdateForm
  <2>2. /\ "update" \in Ops /\ f \in Form
        /\ u \in 0 .. MaxUsers /\ 0 \in 0 .. MaxChannels
    BY <2>1, DatabaseAssumption
       DEF Begin, UpdateForm, Form, NoForm, Sound, DbTypeOK, ChannelId
  <2>3. /\ Sound' /\ Lasting /\ nextUser' = nextUser
        /\ Moves(r) /\ req'[r] \in Request
        /\ req'[r] = Fresh("update", "update:read", u, 0, f)
    BY <2>1, <2>2, BeginMoves
  <2>4. Knows(r)'
    BY <2>1, <2>3 DEF Fresh, StillTrue, UpdateForm
  <2> QED
    BY <2>3, <2>4, OneRequestSteps
<1>2. ASSUME UpdateRead(r) PROVE IInv'
  <2>1. Sound' /\ Lasting
    BY <1>2, NoStatement DEF UpdateRead
  <2>2. Moves(r) /\ req'[r] \in Request
    BY <1>2 DEF UpdateRead, Moves, Request, AfterRead, AfterName, Sound,
       DbTypeOK, UpdateForm
  <2>3. Knows(r)'
    BY <1>2 DEF UpdateRead, Request, StillTrue, AfterRead, AfterName, Sound,
       DbTypeOK, UpdateForm
  <2> QED
    BY <2>1, <2>2, <2>3, OneRequestSteps
<1>3. ASSUME UpdateName(r) PROVE IInv'
  <2>1. Sound' /\ Lasting
    BY <1>3, NoStatement DEF UpdateName
  <2>2. Moves(r) /\ req'[r] \in Request
    BY <1>3 DEF UpdateName, Moves, Request, AfterName, User, UpdateForm
  <2>3. Knows(r)'
    BY <1>3 DEF UpdateName, Request, StillTrue, AfterName, User, UpdateForm
  <2> QED
    BY <2>1, <2>2, <2>3, OneRequestSteps
<1>4. ASSUME UpdateEmail(r) PROVE IInv'
  <2>1. Sound' /\ Lasting
    BY <1>4, NoStatement DEF UpdateEmail
  <2>2. Moves(r) /\ req'[r] \in Request
    BY <1>4 DEF UpdateEmail, Moves, Request, User, UpdateForm
  <2>3. Knows(r)'
    BY <1>4 DEF UpdateEmail, Request, StillTrue, User, UpdateForm
  <2> QED
    BY <2>1, <2>2, <2>3, OneRequestSteps
<1>5. ASSUME UpdateSave(r) PROVE IInv'
  <2>1. Sound' /\ Lasting
    <3>1. Saved(r) \in User
      BY <1>5 DEF UpdateSave, Saved, User, UpdateForm
    <3>2. \/ /\ UpdateAffects(req[r].user, Saved(r), req[r].form.pw # Blank)
             /\ UserFits(req[r].user, Saved(r))
             /\ UpdateUser(req[r].user, Saved(r))
          \/ UNCHANGED db
      BY <1>5 DEF UpdateSave
    <3> QED
      BY <3>1, <3>2, UpdateUserSound, NoStatement
  <2>2. Moves(r) /\ req'[r] \in Request
    BY <1>5 DEF UpdateSave, Moves, Request, UpdateUser, db
  <2>3. Knows(r)'
    BY <1>5 DEF UpdateSave, Request, StillTrue, UpdateUser, db
  <2> QED
    BY <2>1, <2>2, <2>3, OneRequestSteps
<1>6. ASSUME UpdateUpsert(r) PROVE IInv'
  <2>1. Sound' /\ Lasting
    <3>1. Saved(r) \in User /\ req[r].user \in 1 .. nextUser - 1
      BY <1>6 DEF UpdateUpsert, Saved, User, UpdateForm
    <3>2. \/ /\ Upsertable(req[r].user, Saved(r))
             /\ UpsertUser(req[r].user, Saved(r))
          \/ UNCHANGED db
      BY <1>6 DEF UpdateUpsert
    <3> QED
      BY <3>1, <3>2, UpsertUserSound, NoStatement
  <2>2. Moves(r) /\ req'[r] \in Request
    BY <1>6 DEF UpdateUpsert, Moves, Request
  <2>3. Knows(r)'
    BY <1>6 DEF UpdateUpsert, Request, StillTrue
  <2> QED
    BY <2>1, <2>2, <2>3, OneRequestSteps
<1> QED
  BY <1>1, <1>2, <1>3, <1>4, <1>5, <1>6

\* DELETE /api/me keeps the invariant: what its SELECT saw is still the
\* account's own when the DELETEs run.
LEMMA DeleteMeKeeps ==
  ASSUME IInv, NEW r \in Req,
         DeleteMe(r) \/ DeleteMeList(r) \/ DeleteMePurge(r)
  PROVE  IInv'
<1> USE DEF IInv, ReqTypeOK, At, Go, GoWritten, Reply, ReplyWritten, ReplyDone,
            Step, Knows, Running, KnownUser, Registering, Updating, Erasing,
            Joining, Deleting
<1>1. ASSUME DeleteMe(r) PROVE IInv'
  <2>1. PICK u \in KnownUser :
          Begin(r, "deleteMe", "deleteMe:list", u, 0, NoForm)
    BY <1>1 DEF DeleteMe
  <2>2. /\ "deleteMe" \in Ops /\ NoForm \in Form
        /\ u \in 0 .. MaxUsers /\ 0 \in 0 .. MaxChannels
    BY <2>1, DatabaseAssumption
       DEF Begin, Form, NoForm, Sound, DbTypeOK, ChannelId
  <2>3. /\ Sound' /\ Lasting /\ nextUser' = nextUser
        /\ Moves(r) /\ req'[r] \in Request
        /\ req'[r] = Fresh("deleteMe", "deleteMe:list", u, 0, NoForm)
    BY <2>1, <2>2, BeginMoves
  <2>4. Knows(r)'
    BY <2>1, <2>3 DEF Fresh, StillTrue
  <2> QED
    BY <2>3, <2>4, OneRequestSteps
<1>2. ASSUME DeleteMeList(r) PROVE IInv'
  <2>1. Sound' /\ Lasting
    BY <1>2, NoStatement DEF DeleteMeList
  <2>2. Moves(r) /\ req'[r] \in Request
    BY <1>2, DatabaseAssumption DEF DeleteMeList, Moves, Request, OwnedBy,
       OwnedOrGone, Sound, DbTypeOK, ChannelId
  <2>3. Knows(r)'
    BY <1>2, DatabaseAssumption DEF DeleteMeList, Request, StillTrue, OwnedBy,
       OwnedOrGone, Sound, DbTypeOK, ChannelId
  <2> QED
    BY <2>1, <2>2, <2>3, OneRequestSteps
<1>3. ASSUME DeleteMePurge(r) PROVE IInv'
  <2>1. Sound' /\ Lasting
    <3>1. CASE UNCHANGED db
      BY <3>1, NoStatement
    <3>2. CASE /\ Purgeable(r)
               /\ users' = Without(users, {req[r].user})
               /\ channels' = Without(channels, PurgedChannels(r))
               /\ members' = members \ PurgedMembers(r)
               /\ UNCHANGED <<nextUser, nextChannel>>
      <4> DEFINE u == req[r].user
                 cs == PurgedChannels(r)
                 ds == req[r].seen
      <4>1. /\ u \in DOMAIN users => OwnedBy(u) \subseteq cs
            /\ MembersOf(cs \ ds) = {}
            /\ members' = members \ (MembersOf(ds) \cup MembershipsOf(u))
        BY <3>2 DEF Purgeable, PurgedMembers
      <4>2. /\ users' = Without(users, {u})
            /\ channels' = Without(channels, cs)
            /\ UNCHANGED <<nextUser, nextChannel>>
        BY <3>2
      <4> HIDE DEF u, cs, ds
      <4> QED
        BY <4>1, <4>2, DeleteAccountSound
    <3> QED
      BY <1>3, <3>1, <3>2 DEF DeleteMePurge
  <2>2. Moves(r) /\ req'[r] \in Request
    BY <1>3 DEF DeleteMePurge, Moves, Request
  <2>3. Knows(r)'
    BY <1>3 DEF DeleteMePurge, Request, StillTrue
  <2> QED
    BY <2>1, <2>2, <2>3, OneRequestSteps
<1> QED
  BY <1>1, <1>2, <1>3

\* POST /api/channels and POST /api/channels/:id/join keep the invariant.
LEMMA JoinKeeps ==
  ASSUME IInv, NEW r \in Req,
         Create(r) \/ CreateInsert(r) \/ Join(r) \/ JoinFind(r) \/
         MemberFind(r) \/ MemberInsert(r)
  PROVE  IInv'
<1> USE DEF IInv, ReqTypeOK, At, Go, GoWritten, Reply, ReplyWritten, ReplyDone,
            Step, Knows, Running, KnownUser, Registering, Updating, Erasing,
            Joining, Deleting
<1>1. ASSUME Create(r) PROVE IInv'
  <2>1. PICK u \in KnownUser, n \in ChanName :
          Begin(r, "create", "create:insert", u, 0, [NoForm EXCEPT !.name = n])
    BY <1>1 DEF Create
  <2>2. /\ "create" \in Ops /\ [NoForm EXCEPT !.name = n] \in Form
        /\ u \in 0 .. MaxUsers /\ 0 \in 0 .. MaxChannels
    BY <2>1, DatabaseAssumption
       DEF Begin, Form, NoForm, Sound, DbTypeOK, ChannelId
  <2>3. /\ Sound' /\ Lasting /\ nextUser' = nextUser
        /\ Moves(r) /\ req'[r] \in Request
        /\ req'[r] = Fresh("create", "create:insert", u, 0,
                           [NoForm EXCEPT !.name = n])
    BY <2>1, <2>2, BeginMoves
  <2>4. Knows(r)'
    BY <2>1, <2>3 DEF Fresh, StillTrue, NoForm
  <2> QED
    BY <2>3, <2>4, OneRequestSteps
<1>2. ASSUME CreateInsert(r) PROVE IInv'
  <2>1. Sound' /\ Lasting
    <3> DEFINE row == [name |-> req[r].form.name, owner |-> req[r].user]
    <3>1. row.name \in ChanName
      BY <1>2 DEF CreateInsert
    <3>2. row = [name |-> row.name, owner |-> row.owner]
      OBVIOUS
    <3>3. \/ ChannelInsertable(row) /\ InsertChannel(row)
          \/ UNCHANGED db
      BY <1>2 DEF CreateInsert
    <3> HIDE DEF row
    <3> QED
      BY <3>1, <3>2, <3>3, InsertChannelSound, NoStatement
  <2>2. Moves(r) /\ req'[r] \in Request
    BY <1>2, DatabaseAssumption DEF CreateInsert, Moves, Request,
       ChannelInsertable, Sound, DbTypeOK, ChannelId
  <2>3. Knows(r)'
    BY <1>2, DatabaseAssumption DEF CreateInsert, Request, StillTrue,
       ChannelInsertable, Sound, DbTypeOK, ChannelId
  <2> QED
    BY <2>1, <2>2, <2>3, OneRequestSteps
<1>3. ASSUME Join(r) PROVE IInv'
  <2>1. PICK u \in KnownUser, c \in ChannelId :
          Begin(r, "join", "join:find", u, c, NoForm)
    BY <1>3 DEF Join
  <2>2. /\ "join" \in Ops /\ NoForm \in Form
        /\ u \in 0 .. MaxUsers /\ c \in 0 .. MaxChannels
    BY <2>1, DatabaseAssumption
       DEF Begin, Form, NoForm, Sound, DbTypeOK, ChannelId
  <2>3. /\ Sound' /\ Lasting /\ nextUser' = nextUser
        /\ Moves(r) /\ req'[r] \in Request
        /\ req'[r] = Fresh("join", "join:find", u, c, NoForm)
    BY <2>1, <2>2, BeginMoves
  <2>4. Knows(r)'
    BY <2>1, <2>3 DEF Fresh, StillTrue
  <2> QED
    BY <2>3, <2>4, OneRequestSteps
<1>4. ASSUME JoinFind(r) PROVE IInv'
  <2>1. Sound' /\ Lasting
    BY <1>4, NoStatement DEF JoinFind
  <2>2. Moves(r) /\ req'[r] \in Request
    BY <1>4 DEF JoinFind, Moves, Request
  <2>3. Knows(r)'
    BY <1>4 DEF JoinFind, Request, StillTrue
  <2> QED
    BY <2>1, <2>2, <2>3, OneRequestSteps
<1>5. ASSUME MemberFind(r) PROVE IInv'
  <2>1. Sound' /\ Lasting
    BY <1>5, NoStatement DEF MemberFind
  <2>2. Moves(r) /\ req'[r] \in Request
    BY <1>5 DEF MemberFind, Moves, Request, Success, ReplyDropping
  <2>3. Knows(r)'
    BY <1>5 DEF MemberFind, Request, StillTrue, Success, ReplyDropping
  <2> QED
    BY <2>1, <2>2, <2>3, OneRequestSteps
<1>6. ASSUME MemberInsert(r) PROVE IInv'
  <2>1. Sound' /\ Lasting
    <3>1. \/ /\ MemberInsertable(req[r].chan, req[r].user)
             /\ InsertMember(req[r].chan, req[r].user)
          \/ UNCHANGED db
      BY <1>6 DEF MemberInsert
    <3> QED
      BY <3>1, InsertMemberSound, NoStatement
  <2>2. Moves(r) /\ req'[r] \in Request
    BY <1>6 DEF MemberInsert, Moves, Request, Success, ReplyDropping
  <2>3. Knows(r)'
    BY <1>6 DEF MemberInsert, Request, StillTrue, Success, ReplyDropping
  <2> QED
    BY <2>1, <2>2, <2>3, OneRequestSteps
<1> QED
  BY <1>1, <1>2, <1>3, <1>4, <1>5, <1>6

\* DELETE /api/channels/:id keeps the invariant: the owner whom its SELECT saw
\* is the owner still, or the channel is gone, at each of the later statements.
LEMMA DeleteKeeps ==
  ASSUME IInv, NEW r \in Req,
         Delete(r) \/ DeleteFind(r) \/ DeleteMembersOf(r) \/
         DeleteChannelRow(r)
  PROVE  IInv'
<1> USE DEF IInv, ReqTypeOK, At, Go, GoWritten, Reply, ReplyWritten, ReplyDone,
            Step, Knows, Running, KnownUser, Registering, Updating, Erasing,
            Joining, Deleting
<1>1. ASSUME Delete(r) PROVE IInv'
  <2>1. PICK u \in KnownUser, c \in ChannelId :
          Begin(r, "delete", "delete:find", u, c, NoForm)
    BY <1>1 DEF Delete
  <2>2. /\ "delete" \in Ops /\ NoForm \in Form
        /\ u \in 0 .. MaxUsers /\ c \in 0 .. MaxChannels
    BY <2>1, DatabaseAssumption
       DEF Begin, Form, NoForm, Sound, DbTypeOK, ChannelId
  <2>3. /\ Sound' /\ Lasting /\ nextUser' = nextUser
        /\ Moves(r) /\ req'[r] \in Request
        /\ req'[r] = Fresh("delete", "delete:find", u, c, NoForm)
    BY <2>1, <2>2, BeginMoves
  <2>4. Knows(r)'
    BY <2>1, <2>3 DEF Fresh, StillTrue
  <2> QED
    BY <2>3, <2>4, OneRequestSteps
<1>2. ASSUME DeleteFind(r) PROVE IInv'
  <2>1. Sound' /\ Lasting
    BY <1>2, NoStatement DEF DeleteFind
  <2>2. Moves(r) /\ req'[r] \in Request
    BY <1>2, DatabaseAssumption DEF DeleteFind, Moves, Request, OwnedOrGone,
       db, Sound, DbTypeOK
  <2>3. Knows(r)'
    BY <1>2, DatabaseAssumption DEF DeleteFind, Request, StillTrue,
       OwnedOrGone, db, Sound, DbTypeOK
  <2> QED
    BY <2>1, <2>2, <2>3, OneRequestSteps
<1>3. ASSUME DeleteMembersOf(r) PROVE IInv'
  <2>1. Sound' /\ Lasting
    <3>1. DeleteMembers(req[r].chan) \/ UNCHANGED db
      BY <1>3 DEF DeleteMembersOf
    <3> QED
      BY <3>1, DeleteMembersSound, NoStatement
  <2>2. Moves(r) /\ req'[r] \in Request
    BY <1>3 DEF DeleteMembersOf, Moves, Request, OwnedOrGone, DeleteMembers, db
  <2>3. Knows(r)'
    BY <1>3 DEF DeleteMembersOf, Request, StillTrue, OwnedOrGone,
       DeleteMembers, db
  <2> QED
    BY <2>1, <2>2, <2>3, OneRequestSteps
<1>4. ASSUME DeleteChannelRow(r) PROVE IInv'
  <2>1. Sound' /\ Lasting
    <3>1. \/ ChannelDeletable(req[r].chan) /\ DeleteChannel(req[r].chan)
          \/ UNCHANGED db
      BY <1>4 DEF DeleteChannelRow
    <3> QED
      BY <3>1, DeleteChannelSound, NoStatement
  <2>2. Moves(r) /\ req'[r] \in Request
    BY <1>4 DEF DeleteChannelRow, Moves, Request, OwnedOrGone, DeleteChannel,
       Without, db
  <2>3. Knows(r)'
    BY <1>4 DEF DeleteChannelRow, Request, StillTrue, OwnedOrGone,
       DeleteChannel, Without, db
  <2> QED
    BY <2>1, <2>2, <2>3, OneRequestSteps
<1> QED
  BY <1>1, <1>2, <1>3, <1>4

\* The answer goes out, or the server dies and starts again: what was committed
\* stays sound, and a request that is gone claims nothing.
LEMMA FinishKeeps ==
  ASSUME IInv, (\E r \in Req : Finish(r)) \/ Crash
  PROVE  IInv'
<1> USE DEF IInv, ReqTypeOK, Step, Knows, Running, KnownUser, Registering,
            Updating, Erasing, Joining, Deleting, Idle, Fresh, StillTrue
<1>1. Sound' /\ Lasting
  BY NoStatement DEF Finish, Crash
<1>2. Idle \in Request
  BY DatabaseAssumption DEF Request, NoForm, Form
<1>3. ASSUME NEW r \in Req, Finish(r) PROVE IInv'
  <2>1. Moves(r) /\ req'[r] = Idle
    BY <1>3 DEF Finish, Moves
  <2>2. Knows(r)'
    BY <2>1
  <2> QED
    BY <1>1, <1>2, <2>1, <2>2, OneRequestSteps
<1>4. ASSUME Crash PROVE IInv'
  <2>1. req' = [r \in Req |-> Idle]
    BY <1>4 DEF Crash
  <2>2. ReqTypeOK'
    BY <1>2, <2>1
  <2>3. ASSUME NEW r \in Req PROVE Knows(r)'
    BY <2>1
  <2> QED
    BY <1>1, <2>2, <2>3
<1> QED
  BY <1>3, <1>4

\* The tables are sound and every request knows what it relies on, whichever
\* statements of whichever requests come between its own.
LEMMA Inductive == Spec => []IInv
<1>1. Init => IInv
  <2> SUFFICES ASSUME Init PROVE IInv
    OBVIOUS
  <2>1. Sound
    BY DatabaseAssumption DEF Init, DbInit, Sound, DbTypeOK, Integrity
  <2>2. Idle \in Request
    BY DatabaseAssumption DEF Idle, Fresh, Request, NoForm, Form, Step
  <2>3. ReqTypeOK
    BY <2>2 DEF Init, ReqInit, ReqTypeOK
  <2>4. ASSUME NEW r \in Req PROVE Knows(r)
    BY DEF Init, ReqInit, Idle, Fresh, Knows, Running, StillTrue, Registering,
           Updating, Erasing, Joining, Deleting
  <2> QED
    BY <2>1, <2>3, <2>4 DEF IInv
<1>2. IInv /\ [Next]_vars => IInv'
  <2> SUFFICES ASSUME IInv, [Next]_vars PROVE IInv'
    OBVIOUS
  <2>1. ASSUME NEW r \in Req, AccountStep(r) PROVE IInv'
    BY <2>1, RegisterKeeps, UpdateMeKeeps, DeleteMeKeeps DEF AccountStep
  <2>2. ASSUME NEW r \in Req, ChannelStep(r) PROVE IInv'
    BY <2>2, JoinKeeps, DeleteKeeps DEF ChannelStep
  <2>3. CASE (\E r \in Req : Finish(r)) \/ Crash
    BY <2>3, FinishKeeps
  <2>4. CASE UNCHANGED vars
    <3>1. Sound' /\ UNCHANGED <<db, req>>
      BY <2>4, NoStatement DEF IInv, vars
    <3> QED
      BY <3>1 DEF IInv, ReqTypeOK, Knows, Running, StillTrue, OwnedOrGone,
                  KnownUser, db, Registering, Updating, Erasing, Joining,
                  Deleting, Request, Step, Form, User, UpdateForm, NoForm,
                  ChannelId
  <2> QED
    BY <2>1, <2>2, <2>3, <2>4 DEF Next
<1> QED
  BY <1>1, <1>2, PTL DEF Spec

-----------------------------------------------------------------------------
\* The tables and the requests have their types, and no row has an id that was
\* not given out.
THEOREM TypeInvariant == Spec => []TypeOK
<1>1. IInv => TypeOK
  BY DEF IInv, Sound, TypeOK
<1> QED
  BY <1>1, Inductive, PTL

\* For any number of requests served at once, no two accounts come to share a
\* name or an email, no owner has two channels of one name, and no row refers
\* to one that is gone: not after an account is deleted in four statements, and
\* not after Save has turned into an upsert.
THEOREM TablesStaySound == Spec => []Integrity
<1>1. IInv => Integrity
  BY DEF IInv, Sound
<1> QED
  BY <1>1, Inductive, PTL

\* DELETE /api/channels/:id that answered 200 left no channel and no member,
\* whoever tried to join between its statements, and nothing brings them back.
THEOREM DeletedStaysDeleted == Spec => []DeletedChannelIsGone
<1>1. IInv => DeletedChannelIsGone
  BY DEF IInv, Sound, Integrity, Knows, StillTrue, DeletedChannelIsGone,
         MembersOf
<1> QED
  BY <1>1, Inductive, PTL

-----------------------------------------------------------------------------
\* The statements that write each table: no other step of any handler does.
LEMMA Writers ==
  ASSUME [Next]_vars
  PROVE  /\ \/ UNCHANGED users
            \/ \E r \in Req : \/ RegisterInsert(r) \/ UpdateSave(r)
                              \/ UpdateUpsert(r) \/ DeleteMePurge(r)
         /\ \/ UNCHANGED channels
            \/ \E r \in Req : \/ CreateInsert(r) \/ DeleteChannelRow(r)
                              \/ DeleteMePurge(r)
         /\ \/ UNCHANGED members
            \/ \E r \in Req : \/ MemberInsert(r) \/ DeleteMembersOf(r)
                              \/ DeleteMePurge(r)
<1>1. ASSUME NEW r \in Req, AccountStep(r)
      PROVE  \/ UNCHANGED <<users, channels, members>>
             \/ UNCHANGED <<channels, members>>
                /\ (RegisterInsert(r) \/ UpdateSave(r) \/ UpdateUpsert(r))
             \/ DeleteMePurge(r)
  BY <1>1 DEF AccountStep, Register, RegisterFind, RegisterInsert, UpdateMe,
              UpdateRead, UpdateName, UpdateEmail, UpdateSave, UpdateUpsert,
              DeleteMe, DeleteMeList, Begin, db, InsertUser, UpdateUser,
              UpsertUser
<1>2. ASSUME NEW r \in Req, ChannelStep(r)
      PROVE  \/ UNCHANGED <<users, channels, members>>
             \/ UNCHANGED <<users, members>>
                /\ (CreateInsert(r) \/ DeleteChannelRow(r))
             \/ UNCHANGED <<users, channels>>
                /\ (MemberInsert(r) \/ DeleteMembersOf(r))
  BY <1>2 DEF ChannelStep, Create, CreateInsert, Join, JoinFind, MemberFind,
              MemberInsert, Delete, DeleteFind, DeleteMembersOf,
              DeleteChannelRow, Begin, db, InsertChannel, InsertMember,
              DeleteMembers, DeleteChannel
<1>3. CASE (\E r \in Req : Finish(r)) \/ Crash \/ UNCHANGED vars
  BY <1>3 DEF Finish, Crash, vars, db
<1> QED
  BY <1>1, <1>2, <1>3 DEF Next

\* What the request of an account's deletion and of a channel's deletion knows
\* when its statements delete: the rows are those of its user.
LEMMA DeletesItsOwn ==
  ASSUME IInv, NEW r \in Req
  PROVE  /\ At(r, "deleteMe:purge") =>
              \A c \in DOMAIN channels :
                c \in PurgedChannels(r) \cup req[r].seen =>
                  channels[c].owner = req[r].user
         /\ At(r, "delete:members") \/ At(r, "delete:channel") =>
              (req[r].chan \in DOMAIN channels =>
                 channels[req[r].chan].owner = req[r].user)
BY DEF IInv, Knows, StillTrue, OwnedOrGone, At, PurgedChannels, OwnedBy,
       Deleting

\* Rows go only at the request of someone they belong to, for any
\* interleaving: the owner whom the handler saw two statements earlier is the
\* owner still, and nobody's row goes as a side effect of another's request.
THEOREM OwnersDelete == Spec => OnlyOwnersDelete
<1> DEFINE Asked(ids) ==
             \E r \in Req : /\ req[r].at \in {"delete:members",
                                              "delete:channel",
                                              "deleteMe:purge"}
                            /\ req[r].user \in ids
           Deletes == /\ \A c \in DOMAIN channels \ DOMAIN channels' :
                           Asked({channels[c].owner})
                      /\ \A m \in members \ members' :
                           Asked({m[2], channels[m[1]].owner})
                      /\ \A u \in DOMAIN users \ DOMAIN users' : Asked({u})
<1>1. IInv /\ [Next]_vars => [Deletes]_vars
  <2> SUFFICES ASSUME IInv, [Next]_vars PROVE Deletes
    OBVIOUS
  <2>1. ASSUME NEW c \in DOMAIN channels \ DOMAIN channels'
        PROVE  Asked({channels[c].owner})
    <3>1. PICK r \in Req : \/ CreateInsert(r) \/ DeleteChannelRow(r)
                           \/ DeleteMePurge(r)
      BY <2>1, Writers
    <3>2. ~CreateInsert(r)
      BY <2>1 DEF CreateInsert, InsertChannel, Put, db
    <3>3. CASE DeleteChannelRow(r)
      <4>1. At(r, "delete:channel") /\ c = req[r].chan
        BY <2>1, <3>3 DEF DeleteChannelRow, DeleteChannel, Without, db
      <4> QED
        BY <4>1, DeletesItsOwn DEF At
    <3>4. CASE DeleteMePurge(r)
      <4>1. At(r, "deleteMe:purge") /\ c \in PurgedChannels(r)
        BY <2>1, <3>4 DEF DeleteMePurge, Without, db
      <4> QED
        BY <4>1, DeletesItsOwn DEF At
    <3> QED
      BY <3>1, <3>2, <3>3, <3>4
  <2>2. ASSUME NEW m \in members \ members'
        PROVE  Asked({m[2], channels[m[1]].owner})
    <3>1. PICK r \in Req : \/ MemberInsert(r) \/ DeleteMembersOf(r)
                           \/ DeleteMePurge(r)
      BY <2>2, Writers
    <3>2. ~MemberInsert(r)
      BY <2>2 DEF MemberInsert, InsertMember, db
    <3>3. m[1] \in DOMAIN channels
      BY <2>2 DEF IInv, Sound, Integrity
    <3>4. CASE DeleteMembersOf(r)
      <4>1. At(r, "delete:members") /\ m[1] = req[r].chan
        BY <2>2, <3>4 DEF DeleteMembersOf, DeleteMembers, MembersOf, db
      <4> QED
        BY <3>3, <4>1, DeletesItsOwn DEF At
    <3>5. CASE DeleteMePurge(r)
      <4>1. /\ At(r, "deleteMe:purge")
            /\ m[1] \in req[r].seen \/ m[2] = req[r].user
        BY <2>2, <3>5
           DEF DeleteMePurge, PurgedMembers, MembersOf, MembershipsOf, db
      <4> QED
        BY <3>3, <4>1, DeletesItsOwn DEF At
    <3> QED
      BY <3>1, <3>2, <3>4, <3>5
  <2>3. ASSUME NEW u \in DOMAIN users \ DOMAIN users' PROVE Asked({u})
    <3>1. PICK r \in Req : \/ RegisterInsert(r) \/ UpdateSave(r)
                           \/ UpdateUpsert(r) \/ DeleteMePurge(r)
      BY <2>3, Writers
    <3>2. ~RegisterInsert(r) /\ ~UpdateSave(r) /\ ~UpdateUpsert(r)
      BY <2>3 DEF RegisterInsert, UpdateSave, UpdateUpsert, InsertUser,
                  UpdateUser, UpsertUser, Put, db
    <3>3. At(r, "deleteMe:purge") /\ u = req[r].user
      BY <2>3, <3>1, <3>2 DEF DeleteMePurge, Without, db
    <3> QED
      BY <3>3 DEF At
  <2> QED
    BY <2>1, <2>2, <2>3
<1> QED
  BY <1>1, Inductive, PTL DEF Spec, OnlyOwnersDelete

\* A profile changes only at the request of its own account; the one stray
\* write is that of a request whose account was deleted since it was read, for
\* any interleaving and any collision of names and emails.
THEOREM OnlyStraysOfTheDeleted == Spec => OnlyDeletedAccountsStray
<1> DEFINE Edits ==
             \A u \in DOMAIN users \cap DOMAIN users' :
               users'[u] # users[u] =>
                 \E r \in Req :
                   /\ req[r].at \in {"update:save", "update:upsert"}
                   /\ req[r].user \in {u} \cup (KnownUser \ DOMAIN users)
<1>1. IInv /\ [Next]_vars => [Edits]_vars
  <2> SUFFICES ASSUME IInv, [Next]_vars,
                      NEW u \in DOMAIN users \cap DOMAIN users',
                      users'[u] # users[u]
               PROVE  \E r \in Req :
                        /\ req[r].at \in {"update:save", "update:upsert"}
                        /\ req[r].user \in {u} \cup (KnownUser \ DOMAIN users)
    OBVIOUS
  <2>1. PICK r \in Req : \/ RegisterInsert(r) \/ UpdateSave(r)
                         \/ UpdateUpsert(r) \/ DeleteMePurge(r)
    BY Writers
  <2>2. CASE RegisterInsert(r)
    <3>1. nextUser \notin DOMAIN users
      BY DatabaseAssumption DEF IInv, Sound, DbTypeOK
    <3> QED
      BY <2>2, <3>1 DEF RegisterInsert, InsertUser, Put, db
  <2>3. CASE DeleteMePurge(r)
    BY <2>3 DEF DeleteMePurge, Without, db
  <2>4. CASE UpdateSave(r)
    <3>1. At(r, "update:save") /\ u = req[r].user
      BY <2>4 DEF UpdateSave, UpdateUser, db
    <3> QED
      BY <3>1 DEF At
  <2>5. CASE UpdateUpsert(r)
    <3> DEFINE id == req[r].user
               target == UpsertTarget(id, Saved(r))
    <3>1. /\ At(r, "update:upsert")
          /\ id \in KnownUser
      BY <2>5 DEF UpdateUpsert, At, IInv, Knows, Running, Updating
    <3>2. id \in DOMAIN users => target = id
      BY <3>1, UpsertTargetKnown DEF IInv, KnownUser
    <3>3. users' = Put(users, target, Saved(r))
      BY <2>5 DEF UpdateUpsert, UpsertUser, db
    <3> HIDE DEF target
    <3>4. u = target
      BY <3>3 DEF Put
    <3> QED
      BY <3>1, <3>2, <3>4 DEF At
  <2> QED
    BY <2>1, <2>2, <2>3, <2>4, <2>5
<1> QED
  BY <1>1, Inductive, PTL DEF Spec, OnlyDeletedAccountsStray

\* The steps after which a request is answered, whichever handler it is of.
LEMMA Answers ==
  ASSUME IInv, [Next]_vars, NEW r \in Req,
         req[r].at # "replied", req'[r].at = "replied"
  PROVE  \/ req[r].op \notin {"create", "join"}
         \/ req'[r].status \notin {200, 201}
         \/ MemberFind(r) \/ MemberInsert(r)
<1> USE DEF IInv, ReqTypeOK, Request, Knows, Running, At, Go, GoWritten, Reply,
            ReplyWritten, ReplyDone, Begin, Fresh, Registering, Updating,
            Erasing, Joining, Deleting
<1>1. ASSUME NEW s \in Req, AccountStep(s)
      PROVE  req[r].op \notin {"create", "join"}
  <2>1. CASE Register(s) \/ RegisterFind(s) \/ RegisterInsert(s)
    BY <2>1 DEF Register, RegisterFind, RegisterInsert
  <2>2. CASE \/ UpdateMe(s) \/ UpdateRead(s) \/ UpdateName(s) \/ UpdateEmail(s)
             \/ UpdateSave(s) \/ UpdateUpsert(s)
    <3>1. ~UpdateMe(s)
      BY DEF UpdateMe
    <3>2. ASSUME UpdateRead(s) \/ UpdateName(s) \/ UpdateEmail(s)
          PROVE  req[r].op \notin {"create", "join"}
      <4>1. r = s
        BY <3>2 DEF UpdateRead, UpdateName, UpdateEmail
      <4> QED
        BY <3>2, <4>1 DEF UpdateRead, UpdateName, UpdateEmail
    <3>3. ASSUME UpdateSave(s) \/ UpdateUpsert(s)
          PROVE  req[r].op \notin {"create", "join"}
      BY <3>3 DEF UpdateSave, UpdateUpsert
    <3> QED
      BY <2>2, <3>1, <3>2, <3>3
  <2>3. CASE DeleteMe(s) \/ DeleteMeList(s) \/ DeleteMePurge(s)
    BY <2>3 DEF DeleteMe, DeleteMeList, DeleteMePurge
  <2> QED
    BY <1>1, <2>1, <2>2, <2>3 DEF AccountStep
<1>2. ASSUME NEW s \in Req, ChannelStep(s)
      PROVE  \/ req[r].op \notin {"create", "join"}
             \/ req'[r].status \notin {200, 201}
             \/ MemberFind(r) \/ MemberInsert(r)
  <2>1. CASE Create(s) \/ CreateInsert(s) \/ Join(s) \/ JoinFind(s)
    BY <2>1 DEF Create, CreateInsert, Join, JoinFind
  <2>2. CASE MemberFind(s) \/ MemberInsert(s)
    <3>1. s = r
      BY <2>2 DEF MemberFind, MemberInsert, ReplyDropping
    <3> QED
      BY <2>2, <3>1
  <2>3. CASE \/ Delete(s) \/ DeleteFind(s) \/ DeleteMembersOf(s)
             \/ DeleteChannelRow(s)
    BY <2>3 DEF Delete, DeleteFind, DeleteMembersOf, DeleteChannelRow
  <2> QED
    BY <1>2, <2>1, <2>2, <2>3 DEF ChannelStep
<1>3. ~((\E s \in Req : Finish(s)) \/ Crash \/ UNCHANGED vars)
  BY DEF Finish, Crash, Idle, vars
<1> QED
  BY <1>1, <1>2, <1>3 DEF Next

\* Unless a statement fails for outside reasons, creating or joining a channel
\* answers success only when the user is a member then, or the channel or the
\* account is gone: the other errors that FirstOrCreate drops are lost races
\* that make no difference, for any number of requests.
THEOREM JoinedIsMember == Spec => JoinedMeansMember
<1> DEFINE Joins ==
             \A r \in Req :
               /\ req[r].op \in {"create", "join"}
               /\ req[r].at # "replied" /\ req'[r].at = "replied"
               /\ req'[r].status \in {200, 201} /\ ~req'[r].dropped
               => \/ <<req[r].chan, req[r].user>> \in members'
                  \/ req[r].chan \notin DOMAIN channels'
                  \/ req[r].user \notin DOMAIN users'
<1>1. IInv /\ [Next]_vars => [Joins]_vars
  <2> SUFFICES ASSUME IInv, [Next]_vars, NEW r \in Req,
                      req[r].op \in {"create", "join"},
                      req[r].at # "replied", req'[r].at = "replied",
                      req'[r].status \in {200, 201}, ~req'[r].dropped
               PROVE  \/ <<req[r].chan, req[r].user>> \in members'
                      \/ req[r].chan \notin DOMAIN channels'
                      \/ req[r].user \notin DOMAIN users'
    OBVIOUS
  <2>1. CASE MemberFind(r)
    BY <2>1 DEF MemberFind, Go, ReplyDropping, IInv, ReqTypeOK, Request, db
  <2>2. CASE MemberInsert(r)
    BY <2>2 DEF MemberInsert, ReplyDropping, MemberInsertable, InsertMember,
                IInv, ReqTypeOK, Request, db
  <2> QED
    BY <2>1, <2>2, Answers
<1> QED
  BY <1>1, Inductive, PTL DEF Spec, JoinedMeansMember

\* The steps with which a request that changed a table is answered an error,
\* but for those that make and delete a channel.
LEMMA WrittenErrors ==
  ASSUME IInv, [Next]_vars, NEW r \in Req,
         req[r].at # "replied", req'[r].at = "replied",
         req'[r].status >= 400, req'[r].wrote,
         req[r].op \notin {"create", "delete"}
  PROVE  \/ RegisterInsert(r) \/ UpdateSave(r) \/ UpdateUpsert(r)
         \/ DeleteMePurge(r)
<1> USE DEF IInv, ReqTypeOK, Request, Knows, Running, At, Go, GoWritten, Reply,
            ReplyWritten, ReplyDone, Begin, Fresh, Registering, Updating,
            Erasing, Joining, Deleting
<1>1. ~req[r].wrote
  OBVIOUS
<1>2. ASSUME NEW s \in Req, AccountStep(s)
      PROVE  \/ RegisterInsert(r) \/ UpdateSave(r) \/ UpdateUpsert(r)
             \/ DeleteMePurge(r)
  <2>1. CASE Register(s) \/ UpdateMe(s) \/ DeleteMe(s)
    BY <2>1 DEF Register, UpdateMe, DeleteMe
  <2>2. CASE RegisterFind(s) \/ DeleteMeList(s)
    BY <1>1, <2>2 DEF RegisterFind, DeleteMeList
  <2>3. CASE UpdateRead(s) \/ UpdateName(s) \/ UpdateEmail(s)
    <3>1. r = s
      BY <2>3 DEF UpdateRead, UpdateName, UpdateEmail
    <3>2. UNCHANGED req[r].wrote
      BY <2>3, <3>1 DEF UpdateRead, UpdateName, UpdateEmail
    <3> QED
      BY <1>1, <3>2
  <2>4. CASE \/ RegisterInsert(s) \/ UpdateSave(s) \/ UpdateUpsert(s)
             \/ DeleteMePurge(s)
    <3>1. r = s
      BY <2>4 DEF RegisterInsert, UpdateSave, UpdateUpsert, DeleteMePurge
    <3> QED
      BY <2>4, <3>1
  <2> QED
    BY <1>2, <2>1, <2>2, <2>3, <2>4 DEF AccountStep
<1>3. ASSUME NEW s \in Req, ChannelStep(s) PROVE FALSE
  <2>1. CASE Create(s) \/ Join(s) \/ Delete(s)
    BY <2>1 DEF Create, Join, Delete
  <2>2. CASE CreateInsert(s) \/ JoinFind(s)
    BY <1>1, <2>2 DEF CreateInsert, JoinFind
  <2>3. CASE MemberFind(s) \/ MemberInsert(s)
    BY <2>3 DEF MemberFind, MemberInsert, ReplyDropping, Success
  <2>4. CASE DeleteFind(s) \/ DeleteMembersOf(s) \/ DeleteChannelRow(s)
    <3>1. r = s
      BY <2>4 DEF DeleteFind, DeleteMembersOf, DeleteChannelRow
    <3>2. req[s].at \in Deleting
      BY <2>4 DEF DeleteFind, DeleteMembersOf, DeleteChannelRow
    <3> QED
      BY <3>1, <3>2
  <2> QED
    BY <1>3, <2>1, <2>2, <2>3, <2>4 DEF ChannelStep
<1>4. req'[r] # req[r] /\ req'[r] # Idle
  BY DEF Idle
<1>5. ~((\E s \in Req : Finish(s)) \/ Crash \/ UNCHANGED vars)
  <2>1. ASSUME NEW s \in Req PROVE ~Finish(s)
    BY <1>4 DEF Finish
  <2>2. ~Crash
    BY <1>4 DEF Crash
  <2>3. ~UNCHANGED vars
    BY <1>4 DEF vars
  <2> QED
    BY <2>1, <2>2, <2>3
<1> QED
  BY <1>2, <1>3, <1>5 DEF Next

\* A registration, a profile update or an account deletion that is answered an
\* error after it wrote has done all it was asked for, whatever failed, and
\* whatever other requests did between its statements.
THEOREM ErrorsAreAllOrNothing == Spec => ErrorIsAllOrNothing
<1> DEFINE Whole ==
             \A r \in Req :
               /\ req[r].at # "replied" /\ req'[r].at = "replied"
               /\ req'[r].status >= 400 /\ req'[r].wrote
               => \/ req[r].op \in {"create", "delete"}
                  \/ /\ req[r].op \in {"register", "update"}
                     /\ \E u \in DOMAIN users' :
                          Carries(users'[u], req[r].form)
                  \/ /\ req[r].op = "deleteMe"
                     /\ req[r].user \notin DOMAIN users'
                     /\ \A c \in DOMAIN channels' :
                          channels'[c].owner # req[r].user
                     /\ \A m \in members' : m[2] # req[r].user
<1>1. IInv /\ [Next]_vars => [Whole]_vars
  <2> SUFFICES ASSUME IInv, [Next]_vars, NEW r \in Req,
                      req[r].at # "replied", req'[r].at = "replied",
                      req'[r].status >= 400, req'[r].wrote,
                      req[r].op \notin {"create", "delete"}
               PROVE  \/ /\ req[r].op \in {"register", "update"}
                         /\ \E u \in DOMAIN users' :
                              Carries(users'[u], req[r].form)
                      \/ /\ req[r].op = "deleteMe"
                         /\ req[r].user \notin DOMAIN users'
                         /\ \A c \in DOMAIN channels' :
                              channels'[c].owner # req[r].user
                         /\ \A m \in members' : m[2] # req[r].user
    OBVIOUS
  <2> USE DEF IInv, ReqTypeOK, Request, Knows, Running, At, Reply,
              Registering, Updating, Erasing
  <2>1. ~req[r].wrote
    OBVIOUS
  <2>2. CASE RegisterInsert(r)
    <3>1. /\ req[r].op = "register" /\ req[r].form \in User
          /\ users' = Put(users, nextUser, req[r].form)
      BY <2>1, <2>2 DEF RegisterInsert, InsertUser
    <3>2. /\ nextUser \in DOMAIN users'
          /\ Carries(users'[nextUser], req[r].form)
      BY <3>1 DEF Put, Carries
    <3> QED
      BY <3>1, <3>2
  <2>3. CASE UpdateSave(r) \/ UpdateUpsert(r)
    <3>1. /\ req[r].op = "update" /\ req[r].row \in User
          /\ req[r].form \in UpdateForm
          /\ req[r].form.name \in {Blank, req[r].row.name}
          /\ req[r].form.email \in {Blank, req[r].row.email}
      BY <2>3 DEF UpdateSave, UpdateUpsert
    <3>2. Carries(Saved(r), req[r].form)
      BY <3>1 DEF Carries, Saved, User
    <3>3. \E u \in DOMAIN users' : users'[u] = Saved(r)
      <4>1. CASE UpdateSave(r)
        BY <2>1, <4>1 DEF UpdateSave, UpdateUser, UpdateAffects, Go
      <4>2. CASE UpdateUpsert(r)
        BY <2>1, <4>2 DEF UpdateUpsert, UpsertUser, Put
      <4> QED
        BY <2>3, <4>1, <4>2
    <3> QED
      BY <3>1, <3>2, <3>3
  <2>4. CASE DeleteMePurge(r)
    <3>1. /\ req[r].op = "deleteMe" /\ Purgeable(r)
          /\ users' = Without(users, {req[r].user})
          /\ channels' = Without(channels, PurgedChannels(r))
          /\ members' = members \ PurgedMembers(r)
      BY <2>1, <2>4 DEF DeleteMePurge
    <3>2. ASSUME NEW c \in DOMAIN channels', channels'[c].owner = req[r].user
          PROVE  FALSE
      <4>1. /\ c \in DOMAIN channels \ PurgedChannels(r)
            /\ channels[c].owner = req[r].user
        BY <3>1, <3>2 DEF Without
      <4>2. c \in OwnedBy(req[r].user) /\ req[r].user \in DOMAIN users
        BY <4>1 DEF OwnedBy, Sound, Integrity
      <4> QED
        BY <3>1, <4>1, <4>2 DEF Purgeable
    <3> QED
      BY <3>1, <3>2 DEF Without, PurgedMembers, MembershipsOf
  <2> QED
    BY <2>2, <2>3, <2>4, WrittenErrors
<1> QED
  BY <1>1, Inductive, PTL DEF Spec, ErrorIsAllOrNothing
=============================================================================
