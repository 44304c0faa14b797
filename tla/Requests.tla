------------------------------ MODULE Requests ------------------------------
(***************************************************************************)
(* The HTTP requests being served.  gin runs each in a goroutine of its    *)
(* own, and between two statements of one request the statements of others *)
(* run, so a request is a program counter with the handler's local         *)
(* variables.  Accounts and Channels give the handlers' steps.             *)
(*                                                                         *)
(* Auth lets a request through on its token alone and never looks in the   *)
(* database, so a request may act for any id ever given out, that of a     *)
(* deleted account included.  The token's expiry after 24 hours only makes *)
(* requests fewer and is left out.                                         *)
(***************************************************************************)
EXTENDS Database

CONSTANTS Req,          \* the requests served at once
          Ops,          \* bound: the routes that an instance exercises
          DbFails       \* whether a statement, or the token made after it,
                        \* may fail for outside reasons

ASSUME RequestAssumption ==
  /\ Ops \subseteq {"register", "update", "deleteMe", "create", "join",
                    "delete"}
  /\ DbFails \in BOOLEAN

VARIABLE req

\* A field of a JSON payload that is absent, or sent empty.
Blank == ""

Form == [name : Name \cup ChanName \cup {Blank}, email : Email \cup {Blank},
         pw : Pass \cup {Blank}]
NoForm == [name |-> Blank, email |-> Blank, pw |-> Blank]

\* A request that has just come in.
Fresh(op, at, user, chan, form) ==
  [op |-> op, at |-> at,
   user |-> user,         \* the token's user id
   chan |-> chan,         \* the channel id of the path, or just made
   form |-> form,         \* the payload
   row |-> NoForm,        \* UpdateMe's variable user
   seen |-> {},           \* the ids in DeleteMe's ownedChannels
   status |-> 0,          \* the HTTP status answered
   wrote |-> FALSE,       \* history: a statement changed a table
   dropped |-> FALSE]     \* history: FirstOrCreate failed for outside
                          \* reasons and its error was dropped

Idle == Fresh("none", "idle", 0, 0, NoForm)

Step == {"idle", "replied",
         "register:find", "register:insert",
         "update:read", "update:name", "update:email", "update:save",
         "update:upsert",
         "deleteMe:list", "deleteMe:purge",
         "create:insert", "join:find", "member:find", "member:insert",
         "delete:find", "delete:members", "delete:channel"}

Request == [op : Ops \cup {"none"}, at : Step, user : 0 .. MaxUsers,
            chan : 0 .. MaxChannels, form : Form, row : User \cup {NoForm},
            seen : SUBSET ChannelId,
            status : {0, 200, 201, 403, 404, 409, 500}, wrote : BOOLEAN,
            dropped : BOOLEAN]

\* The user ids that a token was ever made for.
KnownUser == 1 .. nextUser - 1

ReqInit == req = [r \in Req |-> Idle]

Begin(r, op, at, user, chan, form) ==
  /\ op \in Ops
  /\ req[r].at = "idle"
  /\ req' = [req EXCEPT ![r] = Fresh(op, at, user, chan, form)]
  /\ UNCHANGED db

At(r, step) == req[r].at = step
Go(r, step) == req' = [req EXCEPT ![r].at = step]
Reply(r, status) == req' = [req EXCEPT ![r].at = "replied",
                                       ![r].status = status]
\* The same after a statement that changed a table.
GoWritten(r, step) == req' = [req EXCEPT ![r].at = step, ![r].wrote = TRUE]
ReplyWritten(r, status) == req' = [req EXCEPT ![r].at = "replied",
                                              ![r].status = status,
                                              ![r].wrote = TRUE]

\* The statement may be done and yet answered with an error, because the answer
\* to its COMMIT is lost or the token that is made after it is not.
ReplyDone(r, ok, error) == \/ ReplyWritten(r, ok)
                           \/ DbFails /\ ReplyWritten(r, error)

\* The answer is on its way and the goroutine ends.
Finish(r) == /\ At(r, "replied")
             /\ req' = [req EXCEPT ![r] = Idle]
             /\ UNCHANGED db

\* The server process dies and starts again: what was committed stays, the
\* requests are gone, and what they had not done yet is never done.
Crash == /\ \E r \in Req : ~At(r, "idle")
         /\ req' = [r \in Req |-> Idle]
         /\ UNCHANGED db

ReqTypeOK == req \in [Req -> Request]
=============================================================================
