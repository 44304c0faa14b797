-------------------------------- MODULE Api ---------------------------------
(***************************************************************************)
(* The REST server: the requests of Accounts and Channels interleaved      *)
(* statement by statement over one database, with crashes of the server.   *)
(***************************************************************************)
EXTENDS Accounts, Channels

vars == <<db, req>>

Init == DbInit /\ ReqInit

Next == \/ \E r \in Req : AccountStep(r) \/ ChannelStep(r) \/ Finish(r)
        \/ Crash

Spec == Init /\ [][Next]_vars

\* The types of the tables and the requests; every row has an id that was given
\* out for it, and only once.
TypeOK == DbTypeOK /\ ReqTypeOK

-----------------------------------------------------------------------------
(***************************************************************************)
(* What holds.                                                             *)
(***************************************************************************)

\* Rows go only at the request of someone they belong to: a channel at its
\* owner's, a membership at its user's or its channel's owner's, an account at
\* its own.  The owner was checked two statements earlier, by another row
\* read; nobody's row goes as a side effect of another's request.
OnlyOwnersDelete ==
  [][LET Asked(ids) == \E r \in Req :
                         /\ req[r].at \in {"delete:members", "delete:channel",
                                           "deleteMe:purge"}
                         /\ req[r].user \in ids
     IN /\ \A c \in DOMAIN channels \ DOMAIN channels' :
             Asked({channels[c].owner})
        /\ \A m \in members \ members' :
             Asked({m[2], channels[m[1]].owner})
        /\ \A u \in DOMAIN users \ DOMAIN users' : Asked({u})]_vars

\* DELETE /api/channels/:id that answered 200 left no channel and no member,
\* also when someone joined between its two statements, and nothing brings
\* either back.
DeletedChannelIsGone ==
  \A r \in Req :
    req[r].op = "delete" /\ req[r].status = 200 =>
      /\ req[r].chan \notin DOMAIN channels
      /\ MembersOf({req[r].chan}) = {}

\* A row with the values of a payload's fields, but for the empty ones.
Carries(row, form) == \A x \in {"name", "email", "pw"} :
                        form[x] \in {Blank, row[x]}

\* An answer may be an error although tables were changed.  Then a registration
\* or a profile update has put the whole payload into a row, not a part of it,
\* and DELETE /api/me has left neither the account nor a channel or membership
\* of it, also when a channel was created, joined or deleted after its SELECT.
\* Only the creation and the deletion of a channel may fail half-way.
ErrorIsAllOrNothing ==
  [][\A r \in Req :
       /\ req[r].at # "replied" /\ req'[r].at = "replied"
       /\ req'[r].status >= 400 /\ req'[r].wrote
       => \/ req[r].op \in {"create", "delete"}
          \/ /\ req[r].op \in {"register", "update"}
             /\ \E u \in DOMAIN users' : Carries(users'[u], req[r].form)
          \/ /\ req[r].op = "deleteMe"
             /\ req[r].user \notin DOMAIN users'
             /\ \A c \in DOMAIN channels' :
                  channels'[c].owner # req[r].user
             /\ \A m \in members' : m[2] # req[r].user]_vars

\* Unless a statement fails for outside reasons, creating or joining a channel
\* answers success only when the user is a member, or when the channel or the
\* account was deleted meanwhile: the other errors that FirstOrCreate drops are
\* lost races that make no difference.
JoinedMeansMember ==
  [][\A r \in Req :
       /\ req[r].op \in {"create", "join"}
       /\ req[r].at # "replied" /\ req'[r].at = "replied"
       /\ req'[r].status \in {200, 201} /\ ~req'[r].dropped
       => \/ <<req[r].chan, req[r].user>> \in members'
          \/ req[r].chan \notin DOMAIN channels'
          \/ req[r].user \notin DOMAIN users']_vars

\* A profile changes only at the request of its own account.  The one stray
\* write is that of a request whose account was deleted after it was read:
\* see ProfileIsEditedByItsOwner.
OnlyDeletedAccountsStray ==
  [][\A u \in DOMAIN users \cap DOMAIN users' :
       users'[u] # users[u] =>
         \E r \in Req : /\ req[r].at \in {"update:save", "update:upsert"}
                        /\ req[r].user \in {u} \cup (KnownUser \ DOMAIN users)
    ]_vars

-----------------------------------------------------------------------------
(***************************************************************************)
(* What the documentation says and the code does not do.                   *)
(***************************************************************************)

\* README.md:78, `PUT /api/me` { name?, email?, password? }: a field that is left
\* out keeps its value.
OmittedFieldsStay ==
  [][\A r \in Req, u \in DOMAIN users \cap DOMAIN users' :
       /\ req[r].user = u
       /\ req[r].at = "update:save" /\ req'[r].status = 200
       => /\ req[r].form.name = Blank => users'[u].name = users[u].name
          /\ req[r].form.email = Blank => users'[u].email = users[u].email]_vars

\* ChatLayout.tsx:268 asks to confirm that deleting the account cannot be
\* undone: a row is only ever added under an id that was never used.
DeletionCannotBeUndone ==
  [][\A u \in DOMAIN users' \ DOMAIN users : u = nextUser]_vars

\* README.md:67, "Profile edit": a profile changes only at the request of the
\* account it belongs to.
ProfileIsEditedByItsOwner ==
  [][\A u \in DOMAIN users \cap DOMAIN users' :
       users'[u] # users[u] => \E r \in Req : /\ req[r].user = u
                                              /\ req[r].op = "update"]_vars

\* ChatLayout.tsx:338 tells the user that the channel was joined whenever the
\* join is answered 200: the user may enter it then, as a member or its owner,
\* or the channel or the account is gone.  Statements may fail here.
JoinAnswerIsTrue ==
  [][\A r \in Req :
       req[r].op = "join" /\ req[r].status = 0 /\ req'[r].status = 200 =>
         \/ <<req[r].chan, req[r].user>> \in members'
         \/ req[r].chan \notin DOMAIN channels'
         \/ channels'[req[r].chan].owner = req[r].user
         \/ req[r].user \notin DOMAIN users']_vars
=============================================================================
