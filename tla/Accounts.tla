------------------------------ MODULE Accounts ------------------------------
(***************************************************************************)
(* controllers/auth_controller.go: the handlers that change accounts.  One *)
(* action is one statement and the code up to the next one.  A payload     *)
(* that is refused before any statement (400) is not begun.  Me, Login and *)
(* Logout change no table.                                                 *)
(***************************************************************************)
EXTENDS Requests

\* POST /api/register.
Register(r) == \E f \in [name : Name, email : Email, pw : Pass] :
                 Begin(r, "register", "register:find", 0, 0, f)

\* The look-up answers 409 only if it finds a row: one that fails is taken
\* for one that found nothing.
RegisterFind(r) ==
  /\ At(r, "register:find")
  /\ \/ /\ ~UserFits(0, req[r].form)
        /\ Reply(r, 409)
     \/ /\ UserFits(0, req[r].form) \/ DbFails
        /\ Go(r, "register:insert")
  /\ UNCHANGED db

RegisterInsert(r) ==
  /\ At(r, "register:insert")
  /\ \/ /\ UserInsertable(req[r].form)
        /\ InsertUser(req[r].form)
        /\ ReplyDone(r, 201, 500)
     \/ /\ ~UserInsertable(req[r].form) \/ DbFails
        /\ Reply(r, 500)
        /\ UNCHANGED db

-----------------------------------------------------------------------------
\* PUT /api/me.
UpdateMe(r) == \E u \in KnownUser,
                  f \in [name : Name \cup {Blank}, email : Email \cup {Blank},
                         pw : Pass \cup {Blank}] \ {NoForm} :
                 Begin(r, "update", "update:read", u, 0, f)

\* The check that comes next, if the payload has a new name or email.
AfterName(f, row) == IF f.email \in {Blank, row.email} THEN "update:save"
                     ELSE "update:email"
AfterRead(f, row) == IF f.name \in {Blank, row.name} THEN AfterName(f, row)
                     ELSE "update:name"

UpdateRead(r) ==
  /\ At(r, "update:read")
  /\ \/ /\ req[r].user \in DOMAIN users
        /\ LET row == users[req[r].user]
           IN req' = [req EXCEPT ![r].row = row,
                                 ![r].at = AfterRead(req[r].form, row)]
     \/ /\ req[r].user \notin DOMAIN users \/ DbFails
        /\ Reply(r, 404)
  /\ UNCHANGED db

\* Mutant of UpdateName: the new name is written as soon as it is found free.
UpdateNameAtOnce(r) ==
  LET taken == \E u \in DOMAIN users \ {req[r].user} :
                 users[u].name = req[r].form.name
      row == [req[r].row EXCEPT !.name = req[r].form.name]
  IN /\ At(r, "update:name")
     /\ \/ taken /\ Reply(r, 409) /\ UNCHANGED db
        \/ /\ ~taken /\ req[r].user \in DOMAIN users
           /\ UpdateUser(req[r].user, row)
           /\ req' = [req EXCEPT ![r].row = row, ![r].wrote = TRUE,
                                 ![r].at = AfterName(req[r].form, req[r].row)]

UpdateName(r) ==
  LET taken == \E u \in DOMAIN users \ {req[r].user} :
                 users[u].name = req[r].form.name
  IN /\ At(r, "update:name")
     /\ \/ taken /\ Reply(r, 409)
        \/ /\ ~taken \/ DbFails
           /\ req' = [req EXCEPT ![r].row.name = req[r].form.name,
                                 ![r].at = AfterName(req[r].form, req[r].row)]
     /\ UNCHANGED db

UpdateEmail(r) ==
  LET taken == \E u \in DOMAIN users \ {req[r].user} :
                 users[u].email = req[r].form.email
  IN /\ At(r, "update:email")
     /\ \/ taken /\ Reply(r, 409)
        \/ /\ ~taken \/ DbFails
           /\ req' = [req EXCEPT ![r].row.email = req[r].form.email,
                                 ![r].at = "update:save"]
     /\ UNCHANGED db

\* The row that UpdateMe saves: what it read, with the payload's fields.
Saved(r) == IF req[r].form.pw = Blank THEN req[r].row
            ELSE [req[r].row EXCEPT !.pw = req[r].form.pw]

\* Mutant of UpdateSave: UpdateMe looks its row up without the id, and First
\* gives, and Save writes, the table's first one.
UpdateSaveFirst(r) ==
  LET first == CHOOSE u \in DOMAIN users : \A v \in DOMAIN users : u <= v
  IN /\ At(r, "update:save")
     /\ IF DOMAIN users # {} /\ UserFits(first, Saved(r))
        THEN UpdateUser(first, Saved(r)) /\ ReplyWritten(r, 200)
        ELSE Reply(r, 500) /\ UNCHANGED db

\* Save sends an UPDATE of every column and, if it affects no row, an INSERT
\* that turns into an update of whatever row it collides with.
UpdateSave(r) ==
  LET u == req[r].user
      affects == UpdateAffects(u, Saved(r), req[r].form.pw # Blank)
  IN /\ At(r, "update:save")
     /\ \/ /\ affects /\ UserFits(u, Saved(r))
           /\ UpdateUser(u, Saved(r))
           /\ ReplyDone(r, 200, 500)
        \/ /\ ~affects
           /\ Go(r, "update:upsert")
           /\ UNCHANGED db
        \/ /\ (affects /\ ~UserFits(u, Saved(r))) \/ DbFails
           /\ Reply(r, 500)
           /\ UNCHANGED db

UpdateUpsert(r) ==
  /\ At(r, "update:upsert")
  /\ \/ /\ Upsertable(req[r].user, Saved(r))
        /\ UpsertUser(req[r].user, Saved(r))
        /\ ReplyDone(r, 200, 500)
     \/ /\ ~Upsertable(req[r].user, Saved(r)) \/ DbFails
        /\ Reply(r, 500)
        /\ UNCHANGED db

-----------------------------------------------------------------------------
\* DELETE /api/me.
DeleteMe(r) == \E u \in KnownUser :
                 Begin(r, "deleteMe", "deleteMe:list", u, 0, NoForm)

\* The transaction's first statement, a plain SELECT of its snapshot.
DeleteMeList(r) ==
  /\ At(r, "deleteMe:list")
  /\ \/ req' = [req EXCEPT ![r].seen = OwnedBy(req[r].user),
                           ![r].at = "deleteMe:purge"]
     \/ DbFails /\ Reply(r, 500)
  /\ UNCHANGED db

\* The rows the transaction's DELETE statements select.  They see the tables
\* as they are now: a channel made since the SELECT is deleted as well, but
\* not its members; and no channel is, if the SELECT saw none.
PurgedChannels(r) == IF req[r].seen = {} THEN {} ELSE OwnedBy(req[r].user)
PurgedMembers(r)  == MembersOf(req[r].seen) \cup MembershipsOf(req[r].user)

\* No foreign key objects.  A channel made since the SELECT must not have a
\* member yet, and the account must own no channel when its row goes.
Purgeable(r) ==
  /\ MembersOf(PurgedChannels(r) \ req[r].seen) = {}
  /\ req[r].user \in DOMAIN users =>
       OwnedBy(req[r].user) \subseteq PurgedChannels(r)

\* Mutant of DeleteMePurge: the statements run without a transaction.
DeleteMePurgePiecemeal(r) ==
  /\ At(r, "deleteMe:purge")
  /\ users' = IF Purgeable(r) THEN Without(users, {req[r].user}) ELSE users
  /\ channels' = IF Purgeable(r) THEN Without(channels, PurgedChannels(r))
                 ELSE channels
  /\ members' = members \ PurgedMembers(r)
  /\ IF Purgeable(r) THEN ReplyWritten(r, 200)
     ELSE req' = [req EXCEPT ![r].at = "replied", ![r].status = 500,
                             ![r].wrote = members' # members]
  /\ UNCHANGED <<nextUser, nextChannel>>

\* The rest of the transaction.  Its DELETEs lock what they touch and the gaps
\* around it until the commit, so nothing comes between them; if one fails,
\* all are rolled back; if the commit fails, all of them are done or none.
DeleteMePurge(r) ==
  /\ At(r, "deleteMe:purge")
  /\ \/ /\ Purgeable(r)
        /\ users' = Without(users, {req[r].user})
        /\ channels' = Without(channels, PurgedChannels(r))
        /\ members' = members \ PurgedMembers(r)
        /\ UNCHANGED <<nextUser, nextChannel>>
        /\ ReplyDone(r, 200, 500)
     \/ /\ ~Purgeable(r) \/ DbFails
        /\ Reply(r, 500)
        /\ UNCHANGED db

AccountStep(r) ==
  \/ Register(r) \/ RegisterFind(r) \/ RegisterInsert(r)
  \/ UpdateMe(r) \/ UpdateRead(r) \/ UpdateName(r) \/ UpdateEmail(r)
  \/ UpdateSave(r) \/ UpdateUpsert(r)
  \/ DeleteMe(r) \/ DeleteMeList(r) \/ DeleteMePurge(r)
=============================================================================
