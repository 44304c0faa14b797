------------------------------ MODULE Profile -------------------------------
(***************************************************************************)
(* The profile dialog of components/ChatLayout.tsx: fetchProfile,          *)
(* handleProfileSave, handleDeleteAccount and the logout button.           *)
(*                                                                         *)
(* One flag, profileLoading, disables the buttons for every request of the *)
(* dialog, and any of their answers clears it; a click beside the dialog   *)
(* closes it at any time, and opening it again fetches once more.          *)
(* Abstracted: the texts on the buttons, the two message lines, and the    *)
(* new password: whether one is typed is chosen when it matters.           *)
(***************************************************************************)
EXTENDS Session

CONSTANT Trim       \* Trim[text]: without the blanks around it

\* A text of blanks only can be registered as a name.
ASSUME TrimAssumption ==
  /\ Trim \in [Name \cup Email \cup {Blank} -> Name \cup Email \cup {Blank}]
  /\ Trim[Blank] = Blank
  /\ \A n \in Name : Trim[n] \in Name \cup {Blank}
  /\ \A e \in Email : Trim[e] \in Email \cup {Blank}

VARIABLES
  dialog,       \* showProfile, profileLoading, the fields, profileOriginal
  drift         \* history: profileOriginal may differ from the account's row,
                \* see GetArrives, SaveArrives and Remount

dialogVars == <<dialog, drift>>

Closed == [open |-> FALSE, busy |-> FALSE, fields |-> NoForm,
           original |-> NoForm]

\* The buttons of the dialog can be pressed.
Ready == dialog.open /\ ~dialog.busy

\* A save of account u that was sent and whose answer has not come.
SavePending(u) == \/ \E q \in asks : q.op = "save" /\ q.as = u
                  \/ \E i \in DOMAIN answers : /\ answers[i].op = "save"
                                               /\ answers[i].who = u

\* openProfile.  The fields keep what they had until the answer comes.
OpenProfile == /\ user # 0
               /\ ~dialog.open
               /\ dialog' = [dialog EXCEPT !.open = TRUE, !.busy = TRUE]
               /\ Send(Ask("get", NoForm, "form"))
               /\ UNCHANGED drift

\* A click beside the dialog, or its close button.
CloseProfile == /\ dialog.open
                /\ dialog' = [dialog EXCEPT !.open = FALSE]
                /\ UNCHANGED <<cookieVars, drift>>

Type == /\ dialog.open
        /\ \/ \E t \in NewName : dialog' = [dialog EXCEPT !.fields.name = t]
           \/ \E t \in NewEmail : dialog' = [dialog EXCEPT !.fields.email = t]
        /\ UNCHANGED <<cookieVars, drift>>

\* What handleProfileSave compares with profileOriginal and sends.
Trimmed == [x \in {"name", "email"} |-> Trim[dialog.fields[x]]]

\* History: the fields in which the user has typed something else.
Edited == {x \in {"name", "email"} : dialog.fields[x] # dialog.original[x]}

\* The history part of a save: two that are under way at once are unsure both.
Unsure == drift \/ cookie # user \/ SavePending(cookie)
Marked == {IF q.op = "save" THEN [q EXCEPT !.unsure = TRUE, !.edited = {}]
           ELSE q : q \in asks}

\* The request of a save.  All fields are sent, edited or not.  That a password
\* is sent too matters to the server only if they are all empty.
Saving(pw) == [op |-> "save", as |-> cookie, form |-> Trimmed,
               pw |-> pw /\ Trimmed = NoForm, scope |-> "form",
               edited |-> IF Unsure THEN {} ELSE Edited, unsure |-> Unsure]

\* handleProfileSave up to the await.
Save == /\ Ready
        /\ CanSend
        /\ \E pw \in BOOLEAN : /\ Trimmed # dialog.original \/ pw
                               /\ asks' = Marked \cup {Saving(pw)}
        /\ dialog' = [dialog EXCEPT !.busy = TRUE]
        /\ UNCHANGED <<serverVars, cookie, answers, setBy, drift>>

\* handleDeleteAccount up to the await, the user having confirmed.
DeleteAccount == /\ Ready
                 /\ Send(Ask("delete", NoForm, "form"))
                 /\ dialog' = [dialog EXCEPT !.busy = TRUE]
                 /\ UNCHANGED drift

\* onLogout up to its await: profileLoading is not set.
PressLogout == /\ Ready
               /\ Send(Ask("logout", NoForm, "app"))
               /\ UNCHANGED dialogVars

-----------------------------------------------------------------------------
Filled(row) == [dialog EXCEPT !.busy = FALSE, !.fields = row,
                              !.original = row]

\* Mutant of GetArrives: no finally.
GetArrivesOk(i) ==
  LET a == answers[i]
  IN /\ a.op = "get"
     /\ Arrive(i, "form", {})
     /\ IF a.scope = "form" /\ a.result = "ok"
        THEN /\ dialog' = Filled(a.row)
             /\ drift' = (a.late \/ a.who # user)
        ELSE UNCHANGED dialogVars

\* The rest of fetchProfile: it overwrites what was typed meanwhile.
GetArrives(i) ==
  LET a == answers[i]
  IN /\ a.op = "get"
     /\ Arrive(i, "form", {})
     /\ IF a.scope # "form" THEN UNCHANGED dialogVars
        ELSE IF a.result = "ok"
             THEN /\ dialog' = Filled(a.row)
                  /\ drift' = (a.late \/ a.who # user)
             ELSE /\ dialog' = [dialog EXCEPT !.busy = FALSE]
                  /\ UNCHANGED drift

\* Mutant of SaveArrives: profileOriginal is not updated.
SaveArrivesFieldsOnly(i) ==
  LET a == answers[i]
      here == a.scope = "form"
  IN /\ a.op = "save"
     /\ Arrive(i, "form", {})
     /\ dialog' = IF ~here THEN dialog
                  ELSE [dialog EXCEPT !.busy = FALSE,
                          !.fields = IF a.result = "ok" THEN a.row ELSE @]
     /\ drift' = IF a.result = "refused" THEN drift
                 ELSE IF a.result = "lost" \/ ~here THEN user # 0
                 ELSE a.late \/ a.who # user

\* The rest of handleProfileSave.  App's user is left as it is.
SaveArrives(i) ==
  LET a == answers[i]
      here == a.scope = "form"
  IN /\ a.op = "save"
     /\ Arrive(i, "form", {})
     /\ dialog' = IF ~here THEN dialog
                  ELSE IF a.result = "ok" THEN Filled(a.row)
                  ELSE [dialog EXCEPT !.busy = FALSE]
     /\ drift' = IF a.result = "refused" THEN drift
                 ELSE IF a.result = "lost" \/ ~here THEN user # 0
                 ELSE a.late \/ a.who # user

\* The rest of handleDeleteAccount calls onLogout, which sends a request of
\* its own and forgets the user when that is answered.
DeleteArrives(i) ==
  LET a == answers[i]
  IN /\ a.op = "delete"
     /\ Arrive(i, "form",
               IF a.result = "ok"
               THEN {[Ask("logout", NoForm, "app") EXCEPT !.as = 0]} ELSE {})
     /\ dialog' = IF a.scope = "form" THEN [dialog EXCEPT !.busy = FALSE]
                  ELSE dialog
     /\ UNCHANGED drift

ProfileStep == \/ OpenProfile \/ CloseProfile \/ Type
               \/ Save \/ DeleteAccount \/ PressLogout
               \/ \E i \in DOMAIN answers : \/ GetArrives(i)
                                            \/ SaveArrives(i)
                                            \/ DeleteArrives(i)

\* What a step of the session does to the dialog: the chat unmounts or mounts
\* with its user, and a chat that changes its user keeps all it shows.
Remount == /\ dialog' = IF user = 0 \/ user' = 0 THEN Closed ELSE dialog
           /\ drift' = IF user = 0 \/ user' = 0 THEN FALSE
                       ELSE drift \/ user' # user

ProfileTypeOK == /\ dialog \in [open : BOOLEAN, busy : BOOLEAN, fields : Form,
                                original : Form]
                 /\ drift \in BOOLEAN
=============================================================================
