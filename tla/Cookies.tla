------------------------------ MODULE Cookies -------------------------------
(***************************************************************************)
(* One browser and the account handlers of controllers/auth_controller.go, *)
(* as the page sees them: a request goes out with the auth cookie of that  *)
(* moment, is served in one step (its statements are the business of       *)
(* Accounts) and answered later.  Requests are served in any order.        *)
(* answers has those on their way back in the order in which they were     *)
(* served; they arrive in any order, and a Set-Cookie acts when its answer *)
(* arrives.                                                                *)
(*                                                                         *)
(* Abstracted: a token is the id of its account (the page never sees it);  *)
(* a login is tried with the right password, because a wrong one is just a *)
(* refusal, and any request may be refused: by a failing statement, by the *)
(* rate limiter, or because it never reached the server.                   *)
(***************************************************************************)
EXTENDS Naturals, Sequences, FiniteSets, SequencesExt

CONSTANTS Name,         \* user names, and
          Email,        \* emails: texts that the database tells apart
          SignUps,      \* bound: what the registration form is filled in with
          NewName, NewEmail,    \* bound: what is typed into the dialog
          MaxUsers,     \* bound: accounts ever made
          MaxAsks       \* bound: requests under way at once

\* A field that is empty, or not sent.
Blank == ""

\* Register requires a name and an email; a field of the dialog can be cleared.
ASSUME CookieAssumption ==
  /\ MaxUsers \in Nat \ {0} /\ MaxAsks \in Nat \ {0}
  /\ Blank \notin Name \cup Email
  /\ SignUps \subseteq [name : Name, email : Email]
  /\ NewName \subseteq Name \cup {Blank}
  /\ NewEmail \subseteq Email \cup {Blank}

VARIABLES
  users,        \* users[u]: name and email of the account u
  nextUser,     \* the next id
  cookie,       \* the account of auth_token, 0 for no cookie
  asks,         \* requests sent and not served
  answers,      \* requests served and not answered, in the order of service
  setBy         \* history: what changed the cookie last, see Setter

serverVars == <<users, nextUser>>
cookieVars == <<serverVars, cookie, asks, answers, setBy>>

UserId == 1 .. MaxUsers
Op     == {"me", "login", "register", "logout", "get", "save", "delete"}
Row    == [name : Name, email : Email]
Form   == [name : Name \cup {Blank}, email : Email \cup {Blank}]
NoForm == [name |-> Blank, email |-> Blank]

\* What is still there of the component that sent a request: all of it, only
\* the LoginScreen around it, or only App.
Scope == {"form", "screen", "app"}

Request == [op : Op, as : 0 .. MaxUsers, form : Form, pw : BOOLEAN,
            scope : Scope,
            edited : SUBSET {"name", "email"},  \* history, see Profile
            unsure : BOOLEAN]                   \* history, see Profile

Reply == [op : Op, result : {"ok", "refused", "lost"}, who : 0 .. MaxUsers,
          row : Form, scope : Scope,
          late : BOOLEAN]       \* history: one served after it came before it

UnderWay == asks \cup {answers[i] : i \in DOMAIN answers}

\* Login and Register do not look at the cookie.
Ask(op, form, scope) ==
  [op |-> op, as |-> IF op \in {"login", "register"} THEN 0 ELSE cookie,
   form |-> form, pw |-> FALSE, scope |-> scope, edited |-> {},
   unsure |-> FALSE]

\* A click sends q; a request like one that waits already is not told apart.
CanSend == Cardinality(asks) + Len(answers) < MaxAsks
Send(q) == /\ CanSend
           /\ asks' = asks \cup {q}
           /\ UNCHANGED <<serverVars, cookie, answers, setBy>>

-----------------------------------------------------------------------------
(***************************************************************************)
(* The server.                                                             *)
(***************************************************************************)

\* Mutant of Fits: only the names are compared.
FitsByName(id, row) == \A u \in DOMAIN users \ {id} : users[u].name # row.name

\* Both are free, or the account's own.
Fits(id, row) == \A u \in DOMAIN users \ {id} : /\ users[u].name # row.name
                                                /\ users[u].email # row.email

\* Login's look-up: by email if there is one, else by name.
Found(f) == {u \in DOMAIN users : IF f.email # Blank THEN users[u].email = f.email
                                  ELSE users[u].name = f.name}

Serve(q, result, who, row) ==
  /\ asks' = asks \ {q}
  /\ answers' = Append(answers, [op |-> q.op, result |-> result, who |-> who,
                                 row |-> row, scope |-> q.scope,
                                 late |-> FALSE])
  /\ UNCHANGED <<cookie, setBy>>

\* GET /api/me, which App and the profile dialog both send.
Me(q) == /\ q.op \in {"me", "get"}
         /\ q.as \in DOMAIN users
         /\ Serve(q, "ok", q.as, users[q.as])
         /\ UNCHANGED serverVars

Login(q) == /\ q.op = "login"
            /\ \E u \in Found(q.form) : Serve(q, "ok", u, NoForm)
            /\ UNCHANGED serverVars

Register(q) == /\ q.op = "register"
               /\ nextUser <= MaxUsers
               /\ Fits(nextUser, q.form)
               /\ users' = [u \in DOMAIN users \cup {nextUser} |->
                              IF u = nextUser THEN q.form ELSE users[u]]
               /\ nextUser' = nextUser + 1
               /\ Serve(q, "ok", nextUser, NoForm)

\* Mutant of Merged: a field that is empty is saved like any other.
MergedAsSent(u, f) == f

\* A field that is empty is left as it is.
Merged(u, f) == [x \in {"name", "email"} |-> IF f[x] = Blank THEN users[u][x]
                                             ELSE f[x]]

UpdateMe(q) == /\ q.op = "save"
               /\ q.as \in DOMAIN users
               /\ q.form # NoForm \/ q.pw
               /\ Fits(q.as, Merged(q.as, q.form))
               /\ users' = [users EXCEPT ![q.as] = Merged(q.as, q.form)]
               /\ Serve(q, "ok", q.as, Merged(q.as, q.form))
               /\ UNCHANGED nextUser

\* DELETE /api/me finds nothing to delete when the account is gone already.
DeleteMe(q) == /\ q.op = "delete"
               /\ q.as # 0
               /\ users' = [u \in DOMAIN users \ {q.as} |-> users[u]]
               /\ Serve(q, "ok", 0, NoForm)
               /\ UNCHANGED nextUser

\* POST /api/logout is behind Auth: without a cookie it is refused.
Logout(q) == /\ q.op = "logout"
             /\ q.as # 0
             /\ Serve(q, "ok", 0, NoForm)
             /\ UNCHANGED serverVars

Refuse(q) == Serve(q, "refused", 0, NoForm) /\ UNCHANGED serverVars

\* The answer is lost after the request was served, or is an error although the
\* row was written, because the answer to the COMMIT was lost or no token could
\* be made.  To the page that is a refusal; "lost" is for the history.  A
\* request that changed nothing on the server might as well have been refused.
Lose(i) ==
  /\ answers[i].result = "ok"
  /\ answers[i].op \in {"register", "save", "delete"}
  /\ answers' = [answers EXCEPT
                   ![i].result = IF answers[i].op = "save"
                                 THEN "lost" ELSE "refused",
                   ![i].row = NoForm]
  /\ UNCHANGED <<serverVars, cookie, asks, setBy>>

\* The cookie and the token in it expire after 24 hours.
Expire == /\ cookie # 0
          /\ cookie' = 0
          /\ setBy' = "end"
          /\ UNCHANGED <<serverVars, asks, answers>>

ServerStep == \/ \E q \in asks : \/ Me(q) \/ Login(q) \/ Register(q)
                                 \/ UpdateMe(q) \/ DeleteMe(q) \/ Logout(q)
                                 \/ Refuse(q)
              \/ \E i \in DOMAIN answers : Lose(i)
              \/ Expire

-----------------------------------------------------------------------------
(***************************************************************************)
(* Answers.                                                                *)
(***************************************************************************)

SetsCookie(a) == a.result = "ok" /\ a.op \notin {"me", "get"}

\* The cookie was set or cleared where the page knows of it, as a side effect of
\* an answer that leaves the page's user alone, or because it or its account
\* came to an end.
Setter(op) == CASE op \in {"login", "logout"}  -> "page"
                [] op \in {"register", "save"} -> "side"
                [] op = "delete"               -> "end"

\* What is left of scope s once everything up to and without `to` unmounts.
Lowered(s, to) == IF to = "app" \/ s = "form" THEN to ELSE s

\* The profile answers that answer i overtakes.
Overtaken(i) == {j \in 1 .. i - 1 : {answers[j].op, answers[i].op}
                                      \subseteq {"get", "save"}}

\* The i-th answer arrives: its Set-Cookie acts, what the page does with it
\* unmounts everything below `to`, and the requests `more` go out.  The browser
\* sets the cookie a moment before it runs the callback; here the two are one
\* step.
Arrive(i, to, more) ==
  LET a == answers[i]
      left == [j \in DOMAIN answers |->
                 [answers[j] EXCEPT !.scope = Lowered(@, to),
                                    !.late = @ \/ j \in Overtaken(i)]]
  IN /\ cookie' = IF SetsCookie(a) THEN a.who ELSE cookie
     /\ setBy' = IF SetsCookie(a) THEN Setter(a.op) ELSE setBy
     /\ answers' = RemoveAt(left, i)
     /\ asks' = {[q EXCEPT !.scope = Lowered(@, to)] : q \in asks} \cup more
     /\ UNCHANGED serverVars

CookieTypeOK ==
  /\ nextUser \in 1 .. MaxUsers + 1
  /\ DOMAIN users \subseteq 1 .. nextUser - 1
  /\ \A u \in DOMAIN users : users[u] \in Row
  /\ cookie \in 0 .. nextUser - 1
  /\ asks \subseteq Request
  /\ answers \in Seq(Reply)
  /\ Cardinality(asks) + Len(answers) <= MaxAsks
  /\ setBy \in {"page", "side", "end"}
=============================================================================
