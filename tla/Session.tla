------------------------------ MODULE Session -------------------------------
(***************************************************************************)
(* App.tsx, LoginScreen.tsx, LoginForm.tsx and RegisterForm.tsx: which     *)
(* screen the page shows, and for whom.  One callback is one action.       *)
(*                                                                         *)
(* A form that unmounts does not take its request with it: the answer sets *)
(* the cookie all the same, LoginForm's onSuccess still reaches App, and   *)
(* RegisterForm's onRegistered reaches the LoginScreen if it is there.     *)
(* Abstracted: the texts and the fields, any of which may be typed.        *)
(***************************************************************************)
EXTENDS Cookies

CONSTANT WithAt     \* the texts with an '@'

\* LoginForm takes those for emails and all others for names.
ASSUME WithAtAssumption == WithAt \subseteq Email /\ Email \ WithAt \subseteq Name

VARIABLES
  user,         \* App's user: the account shown as signed in, 0 for null
  mode,         \* "blank" while App is loading; else LoginScreen's mode
  busy,         \* loading of the form on show
  kept          \* history: the request that made App forget its user, or find
                \* none, did not succeed

sessionVars == <<user, mode, busy, kept>>

SignedOut == user = 0 /\ mode # "blank"

\* The finally of a form: it frees the form that sent the request, if that is
\* still there, and not another one shown in its place.
FreedBusy(a) == IF a.scope = "form" THEN FALSE ELSE busy

\* fetchMe.  A page that finds no user shows the LoginScreen.
MeArrives(i) ==
  LET a == answers[i]
  IN /\ a.op = "me"
     /\ Arrive(i, "app", {})
     /\ user' = IF a.result = "ok" THEN a.who ELSE 0
     /\ mode' = "login"
     /\ kept' = (a.result # "ok")
     /\ UNCHANGED busy

-----------------------------------------------------------------------------
(***************************************************************************)
(* The LoginScreen.                                                        *)
(***************************************************************************)

\* A tab or the link below the form.  The form on show unmounts.
SwitchMode(m) ==
  /\ SignedOut
  /\ m # mode
  /\ mode' = m
  /\ busy' = FALSE
  /\ asks' = {[q EXCEPT !.scope = Lowered(@, "screen")] : q \in asks}
  /\ answers' = [i \in DOMAIN answers |->
                   [answers[i] EXCEPT !.scope = Lowered(@, "screen")]]
  /\ UNCHANGED <<serverVars, cookie, setBy, user, kept>>

\* What LoginForm sends for the text in its first field.
SignInForm(text) == IF text \in WithAt THEN [NoForm EXCEPT !.email = text]
                    ELSE [NoForm EXCEPT !.name = text]

\* The form of mode m is on show and its button is not disabled.
FormReady(m) == SignedOut /\ mode = m /\ ~busy

Submit(m, f) == /\ FormReady(m)
                /\ busy' = TRUE
                /\ Send(Ask(m, f, "form"))
                /\ UNCHANGED <<user, mode, kept>>

SubmitLogin    == \E t \in Name \cup Email : Submit("login", SignInForm(t))
SubmitRegister == \E f \in SignUps : Submit("register", f)

\* Mutant of LoginArrives: an answer to a form that is gone is ignored.
LoginArrivesMounted(i) ==
  LET a == answers[i]
  IN /\ a.op = "login"
     /\ IF a.result = "ok" /\ a.scope = "form"
        THEN Arrive(i, "app", {}) /\ user' = a.who /\ busy' = FALSE
        ELSE Arrive(i, "form", {}) /\ user' = user /\ busy' = FreedBusy(a)
     /\ UNCHANGED <<mode, kept>>

\* Mutant of LoginArrives: App keeps the user it has.
LoginArrivesFirst(i) ==
  LET a == answers[i]
  IN /\ a.op = "login"
     /\ IF a.result = "ok" /\ user = 0
        THEN Arrive(i, "app", {}) /\ user' = a.who /\ busy' = FALSE
        ELSE Arrive(i, "form", {}) /\ user' = user /\ busy' = FreedBusy(a)
     /\ UNCHANGED <<mode, kept>>

\* The LoginScreen makes way for the chat, if it is there, and the next one
\* starts with the login form; a chat that is there already stays, with another
\* user's name on it.
LoginArrives(i) ==
  LET a == answers[i]
  IN /\ a.op = "login"
     /\ IF a.result = "ok"
        THEN /\ Arrive(i, IF user = 0 THEN "app" ELSE "form", {})
             /\ user' = a.who
             /\ mode' = "login"
             /\ busy' = FALSE
             /\ kept' = FALSE
        ELSE /\ Arrive(i, "form", {})
             /\ busy' = FreedBusy(a)
             /\ UNCHANGED <<user, mode, kept>>

\* The page asks to sign in, although the answer has set the cookie.
RegisterArrives(i) ==
  LET a == answers[i]
      shows == a.result = "ok" /\ a.scope # "app" /\ mode = "register"
  IN /\ a.op = "register"
     /\ Arrive(i, IF shows THEN "screen" ELSE "form", {})
     /\ mode' = IF shows THEN "login" ELSE mode
     /\ busy' = IF shows THEN FALSE ELSE FreedBusy(a)
     /\ UNCHANGED <<user, kept>>

-----------------------------------------------------------------------------
\* onLogout forgets the user whatever came of the request; a LoginScreen that
\* is there already stays as it is.
LogoutArrives(i) ==
  LET a == answers[i]
  IN /\ a.op = "logout"
     /\ Arrive(i, IF user # 0 THEN "app" ELSE "form", {})
     /\ user' = 0
     /\ mode' = IF user # 0 THEN "login" ELSE mode
     /\ kept' = IF user # 0 THEN a.result # "ok" ELSE kept
     /\ UNCHANGED busy

SessionStep == \/ \E m \in {"login", "register"} : SwitchMode(m)
               \/ SubmitLogin
               \/ SubmitRegister
               \/ \E i \in DOMAIN answers : \/ MeArrives(i)
                                            \/ LoginArrives(i)
                                            \/ RegisterArrives(i)
                                            \/ LogoutArrives(i)

SessionTypeOK == /\ user \in 0 .. nextUser - 1
                 /\ mode \in {"blank", "login", "register"}
                 /\ busy \in BOOLEAN
                 /\ kept \in BOOLEAN
=============================================================================
