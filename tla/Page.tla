-------------------------------- MODULE Page --------------------------------
(***************************************************************************)
(* The page and the browser's cookie as a whole: the screens, the profile  *)
(* dialog, the account requests and the server that answers them.  It      *)
(* starts when the page is loaded, with a cookie or without.               *)
(***************************************************************************)
EXTENDS Profile

vars == <<cookieVars, sessionVars, dialogVars>>

\* Nobody has registered, or one account is there; the browser has a cookie of
\* it or none.
Init == /\ \/ users = [u \in {} |-> NoForm] /\ nextUser = 1
           \/ /\ \E r \in SignUps : users = [u \in {1} |-> r]
              /\ nextUser = 2
        /\ cookie \in {0} \cup DOMAIN users
        /\ asks = {Ask("me", NoForm, "app")}
        /\ answers = <<>>
        /\ setBy = "page"
        /\ user = 0
        /\ mode = "blank"
        /\ busy = FALSE
        /\ kept = FALSE
        /\ dialog = Closed
        /\ drift = FALSE

Next == \/ ServerStep /\ UNCHANGED <<sessionVars, dialogVars>>
        \/ SessionStep /\ Remount
        \/ ProfileStep /\ UNCHANGED sessionVars

Spec == Init /\ [][Next]_vars

-----------------------------------------------------------------------------
\* The types of the variables.
TypeOK == CookieTypeOK /\ SessionTypeOK /\ ProfileTypeOK

\* While the chat shows a user, requests act for that user: the cookie is
\* another's only when a registration or a profile update that was still under
\* way set it, and gone only with a deleted account or after 24 hours.  No
\* order of logins, logouts and tab changes makes the two differ.
CookieIsTheUsers ==
  user # 0 /\ cookie # user =>
    setBy = IF cookie = 0 THEN "end" ELSE "side"

\* The page asks to sign in with the cookie still there only if the request
\* that ended the chat, or that looked for a user, did not succeed, or if a
\* registration or a late profile update has set it since.
SignedOutMeansNoCookie ==
  SignedOut /\ cookie # 0 => kept \/ setBy = "side"

\* What the dialog takes for the saved profile is the user's row, unless a save
\* is under way, its answer was lost or came to an earlier chat, a newer answer
\* was overtaken, or the dialog was filled for another account.
OriginalIsTheRow ==
  user \in DOMAIN users /\ dialog.original # NoForm =>
    drift \/ SavePending(user) \/ dialog.original = users[user]

\* A save sends every field, but puts back none that the user did not edit,
\* with the same exceptions at the time of the click.  All it may do to such a
\* field is to trim it, as RegisterForm and Register have not.
UneditedStays ==
  [][\A q \in asks \ asks' :
       q.op = "save" /\ ~q.unsure /\ q.as \in DOMAIN users \cap DOMAIN users' =>
         \A x \in {"name", "email"} :
           x \notin q.edited =>
             users'[q.as][x] \in {users[q.as][x], Trim[users[q.as][x]]}]_vars

\* Whatever fails, overtakes or unmounts, a page that shows nothing yet and a
\* button that is disabled wait for a request that is under way and will bring
\* them back.
BusyEnds ==
  LET Waits(ops, scope) == \E q \in UnderWay : q.op \in ops /\ q.scope = scope
  IN /\ mode = "blank" => Waits({"me"}, "app")
     /\ SignedOut /\ busy => Waits({mode}, "form")
     /\ dialog.busy => Waits({"get", "save", "delete"}, "form")

\* Names and emails are unique, each for itself, so a user who types the email
\* of an account into the login form, if it has an '@', or the name, if it has
\* none, is asked for that account's password.  Nothing sees to it that they do
\* (an email from the dialog, which is not a <form>, need not): a name with an
\* '@' is looked up as an email and an email without one as a name, which may
\* be another account's, for all that the field is labelled "Email or name"
\* (LoginForm.tsx:75).
TextFindsItsAccount ==
  \A u \in DOMAIN users :
    /\ users[u].email \in WithAt => Found(SignInForm(users[u].email)) = {u}
    /\ users[u].name \notin WithAt => Found(SignInForm(users[u].name)) = {u}

=============================================================================
