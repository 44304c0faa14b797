----------------------------- MODULE PageProofs -----------------------------
(***************************************************************************)
(* The invariants of Page and the one action property, proved for any      *)
(* number of accounts and of requests under way, any names and any texts.  *)
(*                                                                         *)
(* There are four inductive invariants, each kept with the help of Typed:  *)
(*   Typed   the types and the accounts that requests and answers name;    *)
(*   Unique  the columns of users;                                         *)
(*   Shown   the screens, the cookie, and what the buttons wait for;       *)
(*   Saved   the row, the dialog and the profile requests between them.    *)
(* Each is preserved by the three kinds of step in lemmas of their own:    *)
(* the server's, the session's and the dialog's.                           *)
(***************************************************************************)
EXTENDS Page, SequenceTheorems, FunctionTheorems, FiniteSetTheorems, TLAPS

\* A request acts for an account that was made, and so is the account an answer
\* names; an answer that clears the cookie is one of DELETE /api/me or of
\* POST /api/logout, and a save that was refused names none.
Known ==
  /\ \A q \in asks : /\ q.as \in 0 .. nextUser - 1
                     /\ q.op = "register" => q.form \in SignUps
  /\ \A i \in DOMAIN answers :
       LET a == answers[i]
       IN /\ a.who \in 0 .. nextUser - 1
          /\ a.result = "ok" => (a.who = 0 <=> a.op \in {"delete", "logout"})
          /\ a.op = "save" /\ a.result = "refused" => a.who = 0

\* What the unique indexes on name and email keep (models/user.go).
Unique ==
  \A u, v \in DOMAIN users :
    u # v => /\ users[u].name # users[v].name
             /\ users[u].email # users[v].email

\* While App is loading, nothing is under way but its fetchMe, which was sent
\* with the cookie of now unless that has expired since.
OnlyMe ==
  LET Ours(u) == u = cookie \/ (cookie = 0 /\ setBy = "end")
  IN \/ /\ answers = <<>>
        /\ \E q \in asks : /\ asks = {q} /\ q.op = "me" /\ q.scope = "app"
                           /\ Ours(q.as)
     \/ /\ asks = {} /\ DOMAIN answers = {1}
        /\ answers[1].op = "me" /\ answers[1].scope = "app"
        /\ answers[1].result = "ok" => Ours(answers[1].who)

\* fetchMe is sent once, before there is a screen; the dialog is part of the
\* chat, and a chat leaves a login form behind that is not busy.
Screens ==
  /\ mode = "blank" => user = 0 /\ busy = FALSE /\ OnlyMe
  /\ mode # "blank" => /\ \A q \in asks : q.op # "me"
                       /\ \A i \in DOMAIN answers : answers[i].op # "me"
  /\ user = 0 => dialog = Closed
  /\ user # 0 => mode = "login" /\ busy = FALSE

\* One of these requests will come back to a component of that scope.
Waits(qs, as, ops, scope) ==
  \/ \E q \in qs : q.op \in ops /\ q.scope = scope
  \/ \E i \in DOMAIN as : as[i].op \in ops /\ as[i].scope = scope

\* What disables a button of the form on show, or of the dialog, comes back.
Waiting ==
  /\ user = 0 /\ busy /\ mode # "blank" => Waits(asks, answers, {mode}, "form")
  /\ dialog.busy => Waits(asks, answers, {"get", "save", "delete"}, "form")

\* No answer is for a dialog that is not there: what a dialog asked for can
\* neither fill in nor free the dialog of the next chat.
DialogGone ==
  user = 0 => ~Waits(asks, answers, {"get", "save", "delete"}, "form")

\* The inductive invariant of what is on show and of the cookie.
Shown == /\ Screens /\ CookieIsTheUsers /\ SignedOutMeansNoCookie /\ Waiting
         /\ DialogGone

\* After the k-th of these answers a save of account u was served.
SaveServed(as, u, k) ==
  \E i \in DOMAIN as : i > k /\ as[i].op = "save" /\ as[i].who = u

\* An answer with a profile that overtook no newer one shows the row as it is,
\* or a save that changed it is behind it in the order of service.
Rows ==
  \A i \in DOMAIN answers :
    LET a == answers[i]
    IN  /\ a.op \in {"get", "save"} /\ a.result = "ok" /\ ~a.late
        /\ a.who \in DOMAIN users
        => a.row = users[a.who] \/ SaveServed(answers, a.who, i)

\* OriginalIsTheRow without the saves that are not served yet, which have
\* changed nothing so far.
Original ==
  user \in DOMAIN users /\ dialog.original # NoForm =>
    \/ drift
    \/ SaveServed(answers, user, 0)
    \/ dialog.original = users[user]

\* A save whose sender was sure has, but for what the user edited, the row's
\* values, trimmed, or none; it is the only one of its account.
Saves ==
  \A q \in asks :
    q.op = "save" /\ ~q.unsure /\ q.as \in DOMAIN users =>
      /\ \A x \in {"name", "email"} : \/ q.form[x] = Blank
                                      \/ x \in q.edited
                                      \/ q.form[x] = Trim[users[q.as][x]]
      /\ \A p \in asks : p.op = "save" /\ p.as = q.as => p = q

\* The inductive invariant of the dialog and the row.
Saved == Rows /\ Original /\ Saves

\* The inductive invariant of the types.
Typed == TypeOK /\ IsFiniteSet(asks) /\ Known

\* Where the j-th answer was before the i-th left.
Was(j, i) == IF j < i THEN j ELSE j + 1

-----------------------------------------------------------------------------
(***************************************************************************)
(* The operators of the model.                                             *)
(***************************************************************************)

\* RemoveAt of the community modules: one element less, the others in order.
LEMMA RemoveAtFacts ==
  ASSUME NEW S, NEW s \in Seq(S), NEW i \in DOMAIN s
  PROVE  /\ RemoveAt(s, i) \in Seq(S)
         /\ Len(s) \in Nat \ {0}
         /\ Len(RemoveAt(s, i)) = Len(s) - 1
         /\ \A j \in 1 .. Len(s) - 1 : RemoveAt(s, i)[j] = s[Was(j, i)]
<1>1. Len(s) \in Nat /\ i \in 1 .. Len(s)
  BY LenProperties
<1> DEFINE a == SubSeq(s, 1, i - 1)
           b == SubSeq(s, i + 1, Len(s))
<1>2. a \in Seq(S) /\ Len(a) = i - 1 /\ \A j \in 1 .. i - 1 : a[j] = s[j]
  BY <1>1, SubSeqProperties
<1>3. /\ b \in Seq(S) /\ Len(b) = Len(s) - i
      /\ \A j \in 1 .. Len(s) - i : b[j] = s[i + j]
  BY <1>1, SubSeqProperties
<1>4. /\ a \o b \in Seq(S) /\ Len(a \o b) = Len(a) + Len(b)
      /\ \A j \in 1 .. Len(a) + Len(b) :
           (a \o b)[j] = IF j <= Len(a) THEN a[j] ELSE b[j - Len(a)]
  BY <1>2, <1>3, ConcatProperties
<1>5. RemoveAt(s, i) = a \o b
  BY DEF RemoveAt
<1> HIDE DEF a, b
<1>6. \A j \in 1 .. Len(s) - 1 : (a \o b)[j] = s[Was(j, i)]
  <2> SUFFICES ASSUME NEW j \in 1 .. Len(s) - 1
               PROVE  (a \o b)[j] = s[Was(j, i)]
    OBVIOUS
  <2> DEFINE n == Len(s)
             k == i - 1
             l == n - i
  <2>1. j \in 1 .. k + l /\ k \in Nat /\ l \in Nat /\ j \in Nat /\ i = k + 1
    BY <1>1
  <2>2. (a \o b)[j] = IF j <= k THEN a[j] ELSE b[j - k]
    BY <1>2, <1>3, <1>4, <2>1
  <2>3. CASE j <= k
    BY <1>2, <2>1, <2>2, <2>3 DEF Was
  <2>4. CASE ~(j <= k)
    <3>1. j - k \in 1 .. l /\ i + (j - k) = j + 1 /\ ~(j < i)
      BY <2>1, <2>4
    <3> QED BY <1>3, <2>2, <2>4, <3>1 DEF Was
  <2> QED BY <2>3, <2>4
<1>7. Len(a) + Len(b) = Len(s) - 1
  BY <1>1, <1>2, <1>3
<1> QED BY <1>1, <1>4, <1>5, <1>6, <1>7

\* The image of a finite set is finite and no larger.
LEMMA ImageIsSmaller ==
  ASSUME NEW S, IsFiniteSet(S), NEW f, DOMAIN f = S
  PROVE  /\ IsFiniteSet({f[x] : x \in S})
         /\ Cardinality({f[x] : x \in S}) \in Nat
         /\ Cardinality({f[x] : x \in S}) <= Cardinality(S)
<1> DEFINE T == {f[x] : x \in S}
           g == [x \in S |-> f[x]]
<1>1. g \in Surjection(S, T)
  BY DEF Surjection
<1> QED BY <1>1, FS_Surjection, FS_CardinalityType

\* A request is served: it leaves asks, and its answer is the last.
LEMMA ServeFacts ==
  ASSUME CookieTypeOK, IsFiniteSet(asks), NEW q \in asks,
         NEW result \in {"ok", "refused"}, NEW who \in 0 .. MaxUsers,
         NEW row \in Form, Serve(q, result, who, row)
  PROVE  /\ asks' = asks \ {q} /\ asks' \subseteq Request
         /\ IsFiniteSet(asks')
         /\ answers' \in Seq(Reply)
         /\ Len(answers) \in Nat
         /\ Len(answers') = Len(answers) + 1
         /\ Cardinality(asks') + Len(answers') <= MaxAsks
         /\ \A i \in DOMAIN answers : answers'[i] = answers[i]
         /\ answers'[Len(answers')] =
              [op |-> q.op, result |-> result, who |-> who, row |-> row,
               scope |-> q.scope, late |-> FALSE]
<1> DEFINE a == [op |-> q.op, result |-> result, who |-> who, row |-> row,
                 scope |-> q.scope, late |-> FALSE]
<1>1. q \in Request /\ answers \in Seq(Reply) /\ asks \subseteq Request
  BY DEF CookieTypeOK
<1>2. a \in Reply
  BY <1>1 DEF Request, Reply
<1>3. asks' = asks \ {q} /\ answers' = Append(answers, a)
  BY DEF Serve
<1>4. /\ answers' \in Seq(Reply) /\ Len(answers') = Len(answers) + 1
      /\ \A i \in 1 .. Len(answers) : answers'[i] = answers[i]
      /\ answers'[Len(answers) + 1] = a
  BY <1>1, <1>2, <1>3, AppendProperties
<1>5. Len(answers) \in Nat /\ DOMAIN answers = 1 .. Len(answers)
  BY <1>1, LenProperties
<1>6. /\ IsFiniteSet(asks') /\ Cardinality(asks) \in Nat
      /\ Cardinality(asks') = Cardinality(asks) - 1
  BY <1>3, FS_RemoveElement, FS_CardinalityType
<1>7. Cardinality(asks) + Len(answers) <= MaxAsks /\ MaxAsks \in Nat
  BY CookieAssumption DEF CookieTypeOK
<1>8. Cardinality(asks') + Len(answers') <= MaxAsks
  BY <1>4, <1>5, <1>6, <1>7
<1> HIDE DEF a
<1>9. answers'[Len(answers')] = a
  BY <1>4
<1> QED BY <1>1, <1>3, <1>4, <1>5, <1>6, <1>8, <1>9 DEF a

\* The same request, but for what is left of its sender.
SameBut(q, p) == /\ q.op = p.op /\ q.as = p.as /\ q.form = p.form
                 /\ q.pw = p.pw /\ q.edited = p.edited
                 /\ q.unsure = p.unsure

\* What is left of a scope is a scope.
LEMMA LoweredIsScope ==
  ASSUME NEW s \in Scope, NEW to \in Scope
  PROVE  Lowered(s, to) \in Scope
BY DEF Lowered, Scope

\* Something unmounts: the requests stay, and are no more than they were (two
\* that differed only in their scope may become one).
LEMMA LoweredAsks ==
  ASSUME asks \subseteq Request, IsFiniteSet(asks), NEW to \in Scope, NEW T,
         T = {[q EXCEPT !.scope = Lowered(@, to)] : q \in asks}
  PROVE  /\ T \subseteq Request
         /\ IsFiniteSet(T) /\ Cardinality(T) \in Nat
         /\ Cardinality(T) <= Cardinality(asks)
         /\ \A p \in T : \E q \in asks :
              SameBut(p, q) /\ p.scope = Lowered(q.scope, to)
         /\ \A q \in asks : \E p \in T :
              SameBut(p, q) /\ p.scope = Lowered(q.scope, to)
<1> DEFINE f == [q \in asks |-> [q EXCEPT !.scope = Lowered(@, to)]]
<1>1. \A q \in asks : /\ f[q] \in Request /\ SameBut(f[q], q)
                      /\ f[q].scope = Lowered(q.scope, to)
  BY LoweredIsScope DEF Request, SameBut
<1>2. T = {f[q] : q \in asks} /\ DOMAIN f = asks
  OBVIOUS
<1> HIDE DEF f
<1>3. /\ IsFiniteSet(T) /\ Cardinality(T) \in Nat
      /\ Cardinality(T) <= Cardinality(asks)
  BY <1>2, ImageIsSmaller
<1> QED BY <1>1, <1>2, <1>3

\* An answer arrives: it leaves answers, the others move up, and what the
\* requests and answers have left of their senders is lowered.
LEMMA ArriveFacts ==
  ASSUME CookieTypeOK, IsFiniteSet(asks), NEW i \in DOMAIN answers,
         NEW to \in Scope, NEW more \in SUBSET Request,
         more = {} \/ \E m : more = {m}, Arrive(i, to, more)
  PROVE  /\ asks' \subseteq Request /\ IsFiniteSet(asks')
         /\ answers' \in Seq(Reply)
         /\ Len(answers) \in Nat \ {0}
         /\ Len(answers') = Len(answers) - 1
         /\ Cardinality(asks') + Len(answers') <= MaxAsks
         /\ \A p \in asks' : p \in more \/ \E q \in asks :
              SameBut(p, q) /\ p.scope = Lowered(q.scope, to)
         /\ \A q \in asks : \E p \in asks' :
              SameBut(p, q) /\ p.scope = Lowered(q.scope, to)
         /\ \A j \in DOMAIN answers' :
              LET k == Was(j, i)
              IN  /\ k \in DOMAIN answers /\ k # i
                  /\ answers'[j].op = answers[k].op
                  /\ answers'[j].result = answers[k].result
                  /\ answers'[j].who = answers[k].who
                  /\ answers'[j].row = answers[k].row
                  /\ answers'[j].scope = Lowered(answers[k].scope, to)
                  /\ answers'[j].late = (answers[k].late \/ k \in Overtaken(i))
         /\ \A k \in DOMAIN answers \ {i} :
              \E j \in DOMAIN answers' : k = Was(j, i)
<1> DEFINE left == [j \in DOMAIN answers |->
                     [answers[j] EXCEPT !.scope = Lowered(@, to),
                                        !.late = @ \/ j \in Overtaken(i)]]
           T == {[q EXCEPT !.scope = Lowered(@, to)] : q \in asks}
<1>1. answers \in Seq(Reply) /\ asks \subseteq Request
  BY DEF CookieTypeOK
<1>2. Len(answers) \in Nat /\ DOMAIN answers = 1 .. Len(answers)
  BY <1>1, LenProperties
<1>3. answers' = RemoveAt(left, i) /\ asks' = T \cup more
  BY DEF Arrive
<1>4. \A j \in DOMAIN answers : answers[j] \in Reply
  BY <1>1, <1>2, ElementOfSeq
<1>5. \A j \in DOMAIN answers :
        /\ left[j] \in Reply
        /\ left[j].op = answers[j].op
        /\ left[j].result = answers[j].result
        /\ left[j].who = answers[j].who
        /\ left[j].row = answers[j].row
        /\ left[j].scope = Lowered(answers[j].scope, to)
        /\ left[j].late = (answers[j].late \/ j \in Overtaken(i))
  BY <1>4, LoweredIsScope DEF Reply
<1>6. left \in Seq(Reply) /\ Len(left) = Len(answers)
      /\ DOMAIN left = DOMAIN answers
  <2>1. left \in [1 .. Len(answers) -> Reply]
    <3> DEFINE E(j) == [answers[j] EXCEPT !.scope = Lowered(@, to),
                                          !.late = @ \/ j \in Overtaken(i)]
    <3>1. \A j \in DOMAIN answers : E(j) \in Reply
      BY <1>5
    <3> HIDE DEF E
    <3>2. [j \in DOMAIN answers |-> E(j)] \in [1 .. Len(answers) -> Reply]
      BY <1>2, <3>1
    <3> QED BY <3>2 DEF E
  <2> HIDE DEF left
  <2>2. left \in Seq(Reply)
    BY <1>2, <2>1, SeqDef
  <2> QED BY <1>2, <2>1, <2>2, LenProperties
<1> HIDE DEF left
<1>7. /\ answers' \in Seq(Reply)
      /\ Len(answers') = Len(answers) - 1
      /\ Len(answers) \in Nat \ {0}
      /\ \A j \in 1 .. Len(answers) - 1 : answers'[j] = left[Was(j, i)]
  BY <1>3, <1>6, RemoveAtFacts
<1>8. DOMAIN answers' = 1 .. Len(answers) - 1
  BY <1>7, LenProperties
<1>9. \A j \in DOMAIN answers' : Was(j, i) \in DOMAIN answers /\ Was(j, i) # i
  BY <1>2, <1>8 DEF Was
<1>10. \A k \in DOMAIN answers \ {i} :
         \E j \in DOMAIN answers' : k = Was(j, i)
  <2> TAKE k \in DOMAIN answers \ {i}
  <2>1. CASE k < i
    <3> k \in DOMAIN answers'
      BY <1>2, <1>8, <2>1
    <3> WITNESS k \in DOMAIN answers'
    <3> QED BY <2>1 DEF Was
  <2>2. CASE ~(k < i)
    <3> k - 1 \in DOMAIN answers'
      BY <1>2, <1>8, <2>2
    <3> WITNESS k - 1 \in DOMAIN answers'
    <3> QED BY <1>2, <2>2 DEF Was
  <2> QED BY <2>1, <2>2
<1>11. /\ T \subseteq Request
       /\ IsFiniteSet(T) /\ Cardinality(T) \in Nat
       /\ Cardinality(T) <= Cardinality(asks)
       /\ \A p \in T : \E q \in asks :
            SameBut(p, q) /\ p.scope = Lowered(q.scope, to)
       /\ \A q \in asks : \E p \in T :
            SameBut(p, q) /\ p.scope = Lowered(q.scope, to)
  BY <1>1, LoweredAsks
<1> HIDE DEF T
<1>12. /\ IsFiniteSet(asks') /\ Cardinality(asks') \in Nat
       /\ Cardinality(asks') <= Cardinality(asks) + 1
  <2> DEFINE a == Cardinality(asks)
             t == Cardinality(T)
  <2>1. a \in Nat /\ t \in Nat /\ t <= a
    BY <1>11, FS_CardinalityType
  <2>2. CASE more = {}
    BY <1>3, <1>11, <2>1, <2>2
  <2>3. ASSUME NEW m, more = {m}
        PROVE  /\ IsFiniteSet(T \cup {m})
               /\ Cardinality(T \cup {m}) \in Nat
               /\ Cardinality(T \cup {m}) <= a + 1
    <3>1. /\ IsFiniteSet(T \cup {m})
          /\ Cardinality(T \cup {m}) = IF m \in T THEN t ELSE t + 1
      BY <1>11, FS_AddElement
    <3> DEFINE c == Cardinality(T \cup {m})
    <3> HIDE DEF a, t, c
    <3>2. c = t \/ c = t + 1
      BY <3>1 DEF c
    <3>3. c \in Nat /\ c <= a + 1
      BY ONLY <2>1, <3>2
    <3> QED BY <3>1, <3>3 DEF c
  <2> QED BY <1>3, <2>2, <2>3
<1>13. Cardinality(asks') + Len(answers') <= MaxAsks
  <2> DEFINE a == Cardinality(asks)
             b == Cardinality(asks')
             l == Len(answers)
             m == Len(answers')
  <2>1. a \in Nat /\ b \in Nat /\ l \in Nat /\ b <= a + 1 /\ m = l - 1
    BY <1>7, <1>12, FS_CardinalityType
  <2>2. a + l <= MaxAsks /\ MaxAsks \in Nat
    BY CookieAssumption DEF CookieTypeOK
  <2> HIDE DEF a, b, l, m
  <2>3. b + m <= MaxAsks
    BY <2>1, <2>2
  <2> QED BY <2>3 DEF b, m
<1>14. \A j \in DOMAIN answers' : answers'[j] = left[Was(j, i)]
  BY <1>7, <1>8
<1>15. \A j \in DOMAIN answers' :
         LET k == Was(j, i)
         IN  /\ k \in DOMAIN answers /\ k # i
             /\ answers'[j].op = answers[k].op
             /\ answers'[j].result = answers[k].result
             /\ answers'[j].who = answers[k].who
             /\ answers'[j].row = answers[k].row
             /\ answers'[j].scope = Lowered(answers[k].scope, to)
             /\ answers'[j].late = (answers[k].late \/ k \in Overtaken(i))
  BY <1>5, <1>9, <1>14
<1> QED BY <1>3, <1>7, <1>10, <1>11, <1>12, <1>13, <1>15

-----------------------------------------------------------------------------
(***************************************************************************)
(* Types.                                                                  *)
(***************************************************************************)

\* Consequences of the types that the proofs below use all the time.
LEMMA TypedFacts ==
  ASSUME Typed
  PROVE  /\ nextUser \in 1 .. MaxUsers + 1 /\ MaxUsers \in Nat \ {0}
         /\ MaxAsks \in Nat
         /\ answers \in Seq(Reply) /\ asks \subseteq Request
         /\ DOMAIN users \subseteq 1 .. nextUser - 1
         /\ Len(answers) \in Nat /\ DOMAIN answers = 1 .. Len(answers)
         /\ \A i \in DOMAIN answers :
              /\ answers[i] \in Reply
              /\ answers[i].who \in 0 .. nextUser - 1
         /\ \A u \in DOMAIN users : users[u] \in Row /\ users[u] \in Form
         /\ NoForm \in Form
<1>1. answers \in Seq(Reply)
  BY DEF Typed, TypeOK, CookieTypeOK
<1>2. /\ Len(answers) \in Nat /\ DOMAIN answers = 1 .. Len(answers)
      /\ \A i \in DOMAIN answers : answers[i] \in Reply
  BY <1>1, LenProperties, ElementOfSeq
<1>3. NoForm \in Form
  BY DEF NoForm, Form
<1>4. \A u \in DOMAIN users : users[u] \in Row /\ users[u] \in Form
  BY DEF Typed, TypeOK, CookieTypeOK, Row, Form
<1> QED BY <1>1, <1>2, <1>3, <1>4, CookieAssumption
        DEF Typed, TypeOK, CookieTypeOK, Known

\* An answer is lost: only its result and its row change.
LEMMA LoseFacts ==
  ASSUME Typed, NEW i \in DOMAIN answers, Lose(i)
  PROVE  /\ users' = users /\ nextUser' = nextUser /\ asks' = asks
         /\ cookie' = cookie /\ setBy' = setBy
         /\ answers[i].op \in {"register", "save", "delete"}
         /\ answers' \in Seq(Reply) /\ Len(answers') = Len(answers)
         /\ DOMAIN answers' = DOMAIN answers
         /\ answers'[i].result =
              IF answers[i].op = "save" THEN "lost" ELSE "refused"
         /\ \A j \in DOMAIN answers :
              /\ answers'[j].op = answers[j].op
              /\ answers'[j].who = answers[j].who
              /\ answers'[j].scope = answers[j].scope
              /\ answers'[j].late = answers[j].late
              /\ j # i => answers'[j] = answers[j]
<1> DEFINE a == answers[i]
           b == answers'[i]
<1>1. /\ Len(answers) \in Nat /\ DOMAIN answers = 1 .. Len(answers)
      /\ NoForm \in Form
      /\ \A j \in DOMAIN answers : answers[j] \in Reply
  BY TypedFacts
<1>2. /\ users' = users /\ nextUser' = nextUser /\ asks' = asks
      /\ cookie' = cookie /\ setBy' = setBy
      /\ a.op \in {"register", "save", "delete"}
  BY DEF Lose, serverVars
<1>3. /\ DOMAIN answers' = DOMAIN answers
      /\ \A j \in DOMAIN answers : j # i => answers'[j] = answers[j]
  BY DEF Lose
<1>4. b = [a EXCEPT !.result = IF a.op = "save" THEN "lost"
                              ELSE "refused",
                    !.row = NoForm]
  BY DEF Lose
<1>5. /\ b \in Reply /\ b.op = a.op /\ b.who = a.who /\ b.scope = a.scope
      /\ b.late = a.late
      /\ b.result = IF a.op = "save" THEN "lost" ELSE "refused"
  <2>1. a \in Reply
    BY <1>1
  <2> HIDE DEF a, b
  <2> QED BY <1>1, <1>4, <2>1 DEF Reply
<1>6. answers' \in Seq(Reply) /\ Len(answers') = Len(answers)
  <2>1. \A j \in DOMAIN answers : answers'[j] \in Reply
    BY <1>1, <1>3, <1>5
  <2>2. answers' = [j \in DOMAIN answers |-> answers'[j]]
    BY DEF Lose
  <2>3. answers' \in [1 .. Len(answers) -> Reply]
    BY <1>1, <2>1, <2>2
  <2> QED BY <1>1, <1>3, <2>3, SeqDef, LenProperties
<1> QED BY <1>2, <1>3, <1>5, <1>6

\* An id that was given out stays one when more are.
LEMMA LaterIds ==
  ASSUME NEW m \in Nat, NEW now \in 1 .. m + 1, NEW next \in now .. m + 1
  PROVE  /\ next \in 1 .. m + 1
         /\ 0 .. now - 1 \subseteq 0 .. next - 1
         /\ 1 .. now - 1 \subseteq 1 .. next - 1
         /\ 0 .. next - 1 \subseteq 0 .. m
OBVIOUS

\* The types after a request was served with this result.
LEMMA ServeTypes ==
  ASSUME Typed, NEW q \in asks, NEW result \in {"ok", "refused"}, NEW who,
         NEW row \in Form, Serve(q, result, who, row),
         nextUser' \in nextUser .. MaxUsers + 1,
         who \in 0 .. nextUser' - 1,
         result = "ok" => (who = 0 <=> q.op \in {"delete", "logout"}),
         result = "refused" => who = 0
  PROVE  /\ asks' \subseteq Request /\ IsFiniteSet(asks')
         /\ answers' \in Seq(Reply)
         /\ Cardinality(asks') + Len(answers') <= MaxAsks
         /\ cookie' \in 0 .. nextUser' - 1
         /\ setBy' \in {"page", "side", "end"}
         /\ Known'
<1>1. /\ CookieTypeOK /\ IsFiniteSet(asks) /\ Known
      /\ nextUser \in 1 .. MaxUsers + 1 /\ MaxUsers \in Nat
      /\ Len(answers) \in Nat /\ DOMAIN answers = 1 .. Len(answers)
  BY TypedFacts DEF Typed, TypeOK
<1>2. who \in 0 .. MaxUsers /\ 0 .. nextUser - 1 \subseteq 0 .. nextUser' - 1
  BY <1>1, LaterIds, Zenon
<1> DEFINE a == [op |-> q.op, result |-> result, who |-> who, row |-> row,
                 scope |-> q.scope, late |-> FALSE]
<1>3. /\ asks' = asks \ {q} /\ asks' \subseteq Request
      /\ IsFiniteSet(asks') /\ answers' \in Seq(Reply)
      /\ Len(answers') = Len(answers) + 1
      /\ Cardinality(asks') + Len(answers') <= MaxAsks
      /\ \A i \in DOMAIN answers : answers'[i] = answers[i]
      /\ answers'[Len(answers')] = a
  BY <1>1, <1>2, ServeFacts
<1>4. cookie' = cookie /\ setBy' = setBy
  BY DEF Serve
<1>5. cookie' \in 0 .. nextUser' - 1 /\ setBy' \in {"page", "side", "end"}
  BY <1>1, <1>2, <1>4 DEF CookieTypeOK
<1>6. DOMAIN answers' = 1 .. Len(answers) + 1
  BY <1>3, LenProperties
<1>7. \A i \in DOMAIN answers' : i \in DOMAIN answers \/ i = Len(answers')
  BY <1>1, <1>3, <1>6
<1>8. Known'
  BY <1>1, <1>2, <1>3, <1>7 DEF Known
<1> QED BY <1>3, <1>5, <1>8

\* A handler, a lost answer and an expired cookie keep the types.
LEMMA ServerTypes ==
  ASSUME Typed, ServerStep, UNCHANGED <<sessionVars, dialogVars>>
  PROVE  Typed'
<1> USE DEF UserId
<1>1. /\ nextUser \in 1 .. MaxUsers + 1 /\ MaxUsers \in Nat \ {0}
      /\ answers \in Seq(Reply) /\ asks \subseteq Request
      /\ DOMAIN users \subseteq 1 .. nextUser - 1
      /\ DOMAIN answers = 1 .. Len(answers)
      /\ \A i \in DOMAIN answers :
           /\ answers[i] \in Reply
           /\ answers[i].who \in 0 .. nextUser - 1
      /\ \A u \in DOMAIN users : users[u] \in Row /\ users[u] \in Form
      /\ NoForm \in Form
  BY TypedFacts
<1>2. SessionTypeOK /\ ProfileTypeOK /\ CookieTypeOK /\ Known
  BY DEF Typed, TypeOK
<1>3. ASSUME nextUser' \in nextUser .. MaxUsers + 1
      PROVE  SessionTypeOK' /\ ProfileTypeOK'
  <2>1. user' = user /\ mode' = mode /\ busy' = busy /\ kept' = kept
        /\ dialog' = dialog /\ drift' = drift
    BY DEF sessionVars, dialogVars
  <2>2. 0 .. nextUser - 1 \subseteq 0 .. nextUser' - 1
    <3>1. MaxUsers \in Nat /\ nextUser \in 1 .. MaxUsers + 1
      BY <1>1
    <3> QED BY <1>3, <3>1, LaterIds, Zenon
  <2>3. user' \in 0 .. nextUser' - 1
    BY <1>2, <2>1, <2>2, Zenon DEF SessionTypeOK
  <2> QED BY <1>2, <2>1, <2>3 DEF SessionTypeOK, ProfileTypeOK
<1>4. ASSUME NEW q \in asks, NEW result \in {"ok", "refused"}, NEW who,
             NEW row \in Form, Serve(q, result, who, row),
             UNCHANGED serverVars, who \in 0 .. nextUser - 1,
             result = "ok" => (who = 0 <=> q.op \in {"delete", "logout"}),
             result = "refused" => who = 0
      PROVE  Typed'
  <2>1. users' = users /\ nextUser' = nextUser
    BY <1>4 DEF serverVars
  <2>2. nextUser' \in nextUser .. MaxUsers + 1 /\ who \in 0 .. nextUser' - 1
    BY <1>1, <1>4, <2>1
  <2>3. /\ asks' \subseteq Request /\ IsFiniteSet(asks')
        /\ answers' \in Seq(Reply)
        /\ Cardinality(asks') + Len(answers') <= MaxAsks
        /\ cookie' \in 0 .. nextUser' - 1
        /\ setBy' \in {"page", "side", "end"}
        /\ Known'
    BY <1>4, <2>2, ServeTypes
  <2> QED BY <1>1, <1>2, <1>3, <2>1, <2>2, <2>3
          DEF Typed, TypeOK, CookieTypeOK
<1>5. ASSUME NEW q \in asks, Me(q) PROVE Typed'
  <2>1. q.as \in DOMAIN users /\ q.as \in 0 .. nextUser - 1 /\ q.as # 0
        /\ q.op \notin {"delete", "logout"}
        /\ Serve(q, "ok", q.as, users[q.as]) /\ UNCHANGED serverVars
    BY <1>1, <1>5 DEF Me
  <2> QED BY <1>1, <1>4, <2>1
<1>6. ASSUME NEW q \in asks, Login(q) PROVE Typed'
  <2>1. PICK u \in Found(q.form) : Serve(q, "ok", u, NoForm)
    BY <1>6 DEF Login
  <2>2. u \in DOMAIN users
    BY DEF Found
  <2>3. u \in 0 .. nextUser - 1 /\ u # 0 /\ q.op \notin {"delete", "logout"}
        /\ UNCHANGED serverVars
    BY <1>1, <1>6, <2>2 DEF Login
  <2> QED BY <1>1, <1>4, <2>1, <2>3
<1>7. ASSUME NEW q \in asks, Register(q) PROVE Typed'
  <2>1. /\ nextUser' = nextUser + 1 /\ nextUser <= MaxUsers
        /\ users' = [u \in DOMAIN users \cup {nextUser} |->
                       IF u = nextUser THEN q.form ELSE users[u]]
        /\ Serve(q, "ok", nextUser, NoForm)
        /\ q.op = "register"
    BY <1>7 DEF Register
  <2>2. nextUser' \in nextUser .. MaxUsers + 1 /\ nextUser # 0
        /\ nextUser \in 0 .. nextUser' - 1 /\ nextUser' \in 1 .. MaxUsers + 1
    BY <1>1, <2>1
  <2>3. /\ asks' \subseteq Request /\ IsFiniteSet(asks')
        /\ answers' \in Seq(Reply)
        /\ Cardinality(asks') + Len(answers') <= MaxAsks
        /\ cookie' \in 0 .. nextUser' - 1
        /\ setBy' \in {"page", "side", "end"}
        /\ Known'
    BY <1>1, <2>1, <2>2, ServeTypes
  <2>4. q.form \in Row
    BY <1>2, <2>1, CookieAssumption DEF Known, Row
  <2>5. DOMAIN users' \subseteq 1 .. nextUser' - 1
    BY <1>1, <2>1
  <2>6. \A u \in DOMAIN users' : users'[u] \in Row
    BY <1>1, <2>1, <2>4
  <2> QED BY <1>3, <2>2, <2>3, <2>5, <2>6 DEF Typed, TypeOK, CookieTypeOK
<1>8. ASSUME NEW q \in asks, UpdateMe(q) PROVE Typed'
  <2> DEFINE m == Merged(q.as, q.form)
  <2>1. /\ q.op = "save" /\ q.as \in DOMAIN users
        /\ users' = [users EXCEPT ![q.as] = m]
        /\ Serve(q, "ok", q.as, m) /\ nextUser' = nextUser
    BY <1>8 DEF UpdateMe
  <2>2. m \in Row /\ m \in Form
    BY <1>1, <2>1 DEF Merged, Row, Form, Request
  <2>3. nextUser' \in nextUser .. MaxUsers + 1 /\ q.as # 0
        /\ q.as \in 0 .. nextUser' - 1 /\ nextUser' \in 1 .. MaxUsers + 1
    BY <1>1, <2>1
  <2>4. /\ asks' \subseteq Request /\ IsFiniteSet(asks')
        /\ answers' \in Seq(Reply)
        /\ Cardinality(asks') + Len(answers') <= MaxAsks
        /\ cookie' \in 0 .. nextUser' - 1
        /\ setBy' \in {"page", "side", "end"}
        /\ Known'
    BY <2>1, <2>2, <2>3, ServeTypes
  <2> HIDE DEF m
  <2>5. /\ DOMAIN users' = DOMAIN users
        /\ \A u \in DOMAIN users' : users'[u] \in Row
    BY <1>1, <2>1, <2>2
  <2> QED BY <1>1, <1>3, <2>1, <2>3, <2>4, <2>5 DEF Typed, TypeOK, CookieTypeOK
<1>9. ASSUME NEW q \in asks, DeleteMe(q) PROVE Typed'
  <2>1. /\ q.op = "delete" /\ nextUser' = nextUser
        /\ users' = [u \in DOMAIN users \ {q.as} |-> users[u]]
        /\ Serve(q, "ok", 0, NoForm)
    BY <1>9 DEF DeleteMe
  <2>2. nextUser' \in nextUser .. MaxUsers + 1 /\ 0 \in 0 .. nextUser' - 1
        /\ nextUser' \in 1 .. MaxUsers + 1
    BY <1>1, <2>1
  <2>3. /\ asks' \subseteq Request /\ IsFiniteSet(asks')
        /\ answers' \in Seq(Reply)
        /\ Cardinality(asks') + Len(answers') <= MaxAsks
        /\ cookie' \in 0 .. nextUser' - 1
        /\ setBy' \in {"page", "side", "end"}
        /\ Known'
    BY <1>1, <2>1, <2>2, ServeTypes
  <2>4. /\ DOMAIN users' \subseteq DOMAIN users
        /\ \A u \in DOMAIN users' : users'[u] \in Row
    BY <1>1, <2>1
  <2> QED BY <1>1, <1>3, <2>1, <2>2, <2>3, <2>4 DEF Typed, TypeOK, CookieTypeOK
<1>10. ASSUME NEW q \in asks, Logout(q) PROVE Typed'
  <2>1. q.op = "logout" /\ Serve(q, "ok", 0, NoForm) /\ UNCHANGED serverVars
        /\ 0 \in 0 .. nextUser - 1
    BY <1>1, <1>10 DEF Logout
  <2> QED BY <1>1, <1>4, <2>1
<1>11. ASSUME NEW q \in asks, Refuse(q) PROVE Typed'
  <2>1. Serve(q, "refused", 0, NoForm) /\ UNCHANGED serverVars
        /\ 0 \in 0 .. nextUser - 1
    BY <1>1, <1>11 DEF Refuse
  <2> QED BY <1>1, <1>4, <2>1
<1>12. ASSUME NEW i \in DOMAIN answers, Lose(i) PROVE Typed'
  <2>1. /\ users' = users /\ nextUser' = nextUser /\ asks' = asks
        /\ cookie' = cookie /\ setBy' = setBy
        /\ answers' \in Seq(Reply) /\ Len(answers') = Len(answers)
        /\ DOMAIN answers' = DOMAIN answers
        /\ answers'[i].result =
             IF answers[i].op = "save" THEN "lost" ELSE "refused"
        /\ \A j \in DOMAIN answers :
             /\ answers'[j].op = answers[j].op
             /\ answers'[j].who = answers[j].who
             /\ j # i => answers'[j] = answers[j]
    BY <1>12, LoseFacts
  <2>2. Known'
    BY <1>2, <2>1 DEF Known
  <2>3. nextUser' \in nextUser .. MaxUsers + 1
    BY <1>1, <2>1
  <2>4. SessionTypeOK' /\ ProfileTypeOK'
    BY <1>3, <2>3
  <2>5. CookieTypeOK' /\ IsFiniteSet(asks')
    BY <1>2, <2>1 DEF CookieTypeOK, Typed
  <2> QED BY <2>2, <2>4, <2>5 DEF Typed, TypeOK
<1>13. ASSUME Expire PROVE Typed'
  <2>1. /\ users' = users /\ nextUser' = nextUser /\ asks' = asks
        /\ answers' = answers /\ cookie' = 0 /\ setBy' = "end"
    BY <1>13 DEF Expire, serverVars
  <2>2. nextUser' \in nextUser .. MaxUsers + 1 /\ 0 \in 0 .. nextUser - 1
    BY <1>1, <2>1
  <2> QED BY <1>2, <1>3, <2>1, <2>2 DEF Typed, TypeOK, CookieTypeOK, Known
<1> QED BY <1>5, <1>6, <1>7, <1>8, <1>9, <1>10, <1>11, <1>12, <1>13
        DEF ServerStep

\* The arrival of an answer keeps the types.
LEMMA ArriveTypes ==
  ASSUME Typed, NEW i \in DOMAIN answers, NEW to \in Scope,
         NEW more \in SUBSET Request, more = {} \/ \E m : more = {m},
         \A m \in more : m.as \in 0 .. nextUser - 1 /\ m.op # "register",
         Arrive(i, to, more)
  PROVE  /\ CookieTypeOK' /\ IsFiniteSet(asks') /\ Known'
         /\ users' = users /\ nextUser' = nextUser
<1>1. /\ CookieTypeOK /\ IsFiniteSet(asks) /\ Known
      /\ answers[i] \in Reply /\ answers[i].who \in 0 .. nextUser - 1
  BY TypedFacts DEF Typed, TypeOK
<1>2. users' = users /\ nextUser' = nextUser
  BY DEF Arrive, serverVars
<1>3. /\ cookie' = IF SetsCookie(answers[i]) THEN answers[i].who ELSE cookie
      /\ setBy' = IF SetsCookie(answers[i]) THEN Setter(answers[i].op)
                  ELSE setBy
  BY DEF Arrive
<1>4. cookie' \in 0 .. nextUser' - 1
  BY <1>1, <1>2, <1>3 DEF CookieTypeOK
<1>5. setBy' \in {"page", "side", "end"}
  <2>1. SetsCookie(answers[i]) =>
          Setter(answers[i].op) \in {"page", "side", "end"}
    BY <1>1 DEF SetsCookie, Setter, Reply, Op
  <2> QED BY <1>1, <1>3, <2>1 DEF CookieTypeOK
<1>6. /\ asks' \subseteq Request /\ IsFiniteSet(asks')
      /\ answers' \in Seq(Reply)
      /\ Cardinality(asks') + Len(answers') <= MaxAsks
      /\ \A p \in asks' : p \in more \/ \E q \in asks : SameBut(p, q)
      /\ \A j \in DOMAIN answers' :
           /\ Was(j, i) \in DOMAIN answers
           /\ answers'[j].op = answers[Was(j, i)].op
           /\ answers'[j].result = answers[Was(j, i)].result
           /\ answers'[j].who = answers[Was(j, i)].who
  BY <1>1, ArriveFacts, Zenon
<1>7. Known'
  <2>1. \A p \in asks' : /\ p.as \in 0 .. nextUser' - 1
                         /\ p.op = "register" => p.form \in SignUps
    BY <1>1, <1>2, <1>6 DEF Known, SameBut
  <2>2. \A j \in DOMAIN answers' :
          LET a == answers'[j]
          IN /\ a.who \in 0 .. nextUser' - 1
             /\ a.result = "ok" =>
                  (a.who = 0 <=> a.op \in {"delete", "logout"})
             /\ a.op = "save" /\ a.result = "refused" => a.who = 0
    BY <1>1, <1>2, <1>6 DEF Known
  <2> QED BY <2>1, <2>2 DEF Known
<1> QED BY <1>1, <1>2, <1>4, <1>5, <1>6, <1>7 DEF CookieTypeOK

\* The request of a click.
LEMMA AskTypes ==
  ASSUME Typed, NEW op \in Op, NEW form \in Form, NEW scope \in Scope
  PROVE  /\ Ask(op, form, scope) \in Request
         /\ Ask(op, form, scope).op = op
         /\ Ask(op, form, scope).form = form
         /\ Ask(op, form, scope).scope = scope
         /\ Ask(op, form, scope).as \in 0 .. nextUser - 1
<1>1. /\ nextUser \in 1 .. MaxUsers + 1 /\ MaxUsers \in Nat
      /\ cookie \in 0 .. nextUser - 1
  BY TypedFacts DEF Typed, TypeOK, CookieTypeOK
<1>2. /\ cookie \in 0 .. MaxUsers
      /\ 0 \in 0 .. MaxUsers /\ 0 \in 0 .. nextUser - 1
  BY <1>1
<1> DEFINE as == IF op \in {"login", "register"} THEN 0 ELSE cookie
<1>3. as \in 0 .. MaxUsers /\ as \in 0 .. nextUser - 1
  BY <1>1, <1>2
<1> HIDE DEF as
<1>4. Ask(op, form, scope) =
        [op |-> op, as |-> as, form |-> form, pw |-> FALSE, scope |-> scope,
         edited |-> {}, unsure |-> FALSE]
  BY DEF Ask, as
<1>5. [op |-> op, as |-> as, form |-> form, pw |-> FALSE, scope |-> scope,
       edited |-> {}, unsure |-> FALSE] \in Request
  BY <1>3 DEF Request
<1>6. Ask(op, form, scope) \in Request
  BY <1>4, <1>5, Zenon
<1>7. /\ Ask(op, form, scope).op = op
      /\ Ask(op, form, scope).form = form
      /\ Ask(op, form, scope).scope = scope
      /\ Ask(op, form, scope).as = as
  BY <1>4
<1> QED BY <1>3, <1>6, <1>7, Zenon

\* Sending it keeps the types, as long as CanSend is what guards it.
LEMMA SendTypes ==
  ASSUME Typed, NEW q \in Request, q.as \in 0 .. nextUser - 1,
         q.op = "register" => q.form \in SignUps, Send(q)
  PROVE  /\ CookieTypeOK' /\ IsFiniteSet(asks') /\ Known'
         /\ users' = users /\ nextUser' = nextUser
<1>1. /\ CookieTypeOK /\ IsFiniteSet(asks) /\ Known
      /\ Len(answers) \in Nat /\ MaxAsks \in Nat
  BY TypedFacts DEF Typed, TypeOK
<1>2. /\ users' = users /\ nextUser' = nextUser /\ cookie' = cookie
      /\ answers' = answers /\ setBy' = setBy /\ asks' = asks \cup {q}
      /\ Cardinality(asks) + Len(answers) < MaxAsks
  BY DEF Send, CanSend, serverVars
<1>3. /\ IsFiniteSet(asks') /\ Cardinality(asks) \in Nat
      /\ \/ Cardinality(asks') = Cardinality(asks)
         \/ Cardinality(asks') = Cardinality(asks) + 1
  BY <1>1, <1>2, FS_AddElement, FS_CardinalityType
<1>4. Cardinality(asks') + Len(answers') <= MaxAsks
  BY <1>1, <1>2, <1>3
<1>5. CookieTypeOK'
  BY <1>1, <1>2, <1>4 DEF CookieTypeOK
<1>6. Known'
  BY <1>1, <1>2 DEF Known
<1> QED BY <1>2, <1>3, <1>5, <1>6

\* The answers under way when a form unmounts.
LEMMA SwitchedAnswers ==
  ASSUME Typed, NEW t,
         t = [i \in DOMAIN answers |->
                [answers[i] EXCEPT !.scope = Lowered(@, "screen")]]
  PROVE  /\ t \in Seq(Reply) /\ Len(t) = Len(answers)
         /\ DOMAIN t = DOMAIN answers
         /\ \A j \in DOMAIN answers :
              /\ t[j].op = answers[j].op
              /\ t[j].result = answers[j].result
              /\ t[j].who = answers[j].who
              /\ t[j].row = answers[j].row
              /\ t[j].late = answers[j].late
              /\ t[j].scope = Lowered(answers[j].scope, "screen")
<1> DEFINE E(j) == [answers[j] EXCEPT !.scope = Lowered(@, "screen")]
<1>1. /\ Len(answers) \in Nat /\ DOMAIN answers = 1 .. Len(answers)
      /\ \A j \in DOMAIN answers : answers[j] \in Reply
  BY TypedFacts
<1>2. \A j \in DOMAIN answers :
        /\ E(j) \in Reply
        /\ E(j).op = answers[j].op
        /\ E(j).result = answers[j].result
        /\ E(j).who = answers[j].who
        /\ E(j).row = answers[j].row
        /\ E(j).late = answers[j].late
        /\ E(j).scope = Lowered(answers[j].scope, "screen")
  BY <1>1, LoweredIsScope DEF Reply, Scope
<1>3. t = [j \in DOMAIN answers |-> E(j)]
  OBVIOUS
<1> HIDE DEF E
<1>4. t \in [1 .. Len(answers) -> Reply]
  BY <1>1, <1>2, <1>3
<1>5. t \in Seq(Reply)
  BY <1>1, <1>4, SeqDef
<1>6. DOMAIN t = DOMAIN answers /\ \A j \in DOMAIN answers : t[j] = E(j)
  BY <1>3
<1> QED BY <1>1, <1>2, <1>5, <1>6, LenProperties

\* The login form sends an email or a name.
LEMMA SignInForms ==
  ASSUME NEW t \in Name \cup Email
  PROVE  SignInForm(t) \in Form
<1>1. /\ SignInForm(t).name \in Name \cup {Blank}
      /\ SignInForm(t).email \in Email \cup {Blank}
  BY WithAtAssumption DEF SignInForm, NoForm
<1> QED BY <1>1 DEF Form, SignInForm, NoForm

\* The steps of App, LoginScreen and its forms keep the types.
LEMMA SessionTypes ==
  ASSUME Typed, SessionStep, Remount
  PROVE  Typed'
<1>1. /\ SessionTypeOK /\ ProfileTypeOK /\ CookieTypeOK /\ Known
      /\ IsFiniteSet(asks) /\ {} \in SUBSET Request
      /\ nextUser \in 1 .. MaxUsers + 1 /\ MaxUsers \in Nat
      /\ \A i \in DOMAIN answers :
           answers[i] \in Reply /\ answers[i].who \in 0 .. nextUser - 1
  BY TypedFacts DEF Typed, TypeOK
<1>2. 0 \in 0 .. nextUser - 1
  BY <1>1
<1>3. ProfileTypeOK'
  BY <1>1 DEF Remount, ProfileTypeOK, Closed, NoForm, Form
<1>4. ASSUME NEW i \in DOMAIN answers, NEW to \in Scope, Arrive(i, to, {}),
             user' \in {0, user, answers[i].who},
             mode' \in {mode, "login"}, busy' \in {busy, FALSE},
             kept' \in BOOLEAN
      PROVE  Typed'
  <2>1. CookieTypeOK' /\ IsFiniteSet(asks') /\ Known' /\ nextUser' = nextUser
    BY <1>1, <1>4, ArriveTypes
  <2>2. SessionTypeOK'
    BY <1>1, <1>2, <1>4, <2>1 DEF SessionTypeOK
  <2> QED BY <1>3, <2>1, <2>2 DEF Typed, TypeOK
<1> USE DEF Scope
<1>5. ASSUME NEW m \in {"login", "register"}, NEW f \in Form, Submit(m, f),
             m = "register" => f \in SignUps
      PROVE  Typed'
  <2>1. /\ Ask(m, f, "form") \in Request
        /\ Ask(m, f, "form").op = m /\ Ask(m, f, "form").form = f
        /\ Ask(m, f, "form").as \in 0 .. nextUser - 1
    BY AskTypes DEF Op
  <2>2. /\ Send(Ask(m, f, "form")) /\ busy' = TRUE
        /\ user' = user /\ mode' = mode /\ kept' = kept
    BY <1>5 DEF Submit
  <2>3. CookieTypeOK' /\ IsFiniteSet(asks') /\ Known' /\ nextUser' = nextUser
    BY <1>5, <2>1, <2>2, SendTypes
  <2>4. SessionTypeOK'
    BY <1>1, <2>2, <2>3 DEF SessionTypeOK
  <2> QED BY <1>3, <2>3, <2>4 DEF Typed, TypeOK
<1>6. ASSUME NEW m \in {"login", "register"}, SwitchMode(m) PROVE Typed'
  <2>1. /\ users' = users /\ nextUser' = nextUser /\ cookie' = cookie
        /\ setBy' = setBy /\ user' = user /\ kept' = kept
        /\ mode' = m /\ busy' = FALSE
    BY <1>6 DEF SwitchMode, serverVars
  <2>2. /\ asks' \subseteq Request /\ IsFiniteSet(asks')
        /\ Cardinality(asks') \in Nat
        /\ Cardinality(asks') <= Cardinality(asks)
        /\ \A p \in asks' : \E q \in asks : SameBut(p, q)
    <3>1. asks' = {[q EXCEPT !.scope = Lowered(@, "screen")] : q \in asks}
      BY <1>6 DEF SwitchMode
    <3>2. asks \subseteq Request /\ "screen" \in Scope
      BY TypedFacts
    <3> QED BY <1>1, <3>1, <3>2, LoweredAsks
  <2>3. /\ answers' \in Seq(Reply) /\ Len(answers') = Len(answers)
        /\ DOMAIN answers' = DOMAIN answers
        /\ \A j \in DOMAIN answers :
             /\ answers'[j].op = answers[j].op
             /\ answers'[j].result = answers[j].result
             /\ answers'[j].who = answers[j].who
    BY <1>6, SwitchedAnswers DEF SwitchMode
  <2>4. Cardinality(asks') + Len(answers') <= MaxAsks
    <3> DEFINE a == Cardinality(asks)
               b == Cardinality(asks')
               l == Len(answers)
    <3>1. a \in Nat /\ b \in Nat /\ b <= a /\ l \in Nat /\ MaxAsks \in Nat
          /\ a + l <= MaxAsks
      BY <1>1, <2>2, TypedFacts, FS_CardinalityType DEF CookieTypeOK
    <3> HIDE DEF a, b, l
    <3>2. b + l <= MaxAsks
      BY <3>1
    <3> QED BY <2>3, <3>2 DEF b, l
  <2>5. Known'
    BY <1>1, <2>1, <2>2, <2>3 DEF Known, SameBut
  <2>6. CookieTypeOK' /\ SessionTypeOK'
    BY <1>1, <2>1, <2>2, <2>3, <2>4 DEF CookieTypeOK, SessionTypeOK
  <2> QED BY <1>3, <2>2, <2>5, <2>6 DEF Typed, TypeOK
<1>7. ASSUME SubmitLogin PROVE Typed'
  <2>1. PICK t \in Name \cup Email : Submit("login", SignInForm(t))
    BY <1>7 DEF SubmitLogin
  <2>2. SignInForm(t) \in Form
    BY SignInForms
  <2> QED BY <1>5, <2>1, <2>2
<1>8. ASSUME SubmitRegister PROVE Typed'
  <2>1. PICK f \in SignUps : Submit("register", f)
    BY <1>8 DEF SubmitRegister
  <2>2. f \in Form
    BY <2>1, CookieAssumption DEF Form
  <2> QED BY <1>5, <2>1, <2>2
<1>9. ASSUME NEW i \in DOMAIN answers, MeArrives(i) PROVE Typed'
  BY <1>4, <1>9 DEF MeArrives
<1>10. ASSUME NEW i \in DOMAIN answers, LoginArrives(i) PROVE Typed'
  BY <1>1, <1>4, <1>10 DEF LoginArrives, FreedBusy, SessionTypeOK
<1>11. ASSUME NEW i \in DOMAIN answers, RegisterArrives(i) PROVE Typed'
  BY <1>1, <1>4, <1>11 DEF RegisterArrives, FreedBusy, SessionTypeOK
<1>12. ASSUME NEW i \in DOMAIN answers, LogoutArrives(i) PROVE Typed'
  BY <1>1, <1>4, <1>12 DEF LogoutArrives, SessionTypeOK
<1> QED BY <1>6, <1>7, <1>8, <1>9, <1>10, <1>11, <1>12 DEF SessionStep

\* What a second save does to the history of the first.
LEMMA MarkedFacts ==
  ASSUME asks \subseteq Request, IsFiniteSet(asks)
  PROVE  /\ Marked \subseteq Request
         /\ IsFiniteSet(Marked) /\ Cardinality(Marked) \in Nat
         /\ Cardinality(Marked) <= Cardinality(asks)
         /\ \A p \in Marked :
              /\ p.op = "save" => p.unsure
              /\ \E q \in asks : /\ p.op = q.op /\ p.as = q.as
                                /\ p.form = q.form /\ p.scope = q.scope
         /\ \A q \in asks : \E p \in Marked :
              p.op = q.op /\ p.as = q.as /\ p.scope = q.scope
<1> DEFINE E(q) == IF q.op = "save"
                   THEN [q EXCEPT !.unsure = TRUE, !.edited = {}] ELSE q
           f == [q \in asks |-> E(q)]
<1>1. \A q \in asks : /\ E(q) \in Request
                      /\ E(q).op = "save" => E(q).unsure
                      /\ E(q).op = q.op /\ E(q).as = q.as
                      /\ E(q).form = q.form /\ E(q).scope = q.scope
  BY DEF Request
<1>2. Marked = {E(q) : q \in asks}
  BY DEF Marked
<1> HIDE DEF E
<1>3. Marked = {f[q] : q \in asks} /\ DOMAIN f = asks
  BY <1>2
<1>4. \A q \in asks : f[q] = E(q)
  OBVIOUS
<1> HIDE DEF f
<1>5. /\ IsFiniteSet(Marked) /\ Cardinality(Marked) \in Nat
      /\ Cardinality(Marked) <= Cardinality(asks)
  BY <1>3, ImageIsSmaller
<1> QED BY <1>1, <1>2, <1>5

\* What handleProfileSave sends is a form again.
LEMMA TrimmedForm ==
  ASSUME dialog.fields \in Form
  PROVE  /\ Trimmed \in Form
         /\ \A x \in {"name", "email"} : Trimmed[x] = Trim[dialog.fields[x]]
<1> DEFINE n == Trim[dialog.fields.name]
           e == Trim[dialog.fields.email]
<1>1. /\ dialog.fields.name \in Name \cup {Blank}
      /\ dialog.fields.email \in Email \cup {Blank}
  BY DEF Form
<1>2. n \in Name \cup {Blank} /\ e \in Email \cup {Blank}
  BY <1>1, TrimAssumption
<1>3. Trimmed = [name |-> n, email |-> e]
  BY DEF Trimmed
<1> HIDE DEF n, e
<1>4. Trimmed \in Form
  BY <1>2, <1>3 DEF Form
<1> QED BY <1>4 DEF Trimmed

\* handleProfileSave up to its await.
LEMMA SaveFacts ==
  ASSUME Typed, Save
  PROVE  /\ Ready /\ dialog' = [dialog EXCEPT !.busy = TRUE]
         /\ users' = users /\ nextUser' = nextUser /\ cookie' = cookie
         /\ answers' = answers /\ setBy' = setBy /\ drift' = drift
         /\ Cardinality(asks) + Len(answers) < MaxAsks
         /\ \E pw \in BOOLEAN : /\ asks' = Marked \cup {Saving(pw)}
                                /\ Saving(pw) \in Request
<1>1. cookie \in 0 .. MaxUsers /\ dialog.fields \in Form
  <2>1. /\ cookie \in 0 .. nextUser - 1 /\ nextUser \in 1 .. MaxUsers + 1
        /\ MaxUsers \in Nat
    BY TypedFacts DEF Typed, TypeOK, CookieTypeOK
  <2> QED BY <2>1 DEF Typed, TypeOK, ProfileTypeOK
<1>2. PICK pw \in BOOLEAN : asks' = Marked \cup {Saving(pw)}
  BY DEF Save
<1>3. Saving(pw) \in Request
  BY <1>1, TrimmedForm DEF Saving, Request, Op, Scope, Edited, Unsure
<1> QED BY <1>2, <1>3 DEF Save, serverVars, CanSend

\* The rest of handleDeleteAccount: the request it sends is a logout of App's.
LEMMA DeleteFacts ==
  ASSUME Typed, NEW i \in DOMAIN answers, DeleteArrives(i)
  PROVE  /\ answers[i].op = "delete"
         /\ dialog' = IF answers[i].scope = "form"
                      THEN [dialog EXCEPT !.busy = FALSE] ELSE dialog
         /\ drift' = drift
         /\ \E more \in SUBSET Request :
              /\ Arrive(i, "form", more)
              /\ more = {} \/ \E m : more = {m}
              /\ \A m \in more : m.op = "logout" /\ m.as = 0 /\ m.scope = "app"
<1> DEFINE q == Ask("logout", NoForm, "app")
           m == [q EXCEPT !.as = 0]
           more == IF answers[i].result = "ok" THEN {m} ELSE {}
<1>1. Arrive(i, "form", more)
  BY DEF DeleteArrives
<1>2. q \in Request /\ q.op = "logout" /\ q.scope = "app"
  BY TypedFacts, AskTypes DEF Op, Scope
<1>3. 0 \in 0 .. MaxUsers
  BY CookieAssumption
<1> HIDE DEF q
<1>4. m \in Request /\ m.op = "logout" /\ m.as = 0 /\ m.scope = "app"
  BY <1>2, <1>3 DEF Request
<1> HIDE DEF m
<1>5. /\ more \in SUBSET Request /\ (more = {} \/ \E x : more = {x})
      /\ \A x \in more : x.op = "logout" /\ x.as = 0 /\ x.scope = "app"
  BY <1>4
<1> HIDE DEF more
<1> QED BY <1>1, <1>5 DEF DeleteArrives

\* The steps of the dialog keep the types.
LEMMA ProfileTypes ==
  ASSUME Typed, ProfileStep, UNCHANGED sessionVars
  PROVE  Typed'
<1>1. /\ SessionTypeOK /\ ProfileTypeOK /\ CookieTypeOK /\ Known
      /\ IsFiniteSet(asks) /\ {} \in SUBSET Request /\ NoForm \in Form
      /\ nextUser \in 1 .. MaxUsers + 1 /\ MaxUsers \in Nat
      /\ asks \subseteq Request
      /\ \A i \in DOMAIN answers :
           /\ answers[i] \in Reply /\ answers[i].who \in 0 .. nextUser - 1
           /\ answers[i].row \in Form
  BY TypedFacts DEF Typed, TypeOK, Reply
<1>2. user' = user /\ mode' = mode /\ busy' = busy /\ kept' = kept
  BY DEF sessionVars
<1>3. ASSUME CookieTypeOK', IsFiniteSet(asks'), Known', nextUser' = nextUser,
             ProfileTypeOK'
      PROVE  Typed'
  <2>1. SessionTypeOK'
    BY <1>1, <1>2, <1>3 DEF SessionTypeOK
  <2> QED BY <1>3, <2>1 DEF Typed, TypeOK
<1>4. ASSUME NEW op \in {"get", "delete", "logout"}, NEW scope \in Scope,
             Send(Ask(op, NoForm, scope)), ProfileTypeOK'
      PROVE  Typed'
  <2>1. /\ Ask(op, NoForm, scope) \in Request
        /\ Ask(op, NoForm, scope).op = op
        /\ Ask(op, NoForm, scope).as \in 0 .. nextUser - 1
    BY <1>1, AskTypes DEF Op
  <2>2. /\ CookieTypeOK' /\ IsFiniteSet(asks') /\ Known'
        /\ nextUser' = nextUser
    BY <1>4, <2>1, SendTypes
  <2> QED BY <1>3, <1>4, <2>2
<1>5. ASSUME NEW i \in DOMAIN answers, NEW more \in SUBSET Request,
             more = {} \/ \E m : more = {m},
             \A m \in more : m.as \in 0 .. nextUser - 1 /\ m.op # "register",
             Arrive(i, "form", more), ProfileTypeOK'
      PROVE  Typed'
  <2>1. /\ CookieTypeOK' /\ IsFiniteSet(asks') /\ Known'
        /\ nextUser' = nextUser
    BY <1>5, ArriveTypes DEF Scope
  <2> QED BY <1>3, <1>5, <2>1
<1>6. ASSUME UNCHANGED cookieVars, ProfileTypeOK' PROVE Typed'
  <2>1. /\ users' = users /\ nextUser' = nextUser /\ cookie' = cookie
        /\ asks' = asks /\ answers' = answers /\ setBy' = setBy
    BY <1>6 DEF cookieVars, serverVars
  <2>2. CookieTypeOK' /\ IsFiniteSet(asks') /\ Known'
    BY <1>1, <2>1 DEF CookieTypeOK, Known
  <2> QED BY <1>3, <1>6, <2>1, <2>2
<1>7. ASSUME OpenProfile PROVE Typed'
  <2>1. ProfileTypeOK'
    BY <1>1, <1>7 DEF OpenProfile, ProfileTypeOK
  <2> QED BY <1>4, <1>7, <2>1 DEF OpenProfile, Scope
<1>8. ASSUME CloseProfile PROVE Typed'
  <2>1. ProfileTypeOK'
    BY <1>1, <1>8 DEF CloseProfile, ProfileTypeOK
  <2> QED BY <1>6, <1>8, <2>1 DEF CloseProfile
<1>9. ASSUME Type PROVE Typed'
  <2>1. ProfileTypeOK'
    BY <1>1, <1>9, CookieAssumption DEF Type, ProfileTypeOK, Form
  <2> QED BY <1>6, <1>9, <2>1 DEF Type
<1>10. ASSUME Save PROVE Typed'
  <2>1. /\ dialog' = [dialog EXCEPT !.busy = TRUE] /\ drift' = drift
        /\ users' = users /\ nextUser' = nextUser /\ cookie' = cookie
        /\ answers' = answers /\ setBy' = setBy
        /\ Cardinality(asks) + Len(answers) < MaxAsks
    BY <1>10, SaveFacts
  <2>2. PICK pw \in BOOLEAN :
          asks' = Marked \cup {Saving(pw)} /\ Saving(pw) \in Request
    BY <1>10, SaveFacts
  <2>3. /\ Marked \subseteq Request
        /\ IsFiniteSet(Marked) /\ Cardinality(Marked) \in Nat
        /\ Cardinality(Marked) <= Cardinality(asks)
        /\ \A p \in Marked : \E q \in asks :
             p.op = q.op /\ p.as = q.as /\ p.form = q.form
    BY <1>1, MarkedFacts
  <2> DEFINE a == Cardinality(asks)
             b == Cardinality(Marked)
             c == Cardinality(asks')
             l == Len(answers)
  <2>4. /\ IsFiniteSet(asks') /\ (c = b \/ c = b + 1)
    BY <2>2, <2>3, FS_AddElement
  <2>5. a \in Nat /\ b \in Nat /\ l \in Nat /\ b <= a /\ a + l < MaxAsks
        /\ MaxAsks \in Nat
    BY <1>1, <2>1, <2>3, TypedFacts, FS_CardinalityType
  <2>6. c + l <= MaxAsks
    <3> HIDE DEF a, b, c, l
    <3> QED BY ONLY <2>4, <2>5
  <2>7. CookieTypeOK'
    BY <1>1, <2>1, <2>2, <2>3, <2>6 DEF CookieTypeOK
  <2>8. Known'
    <3>1. Saving(pw).op = "save" /\ Saving(pw).as \in 0 .. nextUser - 1
      BY <1>1 DEF Saving, CookieTypeOK
    <3> QED BY <1>1, <2>1, <2>2, <2>3, <3>1 DEF Known
  <2>9. ProfileTypeOK'
    BY <1>1, <2>1 DEF ProfileTypeOK
  <2> QED BY <1>3, <2>1, <2>4, <2>7, <2>8, <2>9
<1>11. ASSUME DeleteAccount PROVE Typed'
  <2>1. ProfileTypeOK'
    BY <1>1, <1>11 DEF DeleteAccount, ProfileTypeOK
  <2> QED BY <1>4, <1>11, <2>1 DEF DeleteAccount, Scope
<1>12. ASSUME PressLogout PROVE Typed'
  <2>1. ProfileTypeOK'
    BY <1>1, <1>12 DEF PressLogout, ProfileTypeOK, dialogVars
  <2> QED BY <1>4, <1>12, <2>1 DEF PressLogout, Scope
<1>13. ASSUME NEW i \in DOMAIN answers, GetArrives(i) PROVE Typed'
  <2>1. ProfileTypeOK'
    BY <1>1, <1>13 DEF GetArrives, Filled, ProfileTypeOK, dialogVars, Reply
  <2> QED BY <1>1, <1>5, <1>13, <2>1 DEF GetArrives
<1>14. ASSUME NEW i \in DOMAIN answers, SaveArrives(i) PROVE Typed'
  <2>1. ProfileTypeOK'
    BY <1>1, <1>14 DEF SaveArrives, Filled, ProfileTypeOK, Reply
  <2> QED BY <1>1, <1>5, <1>14, <2>1 DEF SaveArrives
<1>15. ASSUME NEW i \in DOMAIN answers, DeleteArrives(i) PROVE Typed'
  <2>1. ProfileTypeOK'
    BY <1>1, <1>15 DEF DeleteArrives, ProfileTypeOK
  <2>2. PICK more \in SUBSET Request :
          /\ Arrive(i, "form", more)
          /\ more = {} \/ \E m : more = {m}
          /\ \A m \in more : m.op = "logout" /\ m.as = 0
    BY <1>15, DeleteFacts
  <2>3. 0 \in 0 .. nextUser - 1
    BY <1>1
  <2> QED BY <1>5, <2>1, <2>2, <2>3
<1> QED BY <1>7, <1>8, <1>9, <1>10, <1>11, <1>12, <1>13, <1>14, <1>15
        DEF ProfileStep

\* Typed holds when the page is loaded, which sends the first request itself.
LEMMA InitTyped == Init => Typed
<1> SUFFICES ASSUME Init PROVE Typed
  OBVIOUS
<1> DEFINE q == [op |-> "me", as |-> cookie, form |-> NoForm, pw |-> FALSE,
                 scope |-> "app", edited |-> {}, unsure |-> FALSE]
<1>1. /\ MaxUsers \in Nat \ {0} /\ MaxAsks \in Nat \ {0}
      /\ NoForm \in Form
  BY CookieAssumption DEF NoForm, Form
<1>2. /\ nextUser \in 1 .. MaxUsers + 1
      /\ DOMAIN users \subseteq 1 .. nextUser - 1
      /\ \A u \in DOMAIN users : users[u] \in Row
  <2>1. CASE users = [u \in {} |-> NoForm] /\ nextUser = 1
    BY <1>1, <2>1
  <2>2. ASSUME NEW r \in SignUps, users = [u \in {1} |-> r], nextUser = 2
        PROVE  /\ nextUser \in 1 .. MaxUsers + 1
               /\ DOMAIN users \subseteq 1 .. nextUser - 1
               /\ \A u \in DOMAIN users : users[u] \in Row
    BY <1>1, <2>2, CookieAssumption DEF Row
  <2> QED BY <2>1, <2>2 DEF Init
<1>3. cookie \in 0 .. nextUser - 1 /\ 0 \in 0 .. nextUser - 1
      /\ cookie \in 0 .. MaxUsers
  BY <1>1, <1>2 DEF Init
<1>4. asks = {q} /\ answers = <<>> /\ q \in Request
  BY <1>1, <1>3 DEF Init, Ask, Request, Op, Scope
<1> HIDE DEF q
<1>5. IsFiniteSet(asks) /\ Cardinality(asks) = 1
  BY <1>4, FS_Singleton
<1>6. answers \in Seq(Reply) /\ Len(answers) = 0 /\ DOMAIN answers = {}
  BY <1>4, EmptySeq
<1>7. CookieTypeOK
  BY <1>1, <1>2, <1>3, <1>4, <1>5, <1>6 DEF Init, CookieTypeOK
<1>8. SessionTypeOK /\ ProfileTypeOK
  BY <1>1, <1>3 DEF Init, SessionTypeOK, ProfileTypeOK, Closed
<1>9. Known
  BY <1>3, <1>4, <1>6 DEF Known, q
<1> QED BY <1>5, <1>7, <1>8, <1>9 DEF Typed, TypeOK

\* Every step keeps it.
LEMMA StepTyped == Typed /\ [Next]_vars => Typed'
<1> SUFFICES ASSUME Typed, [Next]_vars PROVE Typed'
  OBVIOUS
<1>1. CASE ServerStep /\ UNCHANGED <<sessionVars, dialogVars>>
  BY <1>1, ServerTypes
<1>2. CASE SessionStep /\ Remount
  BY <1>2, SessionTypes
<1>3. CASE ProfileStep /\ UNCHANGED sessionVars
  BY <1>3, ProfileTypes
<1>4. CASE UNCHANGED vars
  BY <1>4 DEF vars, cookieVars, serverVars, sessionVars, dialogVars, Typed,
              TypeOK, CookieTypeOK, SessionTypeOK, ProfileTypeOK, Known
<1> QED BY <1>1, <1>2, <1>3, <1>4 DEF Next

\* TypeOK: in particular no more than MaxAsks requests are ever under way and
\* the cookie is one of an account that was made.
THEOREM TypeInvariant == Spec => []TypeOK
<1>1. Typed => TypeOK
  BY DEF Typed
<1> QED BY <1>1, InitTyped, StepTyped, PTL DEF Spec

-----------------------------------------------------------------------------
(***************************************************************************)
(* The accounts.                                                           *)
(***************************************************************************)

\* What the page does by itself changes no account.
LEMMA PageLeavesAccounts ==
  SessionStep \/ ProfileStep => users' = users /\ nextUser' = nextUser
<1>1. \A i, to, more : Arrive(i, to, more) => UNCHANGED serverVars
  BY DEF Arrive
<1>2. \A q : Send(q) => UNCHANGED serverVars
  BY DEF Send
<1>3. SessionStep => UNCHANGED serverVars
  BY <1>1, <1>2, Zenon
     DEF SessionStep, SwitchMode, SubmitLogin, SubmitRegister, Submit,
         MeArrives, LoginArrives, RegisterArrives, LogoutArrives
<1>4. ProfileStep => UNCHANGED serverVars
  BY <1>1, <1>2, Zenon
     DEF ProfileStep, OpenProfile, CloseProfile, Type, Save, DeleteAccount,
         PressLogout, GetArrives, SaveArrives, DeleteArrives, cookieVars
<1> QED BY <1>3, <1>4 DEF serverVars

\* One account is unique.
LEMMA InitUnique == Init => Unique
BY DEF Init, Unique

\* Register and UpdateMe compare both columns with every other row.
LEMMA StepUnique == Typed /\ Unique /\ [Next]_vars => Unique'
<1> SUFFICES ASSUME Typed, Unique, [Next]_vars PROVE Unique'
  OBVIOUS
<1>1. /\ DOMAIN users \subseteq 1 .. nextUser - 1
      /\ \A u \in DOMAIN users : users[u] \in Row
      /\ asks \subseteq Request /\ nextUser \in Nat
  BY TypedFacts
<1>2. ASSUME users' = users PROVE Unique'
  BY <1>2 DEF Unique
<1>3. ASSUME NEW q \in asks, Register(q) PROVE Unique'
  <2>1. /\ users' = [u \in DOMAIN users \cup {nextUser} |->
                       IF u = nextUser THEN q.form ELSE users[u]]
        /\ Fits(nextUser, q.form) /\ nextUser \notin DOMAIN users
    BY <1>1, <1>3 DEF Register
  <2>2. \A u \in DOMAIN users : /\ users[u].name # q.form.name
                                /\ users[u].email # q.form.email
    BY <2>1 DEF Fits
  <2> QED BY <2>1, <2>2 DEF Unique
<1>4. ASSUME NEW q \in asks, UpdateMe(q) PROVE Unique'
  <2> DEFINE m == Merged(q.as, q.form)
  <2>1. /\ users' = [users EXCEPT ![q.as] = m] /\ q.as \in DOMAIN users
        /\ Fits(q.as, m)
    BY <1>4 DEF UpdateMe
  <2>2. \A u \in DOMAIN users \ {q.as} : /\ users[u].name # m.name
                                         /\ users[u].email # m.email
    BY <2>1 DEF Fits
  <2> HIDE DEF m
  <2> QED BY <2>1, <2>2 DEF Unique
<1>5. ASSUME NEW q \in asks, DeleteMe(q) PROVE Unique'
  <2>1. users' = [u \in DOMAIN users \ {q.as} |-> users[u]]
    BY <1>5 DEF DeleteMe
  <2> QED BY <2>1 DEF Unique
<1>6. CASE ServerStep
  <2>1. ASSUME NEW q \in asks, Me(q) \/ Login(q) \/ Logout(q) \/ Refuse(q)
        PROVE  users' = users
    BY <2>1 DEF Me, Login, Logout, Refuse, serverVars
  <2>2. ASSUME Expire \/ \E i \in DOMAIN answers : Lose(i)
        PROVE  users' = users
    BY <2>2 DEF Expire, Lose, serverVars
  <2> QED BY <1>2, <1>3, <1>4, <1>5, <1>6, <2>1, <2>2 DEF ServerStep
<1>7. CASE SessionStep \/ ProfileStep
  BY <1>2, <1>7, PageLeavesAccounts
<1>8. CASE UNCHANGED vars
  BY <1>2, <1>8 DEF vars, cookieVars, serverVars
<1> QED BY <1>6, <1>7, <1>8 DEF Next

\* TextFindsItsAccount: an account's email with an '@', or its name without
\* one, typed into the login form finds that account and no other, because each
\* is unique in its column and the form sends the one as an email and the other
\* as a name.  Whether its email has an '@' or its name has none is up to
\* whoever registers or updates the account.
THEOREM TextsFindAccounts == Spec => []TextFindsItsAccount
<1>1. Typed /\ Unique => TextFindsItsAccount
  <2> SUFFICES ASSUME Typed, Unique, NEW u \in DOMAIN users
               PROVE  /\ users[u].email \in WithAt =>
                           Found(SignInForm(users[u].email)) = {u}
                      /\ users[u].name \notin WithAt =>
                           Found(SignInForm(users[u].name)) = {u}
    BY DEF TextFindsItsAccount
  <2>1. users[u].email # Blank
    BY TypedFacts, CookieAssumption DEF Row
  <2>2. ASSUME users[u].email \in WithAt
        PROVE  Found(SignInForm(users[u].email)) = {u}
    <3> DEFINE f == SignInForm(users[u].email)
    <3>1. f.email = users[u].email /\ f.email # Blank
      BY <2>1, <2>2 DEF SignInForm, NoForm
    <3> HIDE DEF f
    <3>2. Found(f) = {v \in DOMAIN users : users[v].email = users[u].email}
      BY <3>1 DEF Found
    <3> QED BY <3>2 DEF Unique, f
  <2>3. ASSUME users[u].name \notin WithAt
        PROVE  Found(SignInForm(users[u].name)) = {u}
    <3> DEFINE f == SignInForm(users[u].name)
    <3>1. f.email = Blank /\ f.name = users[u].name
      BY <2>3 DEF SignInForm, NoForm
    <3> HIDE DEF f
    <3>2. Found(f) = {v \in DOMAIN users : users[v].name = users[u].name}
      BY <3>1 DEF Found
    <3> QED BY <3>2 DEF Unique, f
  <2> QED BY <2>2, <2>3
<1> QED BY <1>1, InitTyped, StepTyped, InitUnique, StepUnique, PTL DEF Spec

-----------------------------------------------------------------------------
(***************************************************************************)
(* The screens, the cookie and the buttons.                                *)
(***************************************************************************)

\* All the handlers at once: what each answers, and which row it may change.
LEMMA EachIsServed ==
  ASSUME Typed, NEW q \in asks,
         \/ Me(q) \/ Login(q) \/ Register(q) \/ UpdateMe(q) \/ DeleteMe(q)
         \/ Logout(q) \/ Refuse(q)
  PROVE  \E result \in {"ok", "refused"}, who \in 0 .. MaxUsers, row \in Form :
           /\ Serve(q, result, who, row)
           /\ q.op = "me" /\ result = "ok" => who = q.as
           /\ q.op \in {"get", "save"} /\ result = "ok" => row = users'[who]
           /\ \A u \in DOMAIN users' :
                \/ u = nextUser
                \/ /\ u \in DOMAIN users
                   /\ \/ users'[u] = users[u]
                      \/ q.op = "save" /\ q.as = u /\ who = u
<1>1. /\ nextUser \in 1 .. MaxUsers + 1 /\ MaxUsers \in Nat \ {0}
      /\ DOMAIN users \subseteq 1 .. nextUser - 1
      /\ \A u \in DOMAIN users : users[u] \in Row /\ users[u] \in Form
      /\ NoForm \in Form /\ q \in Request
  BY TypedFacts
<1>2. DOMAIN users \subseteq 0 .. MaxUsers /\ 0 \in 0 .. MaxUsers
  BY <1>1
<1>3. CASE Me(q)
  <2>1. /\ q.as \in DOMAIN users /\ Serve(q, "ok", q.as, users[q.as])
        /\ users' = users
    BY <1>3 DEF Me, serverVars
  <2> QED BY <1>1, <1>2, <2>1
<1>4. CASE Login(q)
  <2>1. q.op = "login" /\ users' = users
    BY <1>4 DEF Login, serverVars
  <2>2. PICK u \in Found(q.form) : Serve(q, "ok", u, NoForm)
    BY <1>4 DEF Login
  <2>3. u \in 0 .. MaxUsers
    BY <1>2 DEF Found
  <2> QED BY <1>1, <2>1, <2>2, <2>3
<1>5. CASE Register(q)
  <2>1. nextUser \in 0 .. MaxUsers
    BY <1>1, <1>5 DEF Register
  <2>2. /\ q.op = "register" /\ Serve(q, "ok", nextUser, NoForm)
        /\ users' = [u \in DOMAIN users \cup {nextUser} |->
                       IF u = nextUser THEN q.form ELSE users[u]]
    BY <1>5 DEF Register
  <2> QED BY <1>1, <2>1, <2>2
<1>6. CASE UpdateMe(q)
  <2> DEFINE m == Merged(q.as, q.form)
  <2>1. /\ q.as \in DOMAIN users /\ Serve(q, "ok", q.as, m) /\ q.op = "save"
        /\ users' = [users EXCEPT ![q.as] = m]
    BY <1>6 DEF UpdateMe
  <2>2. m \in Form
    BY <1>1, <2>1 DEF Merged, Row, Form, Request
  <2> HIDE DEF m
  <2>3. /\ users'[q.as] = m /\ DOMAIN users' = DOMAIN users
        /\ \A u \in DOMAIN users' : users'[u] = users[u] \/ q.as = u
    BY <2>1
  <2> QED BY <1>2, <2>1, <2>2, <2>3
<1>7. CASE DeleteMe(q)
  <2>1. /\ q.op = "delete" /\ Serve(q, "ok", 0, NoForm)
        /\ users' = [u \in DOMAIN users \ {q.as} |-> users[u]]
    BY <1>7 DEF DeleteMe
  <2> QED BY <1>1, <1>2, <2>1
<1>8. CASE Logout(q)
  <2>1. q.op = "logout" /\ Serve(q, "ok", 0, NoForm) /\ users' = users
    BY <1>8 DEF Logout, serverVars
  <2> QED BY <1>1, <1>2, <2>1
<1>9. CASE Refuse(q)
  <2>1. Serve(q, "refused", 0, NoForm) /\ users' = users
    BY <1>9 DEF Refuse, serverVars
  <2> QED BY <1>1, <1>2, <2>1
<1> QED BY <1>3, <1>4, <1>5, <1>6, <1>7, <1>8, <1>9

\* A handler changes what the server has, never what is on show: the request
\* that something waits for has become the answer it waits for.
LEMMA ServedShown ==
  ASSUME Typed, Shown, UNCHANGED <<sessionVars, dialogVars>>, NEW q \in asks,
         \/ Me(q) \/ Login(q) \/ Register(q) \/ UpdateMe(q) \/ DeleteMe(q)
         \/ Logout(q) \/ Refuse(q)
  PROVE  Shown'
<1>1. PICK result \in {"ok", "refused"}, who \in 0 .. MaxUsers, row \in Form :
        /\ Serve(q, result, who, row)
        /\ q.op = "me" /\ result = "ok" => who = q.as
  BY EachIsServed
<1> DEFINE a == [op |-> q.op, result |-> result, who |-> who, row |-> row,
                 scope |-> q.scope, late |-> FALSE]
<1>2. /\ asks' = asks \ {q} /\ answers' \in Seq(Reply)
      /\ Len(answers) \in Nat /\ Len(answers') = Len(answers) + 1
      /\ \A i \in DOMAIN answers : answers'[i] = answers[i]
      /\ answers'[Len(answers')] = a
  BY <1>1, ServeFacts DEF Typed, TypeOK
<1>3. /\ DOMAIN answers = 1 .. Len(answers)
      /\ DOMAIN answers' = 1 .. Len(answers) + 1
  BY <1>2, TypedFacts, LenProperties
<1>4. /\ user' = user /\ mode' = mode /\ busy' = busy /\ kept' = kept
      /\ dialog' = dialog /\ cookie' = cookie /\ setBy' = setBy
  BY <1>1 DEF Serve, sessionVars, dialogVars
<1>5. CookieIsTheUsers' /\ SignedOutMeansNoCookie'
  BY <1>4 DEF Shown, CookieIsTheUsers, SignedOutMeansNoCookie, SignedOut
<1>6. \A ops, s :
        Waits(asks, answers, ops, s) => Waits(asks', answers', ops, s)
  <2> SUFFICES ASSUME NEW ops, NEW s, Waits(asks, answers, ops, s)
               PROVE  Waits(asks', answers', ops, s)
    OBVIOUS
  <2>1. /\ Len(answers') \in DOMAIN answers'
        /\ DOMAIN answers \subseteq DOMAIN answers'
    BY <1>2, <1>3
  <2>2. /\ answers'[Len(answers')].op = q.op
        /\ answers'[Len(answers')].scope = q.scope
    BY <1>2
  <2> QED BY <1>2, <2>1, <2>2 DEF Waits
<1>7. Waiting'
  BY <1>4, <1>6 DEF Waiting, Shown
<1>8. ASSUME mode # "blank"
      PROVE  /\ \A p \in asks' : p.op # "me"
             /\ \A i \in DOMAIN answers' : answers'[i].op # "me"
  <2>1. \A i \in DOMAIN answers' : i \in DOMAIN answers \/ i = Len(answers')
    BY <1>2, <1>3
  <2>2. q.op # "me" /\ a.op = q.op
    BY <1>8 DEF Shown, Screens
  <2> QED BY <1>2, <1>8, <2>1, <2>2 DEF Shown, Screens
<1>9. ASSUME mode = "blank" PROVE OnlyMe'
  <2>1. OnlyMe
    BY <1>9 DEF Shown, Screens
  <2>2. /\ answers = <<>> /\ asks = {q} /\ q.op = "me" /\ q.scope = "app"
        /\ q.as = cookie \/ (cookie = 0 /\ setBy = "end")
    BY <2>1 DEF OnlyMe
  <2>3. DOMAIN answers' = {1} /\ asks' = {} /\ Len(answers') = 1
    <3>1. Len(answers) = 0
      BY <2>2
    <3> QED BY <1>2, <1>3, <2>2, <3>1
  <2>4. answers'[1].op = "me" /\ answers'[1].scope = "app"
        /\ answers'[1].result = result /\ answers'[1].who = who
    BY <1>2, <2>2, <2>3
  <2> QED BY <1>1, <1>4, <2>2, <2>3, <2>4 DEF OnlyMe
<1>10. Screens'
  BY <1>4, <1>8, <1>9 DEF Screens, Shown
<1>11. \A ops, s :
         Waits(asks', answers', ops, s) => Waits(asks, answers, ops, s)
  <2> SUFFICES ASSUME NEW ops, NEW s, Waits(asks', answers', ops, s)
               PROVE  Waits(asks, answers, ops, s)
    OBVIOUS
  <2>1. \A i \in DOMAIN answers' : i \in DOMAIN answers \/ i = Len(answers')
    BY <1>2, <1>3
  <2>2. /\ answers'[Len(answers')].op = q.op
        /\ answers'[Len(answers')].scope = q.scope
    BY <1>2
  <2> QED BY <1>2, <2>1, <2>2 DEF Waits
<1>12. DialogGone'
  BY <1>4, <1>11 DEF DialogGone, Shown
<1> QED BY <1>5, <1>7, <1>10, <1>12 DEF Shown

\* The same for a lost answer and an expired cookie.
LEMMA ServerShown ==
  ASSUME Typed, Shown, ServerStep, UNCHANGED <<sessionVars, dialogVars>>
  PROVE  Shown'
<1>1. /\ user' = user /\ mode' = mode /\ busy' = busy /\ kept' = kept
      /\ dialog' = dialog
  BY DEF sessionVars, dialogVars
<1>2. ASSUME NEW i \in DOMAIN answers, Lose(i) PROVE Shown'
  <2>1. /\ asks' = asks /\ cookie' = cookie /\ setBy' = setBy
        /\ answers[i].op \in {"register", "save", "delete"}
        /\ DOMAIN answers' = DOMAIN answers
        /\ \A j \in DOMAIN answers :
             /\ answers'[j].op = answers[j].op
             /\ answers'[j].scope = answers[j].scope
             /\ j # i => answers'[j] = answers[j]
    BY <1>2, LoseFacts
  <2>2. CookieIsTheUsers' /\ SignedOutMeansNoCookie'
    BY <1>1, <2>1
       DEF Shown, CookieIsTheUsers, SignedOutMeansNoCookie, SignedOut
  <2>3. \A ops, s :
          Waits(asks, answers, ops, s) <=> Waits(asks', answers', ops, s)
    BY <2>1 DEF Waits
  <2>4. Waiting' /\ DialogGone'
    BY <1>1, <2>3 DEF Waiting, DialogGone, Shown
  <2>5. mode # "blank"
    BY <2>1 DEF Shown, Screens, OnlyMe
  <2>6. Screens'
    BY <1>1, <2>1, <2>5 DEF Screens, Shown
  <2> QED BY <2>2, <2>4, <2>6 DEF Shown
<1>3. ASSUME Expire PROVE Shown'
  <2>1. asks' = asks /\ answers' = answers /\ cookie' = 0 /\ setBy' = "end"
    BY <1>3 DEF Expire
  <2>2. CookieIsTheUsers' /\ SignedOutMeansNoCookie'
    BY <1>1, <2>1 DEF CookieIsTheUsers, SignedOutMeansNoCookie
  <2>3. Waiting' /\ DialogGone'
    BY <1>1, <2>1 DEF Waiting, DialogGone, Shown
  <2>4. OnlyMe => OnlyMe'
    BY <2>1 DEF OnlyMe
  <2>5. Screens'
    BY <1>1, <2>1, <2>4 DEF Screens, Shown
  <2> QED BY <2>2, <2>3, <2>5 DEF Shown
<1> QED BY <1>2, <1>3, ServedShown DEF ServerStep

\* What the arrival of an answer leaves under way.
LEMMA ArriveLeaves ==
  ASSUME Typed, NEW i \in DOMAIN answers, NEW to \in Scope,
         NEW more \in SUBSET Request, more = {} \/ \E m : more = {m},
         \A m \in more : m.op # "me", Arrive(i, to, more)
  PROVE  /\ (/\ \A q \in asks : q.op # "me"
             /\ \A k \in DOMAIN answers : k # i => answers[k].op # "me")
            => /\ \A q \in asks' : q.op # "me"
               /\ \A j \in DOMAIN answers' : answers'[j].op # "me"
         /\ to = "form" =>
              \A ops, s :
                /\ Waits(asks, answers, ops, s)
                /\ ~(answers[i].op \in ops /\ answers[i].scope = s)
                => Waits(asks', answers', ops, s)
         /\ \A ops :
              Waits(asks', answers', ops, "form") =>
                \/ \E m \in more : m.scope = "form"
                \/ to = "form" /\ Waits(asks, answers, ops, "form")
<1>1. CookieTypeOK /\ IsFiniteSet(asks)
  BY DEF Typed, TypeOK
<1>2. /\ \A p \in asks' : p \in more \/ \E q \in asks :
           SameBut(p, q) /\ p.scope = Lowered(q.scope, to)
      /\ \A q \in asks : \E p \in asks' :
           SameBut(p, q) /\ p.scope = Lowered(q.scope, to)
      /\ \A j \in DOMAIN answers' :
           /\ Was(j, i) \in DOMAIN answers /\ Was(j, i) # i
           /\ answers'[j].op = answers[Was(j, i)].op
           /\ answers'[j].scope = Lowered(answers[Was(j, i)].scope, to)
      /\ \A k \in DOMAIN answers \ {i} :
           \E j \in DOMAIN answers' : k = Was(j, i)
  BY <1>1, ArriveFacts, Zenon
<1>3. ASSUME \A q \in asks : q.op # "me",
             \A k \in DOMAIN answers : k # i => answers[k].op # "me"
      PROVE  /\ \A q \in asks' : q.op # "me"
             /\ \A j \in DOMAIN answers' : answers'[j].op # "me"
  <2>1. \A q \in asks' : q.op # "me"
    BY <1>2, <1>3 DEF SameBut
  <2>2. \A j \in DOMAIN answers' : answers'[j].op # "me"
    BY <1>2, <1>3
  <2> QED BY <2>1, <2>2
<1>4. ASSUME to = "form", NEW ops, NEW s, Waits(asks, answers, ops, s),
             ~(answers[i].op \in ops /\ answers[i].scope = s)
      PROVE  Waits(asks', answers', ops, s)
  <2>1. \A l : Lowered(l, to) = l
    BY <1>4 DEF Lowered
  <2>2. ASSUME NEW q \in asks, q.op \in ops, q.scope = s
        PROVE  Waits(asks', answers', ops, s)
    <3>1. PICK p \in asks' : SameBut(p, q) /\ p.scope = Lowered(q.scope, to)
      BY <1>2
    <3>2. p.op \in ops /\ p.scope = s
      BY <2>1, <2>2, <3>1 DEF SameBut
    <3> QED BY <3>2 DEF Waits
  <2>3. ASSUME NEW k \in DOMAIN answers, answers[k].op \in ops,
               answers[k].scope = s
        PROVE  Waits(asks', answers', ops, s)
    <3>1. k # i
      BY <1>4, <2>3
    <3>2. PICK j \in DOMAIN answers' : k = Was(j, i)
      BY <1>2, <3>1
    <3>3. answers'[j].op \in ops /\ answers'[j].scope = s
      BY <1>2, <2>1, <2>3, <3>2
    <3> QED BY <3>3 DEF Waits
  <2> QED BY <1>4, <2>2, <2>3 DEF Waits
<1>5. ASSUME NEW ops, Waits(asks', answers', ops, "form")
      PROVE  \/ \E m \in more : m.scope = "form"
             \/ to = "form" /\ Waits(asks, answers, ops, "form")
  <2>1. \A l : Lowered(l, to) = "form" => l = "form" /\ to = "form"
    BY DEF Lowered
  <2>2. ASSUME NEW p \in asks', p.op \in ops, p.scope = "form", p \notin more
        PROVE  to = "form" /\ Waits(asks, answers, ops, "form")
    <3>1. PICK q \in asks : SameBut(p, q) /\ p.scope = Lowered(q.scope, to)
      BY <1>2, <2>2
    <3> QED BY <2>1, <2>2, <3>1 DEF SameBut, Waits
  <2>3. ASSUME NEW j \in DOMAIN answers', answers'[j].op \in ops,
               answers'[j].scope = "form"
        PROVE  to = "form" /\ Waits(asks, answers, ops, "form")
    <3> DEFINE k == Was(j, i)
    <3>1. /\ k \in DOMAIN answers /\ answers[k].op \in ops
          /\ Lowered(answers[k].scope, to) = "form"
      BY <1>2, <2>3
    <3> HIDE DEF k
    <3> QED BY <2>1, <3>1 DEF Waits
  <2> QED BY <1>5, <2>2, <2>3 DEF Waits
<1> QED BY <1>3, <1>4, <1>5

\* Whichever screen an answer leads to, nothing on it waits in vain, and the
\* cookie is that of the user on it or one that the invariant excepts.
LEMMA SessionShown ==
  ASSUME Typed, Shown, SessionStep, Remount
  PROVE  Shown'
<1>1. /\ {} \in SUBSET Request /\ asks \subseteq Request /\ IsFiniteSet(asks)
      /\ "form" \in Scope /\ "screen" \in Scope /\ "app" \in Scope
      /\ user \in Nat /\ busy \in BOOLEAN /\ mode # "logout"
      /\ \A i \in DOMAIN answers :
           /\ answers[i].who \in Nat
           /\ answers[i].result = "ok" =>
                (answers[i].who = 0 <=> answers[i].op \in {"delete", "logout"})
  BY TypedFacts DEF Typed, TypeOK, SessionTypeOK, Known, Scope
<1>2. /\ user = 0 \/ user' = 0 => dialog' = Closed
      /\ ~(user = 0 \/ user' = 0) => dialog' = dialog
  BY DEF Remount
<1>3. Closed.busy = FALSE
  BY DEF Closed
\* No answer but that of fetchMe comes to a page that is loading.
<1>4. ASSUME NEW i \in DOMAIN answers, answers[i].op # "me"
      PROVE  mode # "blank"
  BY <1>4 DEF Shown, Screens, OnlyMe
<1>5. ASSUME NEW m \in {"login", "register"}, SwitchMode(m) PROVE Shown'
  <2>1. /\ cookie' = cookie /\ setBy' = setBy /\ user' = user /\ kept' = kept
        /\ mode' = m /\ busy' = FALSE /\ user = 0 /\ mode # "blank"
    BY <1>5 DEF SwitchMode, SignedOut
  <2>2. \A p \in asks' : \E q \in asks :
          SameBut(p, q) /\ p.scope = Lowered(q.scope, "screen")
    <3>1. asks' = {[q EXCEPT !.scope = Lowered(@, "screen")] : q \in asks}
      BY <1>5 DEF SwitchMode
    <3> QED BY <1>1, <3>1, LoweredAsks
  <2>3. /\ DOMAIN answers' = DOMAIN answers
        /\ \A j \in DOMAIN answers :
             /\ answers'[j].op = answers[j].op
             /\ answers'[j].scope = Lowered(answers[j].scope, "screen")
    BY <1>5, SwitchedAnswers DEF SwitchMode
  <2>4. Screens'
    <3>1. \A q \in asks' : q.op # "me"
      BY <2>1, <2>2 DEF Shown, Screens, SameBut
    <3>2. \A j \in DOMAIN answers' : answers'[j].op # "me"
      BY <2>1, <2>3 DEF Shown, Screens
    <3> QED BY <1>2, <2>1, <3>1, <3>2 DEF Screens
  <2>5. CookieIsTheUsers' /\ SignedOutMeansNoCookie'
    BY <2>1 DEF Shown, CookieIsTheUsers, SignedOutMeansNoCookie, SignedOut
  <2>6. Waiting'
    BY <1>2, <1>3, <2>1 DEF Waiting
  <2>7. DialogGone'
    <3>1. \A l : Lowered(l, "screen") # "form"
      BY DEF Lowered
    <3> QED BY <2>2, <2>3, <3>1 DEF DialogGone, Waits
  <2> QED BY <2>4, <2>5, <2>6, <2>7 DEF Shown
<1>6. ASSUME NEW m \in {"login", "register"}, NEW f \in Form, Submit(m, f)
      PROVE  Shown'
  <2> DEFINE a == Ask(m, f, "form")
  <2>1. a.op = m /\ a.scope = "form"
    BY <1>1, AskTypes DEF Op
  <2>2. /\ cookie' = cookie /\ setBy' = setBy /\ user' = user /\ kept' = kept
        /\ mode' = mode /\ mode = m /\ busy' = TRUE /\ user = 0
        /\ answers' = answers /\ asks' = asks \cup {a} /\ mode # "blank"
    BY <1>6 DEF Submit, FormReady, SignedOut, Send
  <2> HIDE DEF a
  <2>3. Screens'
    BY <1>2, <2>1, <2>2 DEF Shown, Screens
  <2>4. CookieIsTheUsers' /\ SignedOutMeansNoCookie'
    BY <2>2 DEF Shown, CookieIsTheUsers, SignedOutMeansNoCookie, SignedOut
  <2>5. Waits(asks', answers', {m}, "form")
    BY <2>1, <2>2 DEF Waits
  <2>6. Waiting'
    BY <1>2, <1>3, <2>2, <2>5 DEF Waiting
  <2>7. DialogGone'
    BY <2>1, <2>2 DEF DialogGone, Waits, Shown
  <2> QED BY <2>3, <2>4, <2>6, <2>7 DEF Shown
<1>7. ASSUME SubmitLogin \/ SubmitRegister PROVE Shown'
  <2>1. CASE SubmitLogin
    <3>1. PICK t \in Name \cup Email : Submit("login", SignInForm(t))
      BY <2>1 DEF SubmitLogin
    <3>2. SignInForm(t) \in Form
      BY SignInForms
    <3> QED BY <1>6, <3>1, <3>2
  <2>2. CASE SubmitRegister
    <3>1. PICK f \in SignUps : Submit("register", f)
      BY <2>2 DEF SubmitRegister
    <3>2. f \in Form
      BY <3>1, CookieAssumption DEF Form
    <3> QED BY <1>6, <3>1, <3>2
  <2> QED BY <1>7, <2>1, <2>2
<1>8. ASSUME NEW i \in DOMAIN answers, NEW to \in Scope, Arrive(i, to, {}),
             to = "form" => user = 0 \/ user' # 0
      PROVE  DialogGone'
  <2>1. \A ops : Waits(asks', answers', ops, "form") =>
                 to = "form" /\ Waits(asks, answers, ops, "form")
    BY <1>1, <1>8, ArriveLeaves
  <2> QED BY <1>8, <2>1 DEF DialogGone, Shown
<1>9. ASSUME NEW i \in DOMAIN answers, MeArrives(i) PROVE Shown'
  <2> DEFINE a == answers[i]
  <2>1. /\ a.op = "me" /\ Arrive(i, "app", {}) /\ mode' = "login"
        /\ user' = (IF a.result = "ok" THEN a.who ELSE 0)
        /\ kept' = (a.result # "ok") /\ busy' = busy
    BY <1>9 DEF MeArrives
  <2>2. mode = "blank" /\ user = 0 /\ busy = FALSE /\ OnlyMe
    BY <2>1 DEF Shown, Screens
  <2>3. /\ asks = {} /\ i = 1 /\ DOMAIN answers = {1}
        /\ a.result = "ok" => a.who = cookie \/ (cookie = 0 /\ setBy = "end")
    BY <2>2 DEF OnlyMe
  <2>4. cookie' = cookie /\ setBy' = setBy
    BY <2>1 DEF Arrive, SetsCookie
  <2>5. /\ \A q \in asks' : q.op # "me"
        /\ \A j \in DOMAIN answers' : answers'[j].op # "me"
    BY <1>1, <2>1, <2>3, ArriveLeaves
  <2>6. Screens'
    BY <1>2, <2>1, <2>2, <2>5 DEF Screens
  <2>7. CookieIsTheUsers' /\ SignedOutMeansNoCookie'
    BY <1>1, <2>1, <2>3, <2>4
       DEF CookieIsTheUsers, SignedOutMeansNoCookie, SignedOut
  <2>8. Waiting'
    BY <1>2, <1>3, <2>1, <2>2 DEF Waiting
  <2>9. DialogGone'
    BY <1>1, <1>8, <2>1
  <2> QED BY <2>6, <2>7, <2>8, <2>9 DEF Shown
<1>10. ASSUME NEW i \in DOMAIN answers, LoginArrives(i) PROVE Shown'
  <2> DEFINE a == answers[i]
             to == IF a.result = "ok" /\ user = 0 THEN "app" ELSE "form"
  <2>1. a.op = "login" /\ mode # "blank"
    BY <1>4, <1>10 DEF LoginArrives
  <2>2. Arrive(i, to, {}) /\ to \in Scope
    BY <1>1, <1>10 DEF LoginArrives
  <2>3. /\ \A q \in asks' : q.op # "me"
        /\ \A j \in DOMAIN answers' : answers'[j].op # "me"
        /\ to = "form" =>
             \A ops, s : /\ Waits(asks, answers, ops, s)
                        /\ ~(a.op \in ops /\ a.scope = s)
                        => Waits(asks', answers', ops, s)
    BY <1>1, <2>1, <2>2, ArriveLeaves DEF Shown, Screens
  <2>4. CASE a.result = "ok"
    <3>1. /\ user' = a.who /\ mode' = "login" /\ busy' = FALSE
          /\ kept' = FALSE /\ user' # 0
      BY <1>1, <1>10, <2>1, <2>4 DEF LoginArrives
    <3>2. cookie' = a.who
      BY <2>1, <2>2, <2>4 DEF Arrive, SetsCookie
    <3>3. Screens'
      BY <1>2, <2>3, <3>1 DEF Screens
    <3>4. CookieIsTheUsers' /\ SignedOutMeansNoCookie'
      BY <3>1, <3>2 DEF CookieIsTheUsers, SignedOutMeansNoCookie, SignedOut
    <3>5. Waiting'
      <4>1. CASE user = 0
        BY <1>2, <1>3, <3>1, <4>1 DEF Waiting
      <4>2. CASE user # 0
        BY <1>2, <2>1, <2>3, <3>1, <4>2 DEF Waiting, Shown
      <4> QED BY <4>1, <4>2
    <3>6. DialogGone'
      BY <1>8, <2>2, <3>1
    <3> QED BY <3>3, <3>4, <3>5, <3>6 DEF Shown
  <2>5. CASE a.result # "ok"
    <3>1. /\ user' = user /\ mode' = mode /\ kept' = kept
          /\ busy' = (IF a.scope = "form" THEN FALSE ELSE busy)
      BY <1>10, <2>5 DEF LoginArrives, FreedBusy
    <3>2. cookie' = cookie /\ setBy' = setBy
      BY <2>2, <2>5 DEF Arrive, SetsCookie
    <3>3. Screens'
      BY <1>2, <2>1, <2>3, <3>1 DEF Screens, Shown
    <3>4. CookieIsTheUsers' /\ SignedOutMeansNoCookie'
      BY <3>1, <3>2
         DEF CookieIsTheUsers, SignedOutMeansNoCookie, SignedOut, Shown
    <3>5. Waiting'
      BY <1>2, <1>3, <2>1, <2>3, <2>5, <3>1 DEF Waiting, Shown
    <3>6. DialogGone'
      BY <1>8, <2>2, <3>1
    <3> QED BY <3>3, <3>4, <3>5, <3>6 DEF Shown
  <2> QED BY <2>4, <2>5
<1>11. ASSUME NEW i \in DOMAIN answers, RegisterArrives(i) PROVE Shown'
  <2> DEFINE a == answers[i]
             shows == a.result = "ok" /\ a.scope # "app" /\ mode = "register"
             to == IF shows THEN "screen" ELSE "form"
  <2>1. a.op = "register" /\ mode # "blank"
    BY <1>4, <1>11 DEF RegisterArrives
  <2>2. Arrive(i, to, {}) /\ to \in Scope
    BY <1>1, <1>11 DEF RegisterArrives
  <2>3. /\ user' = user /\ kept' = kept
        /\ mode' = (IF shows THEN "login" ELSE mode)
        /\ busy' = (IF shows \/ a.scope = "form" THEN FALSE ELSE busy)
    BY <1>11 DEF RegisterArrives, FreedBusy
  <2>4. /\ \A q \in asks' : q.op # "me"
        /\ \A j \in DOMAIN answers' : answers'[j].op # "me"
        /\ to = "form" =>
             \A ops, s : /\ Waits(asks, answers, ops, s)
                        /\ ~(a.op \in ops /\ a.scope = s)
                        => Waits(asks', answers', ops, s)
    BY <1>1, <2>1, <2>2, ArriveLeaves DEF Shown, Screens
  <2>5. /\ a.result = "ok" => cookie' # 0 /\ setBy' = "side"
        /\ a.result # "ok" => cookie' = cookie /\ setBy' = setBy
    BY <1>1, <2>1, <2>2 DEF Arrive, SetsCookie, Setter
  <2>6. Screens'
    BY <1>2, <2>1, <2>3, <2>4 DEF Screens, Shown
  <2>7. CookieIsTheUsers' /\ SignedOutMeansNoCookie'
    BY <2>1, <2>3, <2>5
       DEF CookieIsTheUsers, SignedOutMeansNoCookie, SignedOut, Shown
  <2>8. Waiting'
    <3>1. CASE shows
      BY <1>2, <1>3, <2>3, <3>1 DEF Waiting, Shown, Screens
    <3>2. CASE ~shows
      BY <1>2, <1>3, <2>1, <2>3, <2>4, <3>2 DEF Waiting, Shown
    <3> QED BY <3>1, <3>2
  <2>9. DialogGone'
    BY <1>8, <2>2, <2>3
  <2> QED BY <2>6, <2>7, <2>8, <2>9 DEF Shown
<1>12. ASSUME NEW i \in DOMAIN answers, LogoutArrives(i) PROVE Shown'
  <2> DEFINE a == answers[i]
             to == IF user # 0 THEN "app" ELSE "form"
  <2>1. a.op = "logout" /\ mode # "blank"
    BY <1>4, <1>12 DEF LogoutArrives
  <2>2. Arrive(i, to, {}) /\ to \in Scope
    BY <1>1, <1>12 DEF LogoutArrives
  <2>3. /\ user' = 0 /\ busy' = busy
        /\ mode' = (IF user # 0 THEN "login" ELSE mode)
        /\ kept' = (IF user # 0 THEN a.result # "ok" ELSE kept)
    BY <1>12 DEF LogoutArrives
  <2>4. /\ \A q \in asks' : q.op # "me"
        /\ \A j \in DOMAIN answers' : answers'[j].op # "me"
        /\ to = "form" =>
             \A ops, s : /\ Waits(asks, answers, ops, s)
                        /\ ~(a.op \in ops /\ a.scope = s)
                        => Waits(asks', answers', ops, s)
    BY <1>1, <2>1, <2>2, ArriveLeaves DEF Shown, Screens
  <2>5. /\ a.result = "ok" => cookie' = 0
        /\ a.result # "ok" => cookie' = cookie /\ setBy' = setBy
    BY <1>1, <2>1, <2>2 DEF Arrive, SetsCookie
  <2>6. Screens'
    BY <1>2, <2>1, <2>3, <2>4 DEF Screens, Shown
  <2>7. CookieIsTheUsers' /\ SignedOutMeansNoCookie'
    BY <2>1, <2>3, <2>5
       DEF CookieIsTheUsers, SignedOutMeansNoCookie, SignedOut, Shown
  <2>8. Waiting'
    <3>1. CASE user # 0
      BY <1>2, <1>3, <2>3, <3>1 DEF Waiting, Shown, Screens
    <3>2. CASE user = 0
      BY <1>1, <1>2, <1>3, <2>1, <2>3, <2>4, <3>2 DEF Waiting, Shown
    <3> QED BY <3>1, <3>2
  <2>9. DialogGone'
    BY <1>8, <2>2, <2>3
  <2> QED BY <2>6, <2>7, <2>8, <2>9 DEF Shown
<1> QED BY <1>5, <1>7, <1>9, <1>10, <1>11, <1>12 DEF SessionStep

\* The dialog's buttons are freed by the answer they wait for, and its requests
\* leave the user and the screen alone.
LEMMA ProfileShown ==
  ASSUME Typed, Shown, ProfileStep, UNCHANGED sessionVars
  PROVE  Shown'
<1>1. /\ {} \in SUBSET Request /\ asks \subseteq Request /\ IsFiniteSet(asks)
      /\ "form" \in Scope /\ "app" \in Scope /\ NoForm \in Form
      /\ dialog \in [open : BOOLEAN, busy : BOOLEAN, fields : Form,
                     original : Form]
      /\ mode \notin {"get", "save", "delete"}
      /\ \A i \in DOMAIN answers :
           answers[i].result = "ok" =>
             (answers[i].who = 0 <=> answers[i].op \in {"delete", "logout"})
  BY TypedFacts DEF Typed, TypeOK, SessionTypeOK, ProfileTypeOK, Known,
                      Scope
<1>2. /\ user' = user /\ mode' = mode /\ busy' = busy /\ kept' = kept
  BY DEF sessionVars
<1>3. ASSUME user # 0, cookie' = cookie, setBy' = setBy,
             \A q \in asks' : q.op # "me",
             \A j \in DOMAIN answers' : answers'[j].op # "me",
             dialog'.busy =>
               Waits(asks', answers', {"get", "save", "delete"}, "form")
      PROVE  Shown'
  BY <1>2, <1>3 DEF Shown, Screens, CookieIsTheUsers,
                    SignedOutMeansNoCookie, SignedOut, Waiting,
                    DialogGone
<1>4. ASSUME user # 0 \/ dialog.open
      PROVE  /\ user # 0 /\ \A q \in asks : q.op # "me"
             /\ \A j \in DOMAIN answers : answers[j].op # "me"
  BY <1>4 DEF Shown, Screens, Closed
<1>5. ASSUME NEW op \in {"get", "delete", "logout"}, NEW scope \in Scope,
             Send(Ask(op, NoForm, scope)), user # 0,
             \/ op # "logout" /\ scope = "form"
             \/ dialog' = dialog
      PROVE  Shown'
  <2> DEFINE a == Ask(op, NoForm, scope)
  <2>1. a.op = op /\ a.scope = scope
    BY <1>1, AskTypes DEF Op
  <2>2. /\ cookie' = cookie /\ setBy' = setBy /\ answers' = answers
        /\ asks' = asks \cup {a}
    BY <1>5 DEF Send
  <2> HIDE DEF a
  <2>3. dialog'.busy =>
          Waits(asks', answers', {"get", "save", "delete"}, "form")
    BY <1>5, <2>1, <2>2 DEF Waits, Shown, Waiting
  <2> QED BY <1>3, <1>4, <1>5, <2>1, <2>2, <2>3
<1>6. ASSUME UNCHANGED cookieVars, dialog.open, dialog'.busy = dialog.busy
      PROVE  Shown'
  <2>1. /\ cookie' = cookie /\ asks' = asks /\ answers' = answers
        /\ setBy' = setBy
    BY <1>6 DEF cookieVars
  <2>2. dialog'.busy =>
          Waits(asks', answers', {"get", "save", "delete"}, "form")
    BY <1>6, <2>1 DEF Shown, Waiting
  <2> QED BY <1>3, <1>4, <1>6, <2>1, <2>2
<1>7. ASSUME OpenProfile PROVE Shown'
  BY <1>1, <1>5, <1>7 DEF OpenProfile
<1>8. ASSUME CloseProfile PROVE Shown'
  <2>1. dialog'.busy = dialog.busy
    BY <1>1, <1>8 DEF CloseProfile
  <2> QED BY <1>6, <1>8, <2>1 DEF CloseProfile
<1>9. ASSUME Type PROVE Shown'
  <2>1. dialog'.busy = dialog.busy
    BY <1>1, <1>9 DEF Type
  <2> QED BY <1>6, <1>9, <2>1 DEF Type
<1>10. ASSUME Save PROVE Shown'
  <2>1. /\ Ready /\ cookie' = cookie /\ answers' = answers /\ setBy' = setBy
    BY <1>10, SaveFacts
  <2>2. PICK pw \in BOOLEAN : asks' = Marked \cup {Saving(pw)}
    BY <1>10, SaveFacts
  <2>3. \A p \in Marked : \E q \in asks : p.op = q.op
    BY <1>1, MarkedFacts
  <2>4. Saving(pw).op = "save" /\ Saving(pw).scope = "form"
    BY DEF Saving
  <2>5. Waits(asks', answers', {"get", "save", "delete"}, "form")
    BY <2>2, <2>4 DEF Waits
  <2>6. user # 0 /\ \A j \in DOMAIN answers : answers[j].op # "me"
    BY <1>4, <2>1 DEF Ready
  <2>7. \A q \in asks' : q.op # "me"
    BY <1>4, <2>1, <2>2, <2>3, <2>4 DEF Ready
  <2> QED BY <1>3, <2>1, <2>5, <2>6, <2>7
<1>11. ASSUME DeleteAccount PROVE Shown'
  BY <1>1, <1>4, <1>5, <1>11 DEF DeleteAccount, Ready
<1>12. ASSUME PressLogout PROVE Shown'
  BY <1>1, <1>4, <1>5, <1>12 DEF PressLogout, Ready, dialogVars
\* An answer for the dialog, which may come when the chat is long gone.
<1>13. ASSUME NEW i \in DOMAIN answers, NEW more \in SUBSET Request,
              answers[i].op \in {"get", "save", "delete"},
              more = {} \/ \E m : more = {m}, \A m \in more : m.op # "me",
              \A m \in more : m.scope # "form", Arrive(i, "form", more),
              answers[i].scope # "form" => dialog' = dialog,
              dialog'.busy => dialog.busy /\ answers[i].scope # "form"
       PROVE  Shown'
  <2> DEFINE a == answers[i]
  <2>1. mode # "blank"
    BY <1>13 DEF Shown, Screens, OnlyMe
  <2>2. /\ \A q \in asks' : q.op # "me"
        /\ \A j \in DOMAIN answers' : answers'[j].op # "me"
        /\ \A ops, s : /\ Waits(asks, answers, ops, s)
                       /\ ~(a.op \in ops /\ a.scope = s)
                       => Waits(asks', answers', ops, s)
        /\ \A ops : Waits(asks', answers', ops, "form") =>
                     Waits(asks, answers, ops, "form")
    <3>1. /\ (/\ \A q \in asks : q.op # "me"
              /\ \A k \in DOMAIN answers : k # i => answers[k].op # "me")
             => /\ \A q \in asks' : q.op # "me"
                /\ \A j \in DOMAIN answers' : answers'[j].op # "me"
          /\ \A ops, s : /\ Waits(asks, answers, ops, s)
                         /\ ~(a.op \in ops /\ a.scope = s)
                         => Waits(asks', answers', ops, s)
          /\ \A ops : Waits(asks', answers', ops, "form") =>
                       \/ \E m \in more : m.scope = "form"
                       \/ Waits(asks, answers, ops, "form")
      <4> DEFINE f == "form"
      <4>1. f \in Scope /\ Arrive(i, f, more) /\ f = "form"
        BY <1>1, <1>13
      <4>2. /\ more = {} \/ \E m : more = {m}
            /\ \A m \in more : m.op # "me"
        BY <1>13
      <4> HIDE DEF f
      <4> QED BY <4>1, <4>2, ArriveLeaves, Zenon
    <3>2. /\ \A q \in asks : q.op # "me"
          /\ \A k \in DOMAIN answers : answers[k].op # "me"
      BY <2>1 DEF Shown, Screens
    <3> HIDE DEF a
    <3> QED BY <1>13, <3>1, <3>2, Zenon
  <2>3. \/ a.result = "ok" /\ a.op = "delete" /\ cookie' = 0 /\ setBy' = "end"
        \/ a.result = "ok" /\ a.op = "save" /\ cookie' # 0 /\ setBy' = "side"
        \/ cookie' = cookie /\ setBy' = setBy
    <3>1. /\ cookie' = IF SetsCookie(a) THEN a.who ELSE cookie
          /\ setBy' = IF SetsCookie(a) THEN Setter(a.op) ELSE setBy
      BY <1>13 DEF Arrive
    <3>2. Setter("delete") = "end" /\ Setter("save") = "side"
      BY DEF Setter
    <3>3. SetsCookie(a) => /\ a.result = "ok" /\ a.op \in {"save", "delete"}
                           /\ a.who = 0 <=> a.op = "delete"
      BY <1>1, <1>13 DEF SetsCookie
    <3> QED BY <3>1, <3>2, <3>3
  <2>4. Screens'
    <3>1. user = 0 => a.scope # "form"
      BY <1>13 DEF Shown, DialogGone, Waits
    <3> QED BY <1>2, <1>13, <2>1, <2>2, <3>1 DEF Screens, Shown
  <2>5. CookieIsTheUsers' /\ SignedOutMeansNoCookie'
    BY <1>2, <2>3
       DEF CookieIsTheUsers, SignedOutMeansNoCookie, SignedOut, Shown
  <2>6. Waiting'
    <3>1. user = 0 /\ busy /\ mode # "blank" =>
            Waits(asks', answers', {mode}, "form")
      BY <1>1, <1>13, <2>2 DEF Waiting, Shown
    <3>2. dialog'.busy =>
            Waits(asks', answers', {"get", "save", "delete"}, "form")
      BY <1>13, <2>2 DEF Waiting, Shown
    <3> QED BY <1>2, <3>1, <3>2 DEF Waiting
  <2>7. DialogGone'
    BY <1>2, <2>2 DEF DialogGone, Shown
  <2> QED BY <2>4, <2>5, <2>6, <2>7 DEF Shown
<1>14. ASSUME NEW i \in DOMAIN answers, GetArrives(i) PROVE Shown'
  <2>1. answers[i].op = "get" /\ Arrive(i, "form", {})
    BY <1>14 DEF GetArrives
  <2>2. /\ answers[i].scope # "form" => dialog' = dialog
        /\ dialog'.busy => dialog.busy /\ answers[i].scope # "form"
    BY <1>1, <1>14 DEF GetArrives, Filled, dialogVars
  <2> QED BY <1>1, <1>13, <2>1, <2>2
<1>15. ASSUME NEW i \in DOMAIN answers, SaveArrives(i) PROVE Shown'
  <2>1. answers[i].op = "save" /\ Arrive(i, "form", {})
    BY <1>15 DEF SaveArrives
  <2>2. /\ answers[i].scope # "form" => dialog' = dialog
        /\ dialog'.busy => dialog.busy /\ answers[i].scope # "form"
    BY <1>1, <1>15 DEF SaveArrives, Filled
  <2> QED BY <1>1, <1>13, <2>1, <2>2
<1>16. ASSUME NEW i \in DOMAIN answers, DeleteArrives(i) PROVE Shown'
  <2>1. /\ answers[i].op = "delete"
        /\ dialog' = IF answers[i].scope = "form"
                     THEN [dialog EXCEPT !.busy = FALSE] ELSE dialog
    BY <1>16, DeleteFacts
  <2>2. PICK more \in SUBSET Request :
          /\ Arrive(i, "form", more)
          /\ more = {} \/ \E m : more = {m}
          /\ \A m \in more : m.op = "logout" /\ m.scope = "app"
    BY <1>16, DeleteFacts
  <2>3. /\ answers[i].scope # "form" => dialog' = dialog
        /\ dialog'.busy => dialog.busy /\ answers[i].scope # "form"
    BY <1>1, <2>1
  <2> QED BY <1>13, <2>1, <2>2, <2>3
<1> QED BY <1>7, <1>8, <1>9, <1>10, <1>11, <1>12, <1>14, <1>15, <1>16
        DEF ProfileStep

\* The page is blank and fetchMe is on its way.
LEMMA InitShown == Init => Shown
<1> SUFFICES ASSUME Init PROVE Shown
  OBVIOUS
<1>1. /\ asks = {Ask("me", NoForm, "app")} /\ answers = <<>> /\ setBy = "page"
      /\ user = 0 /\ mode = "blank" /\ busy = FALSE /\ dialog = Closed
  BY DEF Init
<1>2. /\ Ask("me", NoForm, "app").op = "me"
      /\ Ask("me", NoForm, "app").scope = "app"
      /\ Ask("me", NoForm, "app").as = cookie
  BY DEF Ask
<1>3. OnlyMe
  BY <1>1, <1>2 DEF OnlyMe
<1>4. Screens
  BY <1>1, <1>3 DEF Screens
<1>5. CookieIsTheUsers /\ SignedOutMeansNoCookie
  BY <1>1 DEF CookieIsTheUsers, SignedOutMeansNoCookie, SignedOut
<1>6. Closed.busy = FALSE /\ DOMAIN answers = {}
  BY <1>1 DEF Closed
<1>7. Waiting
  BY <1>1, <1>6 DEF Waiting
<1>8. DialogGone
  BY <1>1, <1>2, <1>6 DEF DialogGone, Waits
<1> QED BY <1>4, <1>5, <1>7, <1>8 DEF Shown

\* Every step keeps Shown.
LEMMA StepShown == Typed /\ Shown /\ [Next]_vars => Shown'
<1> SUFFICES ASSUME Typed, Shown, [Next]_vars PROVE Shown'
  OBVIOUS
<1>1. CASE ServerStep /\ UNCHANGED <<sessionVars, dialogVars>>
  BY <1>1, ServerShown
<1>2. CASE SessionStep /\ Remount
  BY <1>2, SessionShown
<1>3. CASE ProfileStep /\ UNCHANGED sessionVars
  BY <1>3, ProfileShown
<1>4. CASE UNCHANGED vars
  BY <1>4 DEF vars, cookieVars, serverVars, sessionVars, dialogVars, Shown,
              Screens, OnlyMe, CookieIsTheUsers, SignedOutMeansNoCookie,
              SignedOut, Waiting, DialogGone
<1> QED BY <1>1, <1>2, <1>3, <1>4 DEF Next

\* CookieIsTheUsers: while the chat shows a user, the requests it sends act for
\* that user, whatever the order in which the answers of logins, logouts and
\* deletions arrive.
THEOREM RequestsActForTheUser == Spec => []CookieIsTheUsers
<1>1. Shown => CookieIsTheUsers
  BY DEF Shown
<1> QED BY <1>1, InitTyped, StepTyped, InitShown, StepShown, PTL DEF Spec

\* SignedOutMeansNoCookie: when the page asks to sign in, the browser has no
\* cookie, unless the request that said so had failed or a registration or a
\* late profile update has set one.
THEOREM SignedOutHasNoCookie == Spec => []SignedOutMeansNoCookie
<1>1. Shown => SignedOutMeansNoCookie
  BY DEF Shown
<1> QED BY <1>1, InitTyped, StepTyped, InitShown, StepShown, PTL DEF Spec

\* BusyEnds: a page that is blank and a button that is disabled wait for a
\* request that is under way and whose answer still finds them.
THEOREM NothingWaitsInVain == Spec => []BusyEnds
<1>1. Shown => BusyEnds
  <2> SUFFICES ASSUME Shown PROVE BusyEnds
    OBVIOUS
  <2> DEFINE W(ops, scope) ==
               \E q \in UnderWay : q.op \in ops /\ q.scope = scope
  <2>1. \A ops, s : Waits(asks, answers, ops, s) => W(ops, s)
    BY DEF Waits, UnderWay
  <2>2. mode = "blank" => W({"me"}, "app")
    <3>1. mode = "blank" => Waits(asks, answers, {"me"}, "app")
      BY DEF Shown, Screens, OnlyMe, Waits
    <3> QED BY <2>1, <3>1
  <2>3. SignedOut /\ busy => W({mode}, "form")
    BY <2>1 DEF Shown, Waiting, SignedOut
  <2>4. dialog.busy => W({"get", "save", "delete"}, "form")
    BY <2>1 DEF Shown, Waiting
  <2> QED BY <2>2, <2>3, <2>4 DEF BusyEnds
<1> QED BY <1>1, InitTyped, StepTyped, InitShown, StepShown, PTL DEF Spec

-----------------------------------------------------------------------------
(***************************************************************************)
(* The profile.                                                            *)
(***************************************************************************)

\* A row that a handler changes is that of the save it serves; the answer of
\* that save is now behind all others.
LEMMA ServedSaved ==
  ASSUME Typed, Saved, UNCHANGED <<sessionVars, dialogVars>>, NEW q \in asks,
         \/ Me(q) \/ Login(q) \/ Register(q) \/ UpdateMe(q) \/ DeleteMe(q)
         \/ Logout(q) \/ Refuse(q)
  PROVE  Saved'
<1>1. PICK result \in {"ok", "refused"}, who \in 0 .. MaxUsers, row \in Form :
        /\ Serve(q, result, who, row)
        /\ q.op \in {"get", "save"} /\ result = "ok" => row = users'[who]
        /\ \A u \in DOMAIN users' :
             \/ u = nextUser
             \/ /\ u \in DOMAIN users
                /\ \/ users'[u] = users[u]
                   \/ q.op = "save" /\ q.as = u /\ who = u
  BY EachIsServed
<1> DEFINE a == [op |-> q.op, result |-> result, who |-> who, row |-> row,
                 scope |-> q.scope, late |-> FALSE]
           n == Len(answers')
<1>2. /\ asks' = asks \ {q} /\ answers' \in Seq(Reply)
      /\ Len(answers) \in Nat /\ n = Len(answers) + 1
      /\ \A i \in DOMAIN answers : answers'[i] = answers[i]
      /\ answers'[n] = a
  BY <1>1, ServeFacts DEF Typed, TypeOK
<1>3. /\ DOMAIN answers = 1 .. Len(answers)
      /\ DOMAIN answers' = 1 .. Len(answers) + 1
  BY <1>2, TypedFacts, LenProperties
<1>4. /\ n \in DOMAIN answers' /\ n > 0
      /\ \A i \in DOMAIN answers : i \in DOMAIN answers' /\ n > i
      /\ \A i \in DOMAIN answers' : i \in DOMAIN answers \/ i = n
  BY <1>2, <1>3
<1>5. /\ a.op = q.op /\ a.result = result /\ a.who = who /\ a.row = row
      /\ a.late = FALSE
  OBVIOUS
<1>6. /\ user' = user /\ dialog' = dialog /\ drift' = drift
  BY DEF sessionVars, dialogVars
<1>7. /\ user # nextUser
      /\ \A i \in DOMAIN answers : answers[i].who # nextUser
      /\ \A p \in asks : p.as # nextUser
  <2>1. /\ nextUser \in Nat /\ user \in 0 .. nextUser - 1
        /\ \A i \in DOMAIN answers : answers[i].who \in 0 .. nextUser - 1
        /\ \A p \in asks : p.as \in 0 .. nextUser - 1
    BY TypedFacts DEF Typed, TypeOK, SessionTypeOK, Known
  <2> QED BY <2>1
<1> HIDE DEF a, n
<1>8. \A u, k : SaveServed(answers, u, k) => SaveServed(answers', u, k)
  BY <1>2, <1>4 DEF SaveServed
<1>9. ASSUME NEW u \in DOMAIN users', u # nextUser
      PROVE  /\ u \in DOMAIN users
             /\ \/ users'[u] = users[u]
                \/ /\ q.op = "save" /\ q.as = u
                   /\ \A k : n > k => SaveServed(answers', u, k)
  BY <1>1, <1>2, <1>4, <1>5, <1>9 DEF SaveServed
<1>10. Rows'
  <2> SUFFICES ASSUME NEW i \in DOMAIN answers',
                      answers'[i].op \in {"get", "save"},
                      answers'[i].result = "ok", ~answers'[i].late,
                      answers'[i].who \in DOMAIN users'
               PROVE  \/ answers'[i].row = users'[answers'[i].who]
                      \/ SaveServed(answers', answers'[i].who, i)
    BY DEF Rows
  <2>1. CASE i \in DOMAIN answers
    <3>1. answers'[i] = answers[i] /\ answers[i].who # nextUser /\ n > i
      BY <1>2, <1>4, <1>7, <2>1
    <3>2. answers[i].who \in DOMAIN users
      BY <1>9, <3>1
    <3>3. \/ answers[i].row = users[answers[i].who]
          \/ SaveServed(answers, answers[i].who, i)
      BY <2>1, <3>1, <3>2 DEF Saved, Rows
    <3> QED BY <1>8, <1>9, <3>1, <3>3
  <2>2. CASE i = n
    BY <1>1, <1>2, <1>5, <2>2
  <2> QED BY <1>4, <2>1, <2>2
<1>11. Original'
  <2> SUFFICES ASSUME user \in DOMAIN users', dialog.original # NoForm, ~drift
               PROVE  \/ SaveServed(answers', user, 0)
                      \/ dialog.original = users'[user]
    BY <1>6 DEF Original
  <2>1. SaveServed(answers, user, 0) \/ dialog.original = users[user]
    BY <1>7, <1>9 DEF Saved, Original
  <2> QED BY <1>4, <1>7, <1>8, <1>9, <2>1
<1>12. Saves'
  <2> SUFFICES ASSUME NEW p \in asks', p.op = "save", ~p.unsure,
                      p.as \in DOMAIN users'
               PROVE  /\ \A x \in {"name", "email"} :
                           \/ p.form[x] = Blank \/ x \in p.edited
                           \/ p.form[x] = Trim[users'[p.as][x]]
                      /\ \A r \in asks' : r.op = "save" /\ r.as = p.as => r = p
    BY DEF Saves
  <2>1. p \in asks /\ p # q /\ p.as # nextUser
    BY <1>2, <1>7
  <2>2. p.as \in DOMAIN users
    BY <1>9, <2>1
  <2>3. /\ \A x \in {"name", "email"} :
             \/ p.form[x] = Blank \/ x \in p.edited
             \/ p.form[x] = Trim[users[p.as][x]]
        /\ \A r \in asks : r.op = "save" /\ r.as = p.as => r = p
    BY <2>1, <2>2 DEF Saved, Saves
  <2>4. users'[p.as] = users[p.as]
    BY <1>9, <2>1, <2>3
  <2> QED BY <1>2, <2>3, <2>4
<1> QED BY <1>10, <1>11, <1>12 DEF Saved

\* The same for a lost answer and an expired cookie.
LEMMA ServerSaved ==
  ASSUME Typed, Saved, ServerStep, UNCHANGED <<sessionVars, dialogVars>>
  PROVE  Saved'
<1>1. user' = user /\ dialog' = dialog /\ drift' = drift
  BY DEF sessionVars, dialogVars
<1>2. ASSUME NEW i \in DOMAIN answers, Lose(i) PROVE Saved'
  <2>1. /\ users' = users /\ asks' = asks
        /\ DOMAIN answers' = DOMAIN answers
        /\ answers'[i].result # "ok"
        /\ \A j \in DOMAIN answers :
             /\ answers'[j].op = answers[j].op
             /\ answers'[j].who = answers[j].who
             /\ j # i => answers'[j] = answers[j]
    BY <1>2, LoseFacts
  <2>2. \A u, k : SaveServed(answers, u, k) => SaveServed(answers', u, k)
    BY <2>1 DEF SaveServed
  <2>3. Rows'
    BY <2>1, <2>2 DEF Rows, Saved
  <2>4. Original'
    BY <1>1, <2>1, <2>2 DEF Original, Saved
  <2>5. Saves'
    BY <2>1 DEF Saves, Saved
  <2> QED BY <2>3, <2>4, <2>5 DEF Saved
<1>3. ASSUME Expire PROVE Saved'
  <2>1. users' = users /\ asks' = asks /\ answers' = answers
    BY <1>3 DEF Expire, serverVars
  <2> QED BY <1>1, <2>1 DEF Saved, Rows, Original, Saves
<1> QED BY <1>2, <1>3, ServedSaved DEF ServerStep

\* An answer that overtakes a save of the same account makes it late.
LEMMA ArriveRows ==
  ASSUME Typed, Rows, NEW i \in DOMAIN answers, NEW to \in Scope,
         NEW more \in SUBSET Request, more = {} \/ \E m : more = {m},
         Arrive(i, to, more)
  PROVE  /\ Rows'
         /\ \A u : /\ SaveServed(answers, u, 0)
                   /\ answers[i].op # "save" \/ answers[i].who # u
                   => SaveServed(answers', u, 0)
         /\ \A u : SaveServed(answers, u, i) => SaveServed(answers', u, 0)
<1>1. CookieTypeOK /\ IsFiniteSet(asks)
  BY DEF Typed, TypeOK
<1>2. /\ answers' \in Seq(Reply)
      /\ \A j \in DOMAIN answers' :
           /\ Was(j, i) \in DOMAIN answers /\ Was(j, i) # i
           /\ answers'[j].op = answers[Was(j, i)].op
           /\ answers'[j].result = answers[Was(j, i)].result
           /\ answers'[j].who = answers[Was(j, i)].who
           /\ answers'[j].row = answers[Was(j, i)].row
           /\ answers'[j].late = (answers[Was(j, i)].late
                                  \/ Was(j, i) \in Overtaken(i))
      /\ \A k \in DOMAIN answers \ {i} :
           \E j \in DOMAIN answers' : k = Was(j, i)
  BY <1>1, ArriveFacts, Zenon
<1>3. /\ DOMAIN answers \subseteq Nat \ {0}
      /\ DOMAIN answers' \subseteq Nat \ {0}
  <2>1. DOMAIN answers' = 1 .. Len(answers') /\ Len(answers') \in Nat
    BY <1>2, LenProperties
  <2>2. DOMAIN answers = 1 .. Len(answers) /\ Len(answers) \in Nat
    BY TypedFacts
  <2> QED BY <2>1, <2>2
<1>4. users' = users
  BY DEF Arrive, serverVars
<1>5. ASSUME NEW u, NEW l \in Nat, NEW k \in DOMAIN answers, k # i,
             answers[k].op = "save", answers[k].who = u,
             \A j \in DOMAIN answers' : k = Was(j, i) => j > l
      PROVE  SaveServed(answers', u, l)
  <2>1. PICK j \in DOMAIN answers' : k = Was(j, i)
    BY <1>2, <1>5
  <2> QED BY <1>2, <1>5, <2>1 DEF SaveServed
<1>6. Rows'
  <2> SUFFICES ASSUME NEW j \in DOMAIN answers',
                      answers'[j].op \in {"get", "save"},
                      answers'[j].result = "ok", ~answers'[j].late,
                      answers'[j].who \in DOMAIN users,
                      answers'[j].row # users[answers'[j].who]
               PROVE  SaveServed(answers', answers'[j].who, j)
    BY <1>4 DEF Rows
  <2> DEFINE k == Was(j, i)
  <2>1. /\ k \in DOMAIN answers /\ k # i /\ k \notin Overtaken(i)
        /\ answers[k].op \in {"get", "save"} /\ answers[k].result = "ok"
        /\ ~answers[k].late /\ answers[k].who = answers'[j].who
        /\ answers[k].row = answers'[j].row
    BY <1>2
  <2>2. j \in Nat /\ k \in Nat /\ i \in Nat /\ k > 0
    BY <1>3, <2>1
  <2>3. \A n \in DOMAIN answers' : Was(n, i) > k => n > j
    BY <1>3, <2>2 DEF Was
  <2> HIDE DEF k
  <2>4. PICK l \in DOMAIN answers : /\ l > k /\ answers[l].op = "save"
                                   /\ answers[l].who = answers'[j].who
    BY <2>1 DEF Rows, SaveServed
  <2>5. l # i
    <3>1. l = i => k \in 1 .. i - 1
      BY <2>2, <2>4
    <3> QED BY <2>1, <2>4, <3>1 DEF Overtaken
  <2> QED BY <1>5, <2>2, <2>3, <2>4, <2>5
<1>7. ASSUME NEW u, SaveServed(answers, u, 0),
             answers[i].op # "save" \/ answers[i].who # u
      PROVE  SaveServed(answers', u, 0)
  <2>1. PICK k \in DOMAIN answers :
          answers[k].op = "save" /\ answers[k].who = u
    BY <1>7 DEF SaveServed
  <2>2. \A j \in DOMAIN answers' : j > 0
    BY <1>3
  <2> QED BY <1>5, <1>7, <2>1, <2>2
<1>8. ASSUME NEW u, SaveServed(answers, u, i)
      PROVE  SaveServed(answers', u, 0)
  <2>1. PICK k \in DOMAIN answers : /\ k > i /\ answers[k].op = "save"
                                   /\ answers[k].who = u
    BY <1>8 DEF SaveServed
  <2>2. k # i
    BY <1>3, <2>1
  <2>3. \A j \in DOMAIN answers' : j > 0
    BY <1>3
  <2> QED BY <1>5, <2>1, <2>2, <2>3
<1> QED BY <1>6, <1>7, <1>8

\* Saves looks at no request's sender: an unmount keeps it.
LEMMA LoweredSaves ==
  ASSUME asks \subseteq Request, Saves, users' = users, NEW to \in Scope,
         NEW T, T = {[q EXCEPT !.scope = Lowered(@, to)] : q \in asks},
         NEW more, \A m \in more : m.op # "save", asks' = T \cup more
  PROVE  Saves'
<1> DEFINE L(q) == [q EXCEPT !.scope = Lowered(@, to)]
<1>1. \A q \in asks : /\ L(q).op = q.op /\ L(q).as = q.as /\ L(q).form = q.form
                      /\ L(q).edited = q.edited /\ L(q).unsure = q.unsure
  BY DEF Request
<1>2. \A p \in asks' : p.op = "save" => \E q \in asks : p = L(q)
  OBVIOUS
<1> HIDE DEF L
<1> SUFFICES ASSUME NEW p \in asks', p.op = "save", ~p.unsure,
                    p.as \in DOMAIN users
             PROVE  /\ \A x \in {"name", "email"} :
                         \/ p.form[x] = Blank \/ x \in p.edited
                         \/ p.form[x] = Trim[users[p.as][x]]
                    /\ \A r \in asks' : r.op = "save" /\ r.as = p.as => r = p
  BY DEF Saves
<1>3. PICK q \in asks : p = L(q)
  BY <1>2
<1>4. /\ \A x \in {"name", "email"} :
           \/ q.form[x] = Blank \/ x \in q.edited
           \/ q.form[x] = Trim[users[q.as][x]]
      /\ \A r \in asks : r.op = "save" /\ r.as = q.as => r = q
  BY <1>1, <1>3 DEF Saves
<1>5. ASSUME NEW r \in asks', r.op = "save", r.as = p.as PROVE r = p
  <2>1. PICK t \in asks : r = L(t)
    BY <1>2, <1>5
  <2>2. t = q
    BY <1>1, <1>3, <1>4, <1>5, <2>1
  <2> QED BY <1>3, <2>1, <2>2
<1> QED BY <1>1, <1>3, <1>4, <1>5

\* A chat that unmounts takes its dialog along; one that is given another user
\* makes the dialog one that may differ from the row.
LEMMA SessionSaved ==
  ASSUME Typed, Saved, SessionStep, Remount
  PROVE  Saved'
<1>1. /\ {} \in SUBSET Request /\ asks \subseteq Request
      /\ "form" \in Scope /\ "screen" \in Scope /\ "app" \in Scope
      /\ NoForm \in Form /\ Rows /\ Original /\ Saves
  BY TypedFacts DEF Saved, Scope
<1>2. users' = users
  BY PageLeavesAccounts
<1>3. Closed.original = NoForm
  BY DEF Closed
<1>4. ASSUME \A u : SaveServed(answers, u, 0) => SaveServed(answers', u, 0)
      PROVE  Original'
  <2>1. CASE user = 0 \/ user' = 0
    BY <1>3, <2>1 DEF Remount, Original
  <2>2. CASE ~(user = 0 \/ user' = 0)
    <3>1. dialog' = dialog /\ drift' = (drift \/ user' # user)
      BY <2>2 DEF Remount
    <3> QED BY <1>1, <1>2, <1>4, <3>1 DEF Original
  <2> QED BY <2>1, <2>2
<1>5. ASSUME NEW i \in DOMAIN answers, NEW to \in Scope, Arrive(i, to, {}),
             answers[i].op # "save"
      PROVE  Saved'
  <2>1. /\ Rows'
        /\ \A u : SaveServed(answers, u, 0) => SaveServed(answers', u, 0)
    BY <1>1, <1>5, ArriveRows
  <2>2. Saves'
    <3> DEFINE T == {[q EXCEPT !.scope = Lowered(@, to)] : q \in asks}
               more == {}
    <3>1. asks' = T \cup more
      BY <1>5 DEF Arrive
    <3>2. T = {[q EXCEPT !.scope = Lowered(@, to)] : q \in asks}
          /\ \A m \in more : m.op # "save"
      OBVIOUS
    <3> HIDE DEF T, more
    <3> QED BY <1>1, <1>2, <3>1, <3>2, LoweredSaves
  <2> QED BY <1>4, <2>1, <2>2 DEF Saved
<1>6. ASSUME NEW m \in {"login", "register"}, SwitchMode(m) PROVE Saved'
  <2>1. /\ DOMAIN answers' = DOMAIN answers
        /\ \A j \in DOMAIN answers :
             /\ answers'[j].op = answers[j].op
             /\ answers'[j].result = answers[j].result
             /\ answers'[j].who = answers[j].who
             /\ answers'[j].row = answers[j].row
             /\ answers'[j].late = answers[j].late
    BY <1>6, SwitchedAnswers DEF SwitchMode
  <2>2. \A u, k : SaveServed(answers, u, k) => SaveServed(answers', u, k)
    BY <2>1 DEF SaveServed
  <2>3. Rows'
    BY <1>1, <1>2, <2>1, <2>2 DEF Rows
  <2>4. Saves'
    <3> DEFINE T == {[q EXCEPT !.scope = Lowered(@, "screen")] : q \in asks}
               more == {}
    <3>1. asks' = T \cup more
      BY <1>6 DEF SwitchMode
    <3>2. T = {[q EXCEPT !.scope = Lowered(@, "screen")] : q \in asks}
          /\ \A p \in more : p.op # "save"
      OBVIOUS
    <3> HIDE DEF T, more
    <3> QED BY <1>1, <1>2, <3>1, <3>2, LoweredSaves
  <2> QED BY <1>4, <2>2, <2>3, <2>4 DEF Saved
<1>7. ASSUME NEW m \in {"login", "register"}, NEW f \in Form, Submit(m, f)
      PROVE  Saved'
  <2> DEFINE a == Ask(m, f, "form")
  <2>1. a.op # "save"
    BY <1>1, AskTypes DEF Op
  <2>2. answers' = answers /\ asks' = asks \cup {a}
    BY <1>7 DEF Submit, Send
  <2> HIDE DEF a
  <2>3. Rows' /\ Original'
    BY <1>1, <1>2, <1>4, <2>2 DEF Rows
  <2>4. Saves'
    BY <1>1, <1>2, <2>1, <2>2 DEF Saves
  <2> QED BY <2>3, <2>4 DEF Saved
<1>8. ASSUME SubmitLogin \/ SubmitRegister PROVE Saved'
  <2>1. CASE SubmitLogin
    <3>1. PICK t \in Name \cup Email : Submit("login", SignInForm(t))
      BY <2>1 DEF SubmitLogin
    <3> QED BY <1>7, <3>1, SignInForms
  <2>2. CASE SubmitRegister
    <3>1. PICK f \in SignUps : Submit("register", f)
      BY <2>2 DEF SubmitRegister
    <3>2. f \in Form
      BY <3>1, CookieAssumption DEF Form
    <3> QED BY <1>7, <3>1, <3>2
  <2> QED BY <1>8, <2>1, <2>2
<1>9. ASSUME NEW i \in DOMAIN answers, MeArrives(i) PROVE Saved'
  BY <1>1, <1>5, <1>9 DEF MeArrives
<1>10. ASSUME NEW i \in DOMAIN answers, LoginArrives(i) PROVE Saved'
  BY <1>1, <1>5, <1>10 DEF LoginArrives
<1>11. ASSUME NEW i \in DOMAIN answers, RegisterArrives(i) PROVE Saved'
  BY <1>1, <1>5, <1>11 DEF RegisterArrives
<1>12. ASSUME NEW i \in DOMAIN answers, LogoutArrives(i) PROVE Saved'
  BY <1>1, <1>5, <1>12 DEF LogoutArrives
<1> QED BY <1>6, <1>8, <1>9, <1>10, <1>11, <1>12 DEF SessionStep

\* What is sent from a dialog that is not unsure is the account's row, but for
\* the fields that the user has edited.
LEMMA SaveSaved ==
  ASSUME Typed, Saved, Save, UNCHANGED sessionVars
  PROVE  Saved'
<1>1. /\ dialog' = [dialog EXCEPT !.busy = TRUE]
      /\ users' = users /\ answers' = answers /\ drift' = drift
      /\ user' = user
  BY SaveFacts DEF sessionVars
<1>2. PICK pw \in BOOLEAN : asks' = Marked \cup {Saving(pw)}
  BY SaveFacts
<1>3. \A p \in Marked : /\ p.op = "save" => p.unsure
                        /\ \E q \in asks : p.op = q.op /\ p.as = q.as
  BY TypedFacts, MarkedFacts DEF Typed
<1>4. dialog \in [open : BOOLEAN, busy : BOOLEAN, fields : Form,
                 original : Form]
  BY DEF Typed, TypeOK, ProfileTypeOK
<1>5. Rows' /\ Original'
  <2>1. dialog'.original = dialog.original
    BY <1>1, <1>4
  <2> QED BY <1>1, <2>1 DEF Saved, Rows, Original
<1>6. Saves'
  <2> DEFINE q == Saving(pw)
  <2>1. /\ q.op = "save" /\ q.as = cookie /\ q.form = Trimmed
        /\ q.edited = (IF Unsure THEN {} ELSE Edited) /\ q.unsure = Unsure
    BY DEF Saving
  <2> HIDE DEF q
  <2> SUFFICES ASSUME NEW p \in asks', p.op = "save", ~p.unsure,
                      p.as \in DOMAIN users
               PROVE  /\ \A x \in {"name", "email"} :
                           \/ p.form[x] = Blank \/ x \in p.edited
                           \/ p.form[x] = Trim[users[p.as][x]]
                      /\ \A r \in asks' : r.op = "save" /\ r.as = p.as => r = p
    BY <1>1 DEF Saves
  <2>2. p = q /\ ~Unsure
    BY <1>2, <1>3, <2>1 DEF q
  <2>3. /\ ~drift /\ cookie = user
        /\ \A r \in asks : ~(r.op = "save" /\ r.as = user)
        /\ ~SaveServed(answers, user, 0)
    BY <2>2 DEF Unsure, SavePending, SaveServed
  <2>4. dialog.original = NoForm \/ dialog.original = users[user]
    BY <2>1, <2>2, <2>3 DEF Saved, Original
  <2>5. \A x \in {"name", "email"} : NoForm[x] = Blank
    BY DEF NoForm
  <2>6. ASSUME NEW x \in {"name", "email"}, x \notin p.edited
        PROVE  p.form[x] = Blank \/ p.form[x] = Trim[users[p.as][x]]
    <3>1. dialog.fields[x] = dialog.original[x]
      BY <2>1, <2>2, <2>6 DEF Edited
    <3>2. p.form[x] = Trim[dialog.original[x]]
      BY <1>4, <2>1, <2>2, <3>1, TrimmedForm
    <3>3. CASE dialog.original = NoForm
      BY <2>5, <3>2, <3>3, TrimAssumption
    <3> QED BY <2>1, <2>2, <2>3, <2>4, <3>2, <3>3
  <2>7. \A r \in asks' : r.op = "save" /\ r.as = p.as => r = p
    BY <1>2, <1>3, <2>1, <2>2, <2>3 DEF q
  <2> QED BY <2>6, <2>7
<1> QED BY <1>5, <1>6 DEF Saved

\* The dialog takes over the row of an answer that nothing has overtaken.
LEMMA ProfileSaved ==
  ASSUME Typed, Saved, ProfileStep, UNCHANGED sessionVars
  PROVE  Saved'
<1>1. /\ {} \in SUBSET Request /\ asks \subseteq Request
      /\ "form" \in Scope /\ "app" \in Scope
      /\ NoForm \in Form /\ Rows /\ Original /\ Saves
      /\ dialog \in [open : BOOLEAN, busy : BOOLEAN, fields : Form,
                     original : Form]
      /\ \A i \in DOMAIN answers : answers[i] \in Reply
      /\ 0 \notin DOMAIN users
  BY TypedFacts DEF Saved, Scope, Typed, TypeOK, ProfileTypeOK
<1>2. users' = users /\ user' = user
  BY PageLeavesAccounts DEF sessionVars
<1>3. ASSUME dialog'.original = dialog.original, drift' = drift,
             \A u \in DOMAIN users :
               SaveServed(answers, u, 0) => SaveServed(answers', u, 0)
      PROVE  Original'
  BY <1>1, <1>2, <1>3 DEF Original
<1>4. ASSUME NEW op \in {"get", "delete", "logout"}, NEW scope \in Scope,
             Send(Ask(op, NoForm, scope)), drift' = drift,
             dialog'.original = dialog.original
      PROVE  Saved'
  <2> DEFINE a == Ask(op, NoForm, scope)
  <2>1. a.op # "save"
    BY <1>1, AskTypes DEF Op
  <2>2. answers' = answers /\ asks' = asks \cup {a}
    BY <1>4 DEF Send
  <2> HIDE DEF a
  <2>3. Rows' /\ Original'
    BY <1>1, <1>2, <1>3, <1>4, <2>2 DEF Rows
  <2>4. Saves'
    BY <1>1, <1>2, <2>1, <2>2 DEF Saves
  <2> QED BY <2>3, <2>4 DEF Saved
<1>5. ASSUME UNCHANGED cookieVars, drift' = drift,
             dialog'.original = dialog.original
      PROVE  Saved'
  <2>1. asks' = asks /\ answers' = answers
    BY <1>5 DEF cookieVars
  <2>2. Original'
    BY <1>3, <1>5, <2>1
  <2> QED BY <1>1, <1>2, <2>1, <2>2 DEF Saved, Rows, Saves
<1>6. ASSUME OpenProfile PROVE Saved'
  <2>1. dialog'.original = dialog.original
    BY <1>1, <1>6 DEF OpenProfile
  <2> QED BY <1>1, <1>4, <1>6, <2>1 DEF OpenProfile
<1>7. ASSUME CloseProfile PROVE Saved'
  <2>1. dialog'.original = dialog.original
    BY <1>1, <1>7 DEF CloseProfile
  <2> QED BY <1>5, <1>7, <2>1 DEF CloseProfile
<1>8. ASSUME Type PROVE Saved'
  <2>1. dialog'.original = dialog.original
    BY <1>1, <1>8 DEF Type
  <2> QED BY <1>5, <1>8, <2>1 DEF Type
<1>9. ASSUME DeleteAccount PROVE Saved'
  <2>1. dialog'.original = dialog.original
    BY <1>1, <1>9 DEF DeleteAccount
  <2> QED BY <1>1, <1>4, <1>9, <2>1 DEF DeleteAccount
<1>10. ASSUME PressLogout PROVE Saved'
  <2>1. dialog'.original = dialog.original /\ drift' = drift
    BY <1>10 DEF PressLogout, dialogVars
  <2> QED BY <1>1, <1>4, <1>10, <2>1 DEF PressLogout
<1>11. ASSUME NEW i \in DOMAIN answers, NEW more \in SUBSET Request,
              more = {} \/ \E m : more = {m}, \A m \in more : m.op # "save",
              Arrive(i, "form", more), Original'
       PROVE  Saved'
  <2>1. Rows'
    BY <1>1, <1>11, ArriveRows
  <2>2. Saves'
    <3> DEFINE to == "form"
               T == {[q EXCEPT !.scope = Lowered(@, to)] : q \in asks}
    <3>1. asks' = T \cup more
      BY <1>11 DEF Arrive
    <3>2. T = {[q EXCEPT !.scope = Lowered(@, to)] : q \in asks}
          /\ to \in Scope
      BY <1>1
    <3> HIDE DEF T, to
    <3> QED BY <1>1, <1>2, <1>11, <3>1, <3>2, LoweredSaves
  <2> QED BY <1>11, <2>1, <2>2 DEF Saved
\* What an answer does to the saves that are served but not answered.
<1>12. ASSUME NEW i \in DOMAIN answers, NEW more \in SUBSET Request,
              more = {} \/ \E m : more = {m}, Arrive(i, "form", more)
       PROVE  /\ \A u : /\ SaveServed(answers, u, 0)
                        /\ answers[i].op # "save" \/ answers[i].who # u
                        => SaveServed(answers', u, 0)
              /\ \A u : SaveServed(answers, u, i) => SaveServed(answers', u, 0)
  BY <1>1, <1>12, ArriveRows
\* The dialog takes over the row of an answer that nothing has overtaken.
<1>13. ASSUME NEW i \in DOMAIN answers, Arrive(i, "form", {}),
              answers[i].op \in {"get", "save"}, answers[i].result = "ok",
              dialog' = Filled(answers[i].row),
              drift' = (answers[i].late \/ answers[i].who # user)
       PROVE  Original'
  <2>1. dialog'.original = answers[i].row
    BY <1>1, <1>13 DEF Filled
  <2>2. ASSUME user \in DOMAIN users, ~drift'
        PROVE  SaveServed(answers', user, 0) \/ answers[i].row = users[user]
    <3>1. answers[i].late = FALSE /\ answers[i].who = user
      BY <1>1, <1>13, <2>2 DEF Reply
    <3>2. answers[i].row = users[user] \/ SaveServed(answers, user, i)
      BY <1>1, <1>13, <2>2, <3>1 DEF Rows
    <3> QED BY <1>1, <1>12, <1>13, <3>2
  <2> QED BY <1>2, <2>1, <2>2 DEF Original
<1>14. ASSUME NEW i \in DOMAIN answers, GetArrives(i) PROVE Saved'
  <2> DEFINE a == answers[i]
  <2>1. a.op = "get" /\ Arrive(i, "form", {})
    BY <1>14 DEF GetArrives
  <2>2. CASE a.scope = "form" /\ a.result = "ok"
    <3>1. dialog' = Filled(a.row) /\ drift' = (a.late \/ a.who # user)
      BY <1>14, <2>2 DEF GetArrives
    <3> QED BY <1>1, <1>11, <1>13, <2>1, <2>2, <3>1
  <2>3. CASE ~(a.scope = "form" /\ a.result = "ok")
    <3>1. dialog'.original = dialog.original /\ drift' = drift
      BY <1>1, <1>14, <2>3 DEF GetArrives, dialogVars
    <3>2. Original'
      BY <1>1, <1>3, <1>12, <2>1, <3>1
    <3> QED BY <1>1, <1>11, <2>1, <3>2
  <2> QED BY <2>2, <2>3
<1>15. ASSUME NEW i \in DOMAIN answers, SaveArrives(i) PROVE Saved'
  <2> DEFINE a == answers[i]
  <2>1. a.op = "save" /\ Arrive(i, "form", {})
    BY <1>15 DEF SaveArrives
  <2>2. a.result \in {"ok", "refused", "lost"}
    BY <1>1 DEF Reply
  <2>3. CASE a.result = "refused"
    <3>1. dialog'.original = dialog.original /\ drift' = drift
      <4>1. dialog' \in {dialog, [dialog EXCEPT !.busy = FALSE]}
        BY <1>15, <2>3 DEF SaveArrives
      <4>2. drift' = drift
        BY <1>15, <2>3 DEF SaveArrives
      <4> QED BY <1>1, <4>1, <4>2
    <3>2. a.who = 0
      BY <2>1, <2>3 DEF Typed, Known
    <3>3. Original'
      BY <1>1, <1>3, <1>12, <2>1, <3>1, <3>2
    <3> QED BY <1>1, <1>11, <2>1, <3>3
  <2>4. CASE a.result # "refused" /\ (a.result = "lost" \/ a.scope # "form")
    <3>1. drift' = (user # 0)
      BY <1>15, <2>4 DEF SaveArrives
    <3>2. Original'
      BY <1>1, <1>2, <3>1 DEF Original
    <3> QED BY <1>1, <1>11, <2>1, <3>2
  <2>5. CASE a.result = "ok" /\ a.scope = "form"
    <3>1. dialog' = Filled(a.row) /\ drift' = (a.late \/ a.who # user)
      BY <1>15, <2>5 DEF SaveArrives
    <3> QED BY <1>1, <1>11, <1>13, <2>1, <2>5, <3>1
  <2> QED BY <2>2, <2>3, <2>4, <2>5
<1>16. ASSUME NEW i \in DOMAIN answers, DeleteArrives(i) PROVE Saved'
  <2>1. /\ answers[i].op = "delete" /\ drift' = drift
        /\ dialog' = IF answers[i].scope = "form"
                     THEN [dialog EXCEPT !.busy = FALSE] ELSE dialog
    BY <1>16, DeleteFacts
  <2>2. PICK more \in SUBSET Request :
          /\ Arrive(i, "form", more)
          /\ more = {} \/ \E m : more = {m}
          /\ \A m \in more : m.op = "logout"
    BY <1>16, DeleteFacts
  <2>3. dialog'.original = dialog.original
    BY <1>1, <2>1
  <2>4. Original'
    BY <1>3, <1>12, <2>1, <2>2, <2>3
  <2> QED BY <1>11, <2>2, <2>4
<1> QED BY <1>6, <1>7, <1>8, <1>9, <1>10, <1>14, <1>15, <1>16, SaveSaved
        DEF ProfileStep

\* No dialog, and no profile request.
LEMMA InitSaved == Init => Saved
<1> SUFFICES ASSUME Init PROVE Saved
  OBVIOUS
<1>1. /\ asks = {Ask("me", NoForm, "app")} /\ answers = <<>>
      /\ dialog = Closed
  BY DEF Init
<1>2. Ask("me", NoForm, "app").op = "me"
  BY DEF Ask
<1>3. Closed.original = NoForm /\ DOMAIN answers = {}
  BY <1>1 DEF Closed
<1> QED BY <1>1, <1>2, <1>3 DEF Saved, Rows, Original, Saves

\* Every step keeps Saved.
LEMMA StepSaved == Typed /\ Saved /\ [Next]_vars => Saved'
<1> SUFFICES ASSUME Typed, Saved, [Next]_vars PROVE Saved'
  OBVIOUS
<1>1. CASE ServerStep /\ UNCHANGED <<sessionVars, dialogVars>>
  BY <1>1, ServerSaved
<1>2. CASE SessionStep /\ Remount
  BY <1>2, SessionSaved
<1>3. CASE ProfileStep /\ UNCHANGED sessionVars
  BY <1>3, ProfileSaved
<1>4. CASE UNCHANGED vars
  BY <1>4 DEF vars, cookieVars, serverVars, sessionVars, dialogVars, Saved,
              Rows, Original, Saves
<1> QED BY <1>1, <1>2, <1>3, <1>4 DEF Next

\* OriginalIsTheRow: what handleProfileSave compares the fields with is the
\* user's row in the database, unless a save is under way or the history says
\* why the two may differ.
THEOREM ProfileIsTheRow == Spec => []OriginalIsTheRow
<1>1. Saved => OriginalIsTheRow
  BY DEF Saved, Original, SaveServed, SavePending, OriginalIsTheRow
<1> QED BY <1>1, InitTyped, StepTyped, InitSaved, StepSaved, PTL DEF Spec

\* UneditedStays: a save sends all fields, and yet the handler changes none the
\* user did not edit, but for trimming it, because what is sent for the others
\* is, trimmed, what the row still has when the save is served.
THEOREM SavesPutNothingBack == Spec => UneditedStays
<1> DEFINE A == \A q \in asks \ asks' :
       q.op = "save" /\ ~q.unsure
         /\ q.as \in DOMAIN users \cap DOMAIN users' =>
         \A x \in {"name", "email"} :
           x \notin q.edited =>
             users'[q.as][x] \in {users[q.as][x], Trim[users[q.as][x]]}
<1>1. Typed /\ Saved /\ [Next]_vars => [A]_vars
  <2> SUFFICES ASSUME Typed, Saved, Next, NEW q \in asks \ asks',
                      q.op = "save", ~q.unsure,
                      q.as \in DOMAIN users \cap DOMAIN users',
                      NEW x \in {"name", "email"}, x \notin q.edited,
                      users'[q.as][x] # users[q.as][x]
               PROVE  users'[q.as][x] = Trim[users[q.as][x]]
    OBVIOUS
  <2>1. ServerStep
    BY PageLeavesAccounts DEF Next
  <2>2. asks' # asks
    OBVIOUS
  <2>3. PICK p \in asks :
          \/ Me(p) \/ Login(p) \/ Register(p) \/ UpdateMe(p) \/ DeleteMe(p)
          \/ Logout(p) \/ Refuse(p)
    BY <2>1, <2>2 DEF ServerStep, Lose, Expire
  <2>4. asks' = asks \ {p}
    BY <2>3, Zenon
       DEF Me, Login, Register, UpdateMe, DeleteMe, Logout, Refuse, Serve
  <2>5. p = q
    BY <2>4
  <2>6. UpdateMe(q)
    BY <2>3, <2>5
       DEF Me, Login, Register, DeleteMe, Logout, Refuse, serverVars
  <2>7. users'[q.as] = Merged(q.as, q.form)
    BY <2>6 DEF UpdateMe
  <2>8. q.form[x] # Blank /\ users'[q.as][x] = q.form[x]
    BY <2>7 DEF Merged
  <2> QED BY <2>8 DEF Saved, Saves
<1> QED BY <1>1, InitTyped, StepTyped, InitSaved, StepSaved, PTL
        DEF Spec, UneditedStays
=============================================================================
