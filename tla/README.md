# HWTest, verified

HWTest is a chat server in Go (gin, gorm over MariaDB, gorilla/websocket) with a
React page. Users register, create channels, join those of others by
`owner@channel` and chat over one WebSocket per channel on show. The repository
has no tests; the hard part of the program is what its goroutines, requests and
callbacks do in orders nobody tried. This directory models that part in TLA+,
checks it with TLC and proves some of it with TLAPS.

Paths below are relative to the repository, except the modules, which are here.

## 1. Inventory

| Component | State | Operations | Talks to |
|---|---|---|---|
| Hub, `internal/ws/hub.go` | `h.clients`; three unbuffered channels; one goroutine per channel | `run` (register, unregister, broadcast), `Register`, `Unregister`, `Manager.Get` | pumps, over Go channels |
| Pumps, `internal/ws/client.go` | `c.send` (256 messages), the connection, two goroutines per connection | `ReadPump`, `WritePump` | hub; the peer |
| WebSocket handler, `internal/controllers/ws_controller.go` | none of its own; a global upgrader | `Serve` | database, `Manager`, pumps |
| Account handlers, `internal/controllers/auth_controller.go` | locals of each request | `Register`, `Login`, `Me`, `UpdateMe`, `DeleteMe`, `Logout` | database, cookies |
| Channel handlers, `internal/controllers/channel_controller.go` | locals of each request | `ListMine`, `Create`, `Search`, `ListJoined`, `Join`, `ListMembers`, `Delete` | database |
| Database, `schema.sql`, `internal/models` | `users`, `channels`, `channel_members` | the statements of the handlers | - |
| Rate limiter, `internal/middleware/ratelimit.go` | `entries`, a mutex | `Allow` | in front of register and login |
| Token check, `internal/middleware/auth.go`, `internal/utils/jwt.go` | none; a token carries id and name for 24 h | `Auth`, `GenerateToken`, `ParseToken` | in front of everything else |
| Chat page, `webFianalFrontend/src/components/ChatLayout.tsx` | channels, active channel, messages, members, `wsRef`, the profile dialog, requests under way | clicks, answers, the effect on the active channel, socket events, `fetchProfile`, `handleProfileSave`, `handleDeleteAccount` | REST, WebSocket |
| Page shell, `App.tsx`, `LoginScreen.tsx`, `LoginForm.tsx`, `RegisterForm.tsx` | the user, the form on show, whether it is busy | fetchMe, tabs, login, register, logout | REST; the browser's cookie, which every answer may set |
| Start-up: `cmd/server`, `internal/config`, `internal/db`, `internal/routes` | - | read the environment, make the tables, set up routes | - |

What is hard, component by component, and what makes the component correct:

* **Hub and pumps.** Every connection has two goroutines, every channel a third,
  and any of them may notice first that the peer is gone. Two places close
  `c.send` and one sends on it: the wrong order is a panic that ends the server.
  The unbuffered channels make the hub a place where everybody could wait for
  everybody. Correct means: no panic; one order of messages for all, without
  gaps or repetitions as long as one is a member; nobody holds up the others;
  every goroutine of a broken connection ends.
* **Handlers over the database.** Only `DeleteMe` uses a transaction of its own.
  All others check with one statement and act with a later one; some drop the
  error of a statement; `Save` writes every column of a row read earlier and
  inserts the row when it is gone. Correct means: no dangling or duplicate rows,
  rows go only at the request of someone they belong to, a success means that it
  was done, and an error, which may come after a write, that all of it was done
  or nothing.
* **Rate limiter.** The clock is read before the mutex is taken, so requests
  decide in another order than that of their readings. Correct means: a bound on
  what gets through in any stretch of one window; no refusal without a reason.
* **Chat page.** Answers and socket events come after the user moved on. Correct
  means: one live connection, that of the channel on show; only its messages
  are shown; the page connects only to channels that the server listed, created
  or let the user join, which may have been deleted since.
* **Getting into a hub.** `Serve` looks up, upgrades and asks the manager for the
  hub, with nothing held in between. Correct means: one hub for a channel; nobody
  in who had no right to be; nobody who was upgraded waits for ever.
* **Tokens and cookies.** A token is believed for 24 hours whatever happened to
  the account. Correct means that requests for a deleted account do no harm.
* **Page shell and profile dialog.** The page shows a user and requests act for
  the cookie's account; the two are set by different callbacks, and answers come
  late, out of order, for forms that are gone, or not at all. Correct means: the
  two agree, or where they do not it is known why; a save overwrites nothing the
  user did not touch; no button stays disabled for nothing.

`PROJECT.json` lists the hazards line by line, with the properties that cover
each or the reason that none does.

## 2. Modules

| Module | Models | Uses |
|---|---|---|
| `Room` | what a channel promises its connections (abstract) | - |
| `Hub` | one hub, its connections and their pumps | instantiates `Room` |
| `HubProofs` | theorems about `Hub` | `Hub` |
| `HubRefinement` | the proof that `Hub` implements `Room` | `HubProofs` |
| `Database` | tables, keys, statements | - |
| `DatabaseProofs` | what each statement keeps | `Database` |
| `Requests` | requests being served, crashes | `Database` |
| `Accounts`, `Channels` | the handlers that change tables | `Requests` |
| `Api` | all of them at once, and the properties | `Accounts`, `Channels` |
| `ApiProofs` | theorems about `Api` | `Api`, `DatabaseProofs` |
| `RateLimiter` | the limiter | - |
| `RateLimiterProofs` | theorems about `RateLimiter` | `RateLimiter` |
| `ChatClient` | the chat page: channels, messages, WebSockets | - |
| `ChatClientProofs` | theorems about `ChatClient` | `ChatClient` |
| `Sockets` | `Serve` up to the registration, and `Manager.Get` | - |
| `SocketsProofs` | theorems about `Sockets` | `Sockets` |
| `Cookies` | the account handlers as the page sees them, and the browser's cookie | - |
| `Session` | which screen the page shows, for whom | `Cookies` |
| `Profile` | the profile dialog | `Session` |
| `Page` | the three together, and the properties | `Profile` |
| `PageProofs` | theorems about `Page` | `Page` |
| `HubMC`, `ApiMC`, `RateLimiterMC`, `ChatClientMC`, `SocketsMC`, `PageMC` | symmetry sets and constants for TLC | the module they name |

Operators whose comment starts with "Mutant of" are the code with one plausible
mistake. Nothing uses them; `PROJECT.json` pairs each with a property that fails
when the mistake is put in, which shows that the property watches that code.

### Hub

Sending on an unbuffered Go channel is a rendezvous with the hub's `select`, so
`Register`, `Broadcast` and `Unregister` are single actions that do both sides,
enabled when the hub is at its select. A fan-out is not atomic, because the
WritePumps run beside it: `Broadcast` sets `todo` to the clients to visit and
`FanOut(c)` is one turn of the loop, in any order, as map iteration is.

| Model | Code |
|---|---|
| `clients`, `todo` | `h.clients`; what the loop at `hub.go:36` has still to visit |
| `send[c]`, `closed[c]` | `c.send` and whether it was closed |
| `handler[c]` | where the goroutine of `Serve` and `ReadPump` is |
| `writer[c]`, `hand[c]` | where `WritePump` is, and the message it took |
| `conn[c]` | `open`, `lost` (the peer is gone, a read fails) or `closed` by us |
| `log`, `joinedAt`, `written` | history only: nothing reads them |

A deadline that expires is a peer that is lost or a write that fails, both of
which may happen at any time, so there is no clock. `WriteSucceeds` is possible
on a lost connection: the kernel takes the bytes.

### Database, Requests, Accounts, Channels, Api

A request is a program counter (`at`) and the handler's locals; one action is
one SQL statement with the code up to the next one. A statement is a condition
(unique and foreign keys) and a change. `DbFails` says whether statements may
also fail for reasons outside the tables (a lost connection, a lock timeout; the
failure of bcrypt, which answers 500 as well, is counted among them). Then
nothing was written, or the statement is done and the answer is an error all the
same (`ReplyDone`): the connection was lost after the COMMIT went out, or the
token that `Register` and `UpdateMe` make after the write
(`auth_controller.go:73`, `:191`) was not made. `Crash` ends all requests between
any two statements.

Three things the code leaves to gorm and MariaDB matter and are modelled from
how the code uses them:

* `Save` is an `UPDATE` of all columns and, when no row was affected, an `INSERT
  ... ON DUPLICATE KEY UPDATE` of all columns. MariaDB counts a row as affected
  only if it changed, so the second statement also runs when there was nothing
  to change. It updates the row that collides on the id, or else on the
  username, or else on the email.
* In `DeleteMe`'s transaction the `SELECT` reads a snapshot and the `DELETE`s
  see, and lock, what is there now. So the transaction is two actions:
  `DeleteMeList` and `DeleteMePurge`. Its deletes hold their row and gap locks
  until the commit, which is why they are one action.
* `FirstOrCreate` is a `SELECT` and an `INSERT`, two actions.

A request may act for any user id ever issued (`KnownUser`), because `Auth`
looks at the token only.

### RateLimiter

`ReadClock` is `time.Now()` before the mutex; `Allow` is what the mutex
protects. Time is a counter; a request waits for the mutex at most `Lag` ticks.
`grants` is history: when each request of an address was let through, and the
entry it left behind.

### ChatClient

JavaScript runs one callback at a time: each is an action. `active` is
`activeChannelId`, `ran` the value the effect last ran for; between a change of
one and the effect (`RunEffect`) any other callback may come. For a click React
runs the effect at once, so the model allows more orders than occur there; after
an answer it does not. `sockets` holds every WebSocket ever made with its
`readyState`. A browser fires no message event for a socket that is closing,
and a socket closed while connecting never opens; `SocketMessage` and
`SocketOpens` have that from the WebSocket standard. The server grants or
refuses as it likes. `Unmount` is App forgetting its user and a chat mounting
for the next one; what happens in between is only that old sockets close. `ChangeUser`
is App changing its user under a chat that stays: the list is fetched again and
merged with what is there, so the channels of both users are listed, and
`OnlyAdmittedChannels` is about both. `late` is history: the channels whose members
were asked for before the effect last ran for a channel, or by a join since; their
answers may show the wrong members, and `StrayMembersAreLate` says that no others do.

### Sockets

One goroutine for each connection asked for, one action for each statement of
`Serve` that reads shared state and for each step of `Manager.Get` under `m.mu`.
The tables change beside it by the statements of the other handlers. What the
code reads of the tables is who owns a channel and who is a member, so that is
what is kept. A channel's owner never changes.

| Model | Code |
|---|---|
| `at[k]` | where `Serve` is (`ws_controller.go:27-66`, `hub.go:67-79`) |
| `mu`, `hubs` | `m.mu`, `m.hubs` |
| `hub[k]` | what `Get` returned |
| `entitled[k]` | history: `k`'s user had a right to the channel since the request began |

### Cookies, Session, Profile, Page

`Cookies` has a request as a record that is first in `asks` and, once served, in
`answers`; each handler serves in one step, because its statements are the
business of `Accounts`. `Arrive` is the browser's part of an answer: the
Set-Cookie acts whatever the page does with the answer. `Session` and `Profile`
have the page's part, one callback for each action.

| Model | Code |
|---|---|
| `user` | `user` in `App.tsx`; an id stands for the name and email shown |
| `mode` | `loading` in `App.tsx` (`"blank"`), else `mode` in `LoginScreen.tsx` |
| `busy` | `loading` of the form on show |
| `dialog` | `showProfile`, `profileLoading`, the fields and `profileOriginal` |
| `cookie` | the browser's `auth_token`; the account it was issued for |
| `scope` of a request | what is left of the component that sent it: React does not stop a request when a component unmounts, its setters just do nothing |
| `kept`, `drift`, `setBy`, `late`, `edited`, `unsure` | history only, for the exceptions in the properties |

`Register` refuses an empty name or email, so no account has one
(`CookieAssumption`); a field of the dialog can be cleared, and `Merged` leaves
the column of an empty field alone. Which texts have an '@' is a constant
(`WithAt`): `LoginForm` goes by it, and the registration form, a `<form>` with
`type="email"`, asks for one, but the dialog is no form and `UpdateMe` does not
look. What `trim()` makes of a text is another (`Trim`): `handleProfileSave`
compares and sends trimmed fields (`Trimmed`), while the registration trims
nothing; a name of blanks only is trimmed to none and left alone. `Lose` is an
answer that never comes, or that is an error although the row was written. `MaxAsks` is at least one, because the page
sends its first request itself.

A component unmounts when a tab changes (`SwitchMode`), when the LoginScreen
makes way for the chat and back (`Remount`). A login that is answered while the
chat is shown replaces App's user and keeps the chat and its dialog.

## 3. Runs

| Run | Instance | Shows |
|---|---|---|
| `hub_safety` | 2 connections, buffer 1, 2 messages each | `NoPanic`, `InOrder`, `MembersMissNothing`, `ClosedIffRemoved`; the hub implements `Room` |
| `hub_live` | 2 connections, buffer 1, 1 message each | goroutines of ended connections return, messages arrive or the connection breaks, nobody stops the hub |
| `api_accounts` | 2 requests; register, update, delete account; 2 users, 2 passwords | `Integrity`, `OnlyDeletedAccountsStray`, `ErrorIsAllOrNothing` |
| `api_channels` | 2 requests; register, create, join, delete, delete account; 2 users, 2 channels | `Integrity`, `OnlyOwnersDelete`, `DeletedChannelIsGone`, `ErrorIsAllOrNothing`, `JoinedMeansMember` |
| `limiter` | 2 addresses, 2 requests, limit 2, window 1, lag 2, 5 ticks | `BurstIsBounded`, `ExpiryOnlyGrows`, `RefusedOnlyWhenSpent` |
| `sockets` | 2 connections, 2 channels of different owners, 2 users | `OneRoom`, `OnlyTheEntitled`, `UpgradedGetsIn` |
| `page` | 2 accounts ever made, 2 requests under way, a name with a blank before another's name, an email without an '@' | `CookieIsTheUsers`, `SignedOutMeansNoCookie`, `OriginalIsTheRow`, `UneditedStays`, `BusyEnds`, `TextFindsItsAccount` |
| `chat_client` | 2 channels, 2 requests under way, 3 sockets | `OneConnection`, `OnlyItsMessages`, `ActiveIsListed`, `OnlyAdmittedChannels`, `StrayMembersAreLate` |
| `api_omitted`, `api_undone`, `api_stray` | 2 requests | the first three findings below |
| `api_join_fails` | 2 requests; register, create, join; 2 users, so that the one who joins need not be the owner | the fourth |

Why the bounds are enough. Two connections are a sender and a receiver that is
slow, dropped or gone, and either may be both; a buffer of one is full after one
message, so that dropping, the case that a buffer of 256 hides, happens on the
second. Two messages per connection make an order that could be broken. Two
requests give every interleaving of two handlers, and each of the races found
needs two; a request that ended is used again. Ids are never reused, so the number of user ids bounds
how many accounts are ever made: two let an account be deleted and its name,
its email or both be taken by another, and a second password tells whose row it
is. In `limiter` the clock runs through two
windows and their edges, and the bound `Windows * Limit` is tight: with a lag of
two ticks `2 * Limit` is exceeded. Three sockets let a page return to a channel
while its first socket is still closing. In `sockets` two connections race in
`Get`, for one channel or for two, and each ends and is asked for again. In
`page` two requests under way overtake each other and two accounts let the page
and the cookie disagree; each exception that a property allows was seen to be
necessary: without it TLC finds a behaviour of the code that it covers (but for
a name with an '@', which the instance has no room for and the proof covers). The
texts typed are those that matter: a name that trimming changes into one that is
free or taken, and a text without an '@' that is a name and an email (`SignUps`,
`NewName`, `NewEmail`). Connections, requests,
names, emails, passwords, addresses and channel ids are permuted (SYMMETRY) in
the runs `hub_safety`, `api_*`, `limiter` and `chat_client`, where no action or
property names one of them.

**What some bounds mean.** `BurstIsBounded` says that in any stretch as long as
one window an address gets at most `Windows * Limit` requests through, where
`Windows` is 2 as long as no request waits for the mutex longer than a tick: a
fixed-window limiter lets the end of one window and the beginning of the next
through, and this one no more than that.

**What the page's exceptions mean.** `CookieIsTheUsers` and
`SignedOutMeansNoCookie` list all the ways in which the screen and the cookie
part: a registration signs in behind a page that asks to sign in
(`auth_controller.go:79` against `RegisterForm.tsx:46`); a profile update that is
answered late does the same after a logout; a logout that fails shows the login
form and leaves the cookie (`App.tsx:63`); an account is deleted, or a day passes.
`OriginalIsTheRow` and `UneditedStays` hold as long as the page has seen the
answers to its own saves, in order, for one account; another device is not
modelled, and its saves would be put back. What a save may do to a field that the
user did not edit is to trim it: whoever registered as `" ann"` and changes the
email is `"ann"` afterwards (`ChatLayout.tsx:227` against `RegisterForm.tsx:39`), or
is refused if there is another one. `TextFindsItsAccount` is about emails with an
`@` and names without: a name with one is sent as an email and an email without
one as a name (`LoginForm.tsx:50`), although the field is labelled "Email or name",
and may be another account's. `StrayMembersAreLate` says which wrong members can be
shown, not that they go away: they stay until the effect runs again or another
list of members comes.

**What an error means.** `ErrorIsAllOrNothing` is about answers that are errors
although the request changed a table. A registration or a profile update has then
put its whole payload into a row (for an update of a deleted account, perhaps into
the row of somebody else: the third finding), and the deletion of an account has
left none of its rows. Creating a channel may fail between the channel and the
owner's membership, deleting one between the members and the channel.

### Fairness

`Hub!FairSpec` is used by `hub_live`; it is fairness of goroutines, not of actions.
A handler that waits at a rendezvous on an unbuffered channel gets strong
fairness: senders wait in the channel's FIFO queue, and `select` picks uniformly
among the cases that are ready, so one that is ready again and again is taken.
What a handler, the hub or a WritePump can do by itself gets weak fairness: the
Go scheduler is preemptive. In particular a write succeeds or fails, since the
write deadline of 10 seconds ends it. Nothing makes a client connect, post or
disconnect: `Connect`, `ReadMessage`, `PeerLost` and `PingFails` are not fair, so
no property relies on a connection's breaking.

`Sockets!FairSpec`, used by `sockets`, has weak fairness of each goroutine in
`Serve` and strong fairness of taking the mutex: `sync.Mutex` hands itself to a
goroutine that has waited for a millisecond. Nothing makes a client dial or
leave, and a goroutine may always be refused before it is upgraded, so
`UpgradedGetsIn` starts at the lock.

The other modules state safety only and their specifications no fairness: an
HTTP request may be cut off at any point, and a browser page may be closed.

### Findings

* `OmittedFieldsStay`: of two profile updates of one account at once, one
  silently undoes the other, though each left out what the other changed
  (`auth_controller.go:186`, against `README.md:78`).
* `DeletionCannotBeUndone`: a profile update that was under way when its
  account was deleted inserts the account again (`auth_controller.go:186`,
  against the confirmation at `ChatLayout.tsx:268`).
* `ProfileIsEditedByItsOwner`: the same update can overwrite the row of somebody
  who registered the free name or email in between (`auth_controller.go:186`).
  `OnlyDeletedAccountsStray` shows that this takes a deleted account: no other
  order of requests writes to another's row.
* `JoinAnswerIsTrue`: joining answers 200 also when the membership could not be
  looked up or inserted (`channel_controller.go:118`), and a user who does not own
  the channel is then refused by the WebSocket with 403 (`ws_controller.go:43`). `JoinedMeansMember` shows that this
  takes a failing statement: the races alone do no harm.

## 4. Proofs

`HubProofs`, for any set of connections, any buffer capacity of at least one
(`HubAssumption`) and any number of messages:

| Theorem | States |
|---|---|
| `TypeInvariant` | `Spec => [](TypeOK /\ Control)` |
| `ClosedIsRemoved` | `Spec => []ClosedIffRemoved` |
| `HubNeverPanics` | `Spec => []NoPanic` |
| `NoGapNoReorder` | `Spec => []InOrder` |
| `NothingMissed` | `Spec => []MembersMissNothing` |

`TypeOK` is not inductive: that `WritePump` has a message to write when it is at
the write needs to know where it has been. `Control` adds where the two
goroutines of a connection can be at once (the WritePump exists once its handler
is past `Register`, a connection not yet registered has no part in the hub, the
WritePump's hand is full exactly at the write). `ClosedIffRemoved` is inductive
with these two, since `Remove` is the only step that closes a buffer, and
`NoPanic` follows: a client in `clients` has an open buffer, and `todo` is a
subset of `clients`.

`InOrder` is about the concatenation of what is written, in hand and in the
buffer; a step moves a message from one to the next. Its inductive form, `Order`,
says for each of the three separately at which position of `log` it starts and
that it matches there, with lemmas for a stage that gains its last message
(`MatchesAppend`), loses its first (`MatchesTail`) or sees the log grow
(`MatchesLonger`); `UpToDate` says where the last stage ends. `PipelineMatches`
puts the stages together again.

`SocketsProofs`, for any connections, users and channels, whoever owns them
(`OwnerAssumption`, `NobodyAssumption`):

| Theorem | States |
|---|---|
| `TypeInvariant` | `Spec => []TypeOK`, where every hub ever made is in `m.hubs` |
| `ChannelsHaveOneRoom` | `Spec => []OneRoom` |
| `AdmittedWereEntitled` | `Spec => []OnlyTheEntitled` |

`OneRoom` needs two facts besides itself (`Mutex`): a goroutine is between `Lock`
and `Unlock` exactly if it holds the mutex, and one that goes to make a hub has
found none for its channel. The second stays true only because of the first:
nobody else writes `m.hubs` meanwhile. That a hub's number is new, so that no two
channels share one, comes from `TypeOK`, which counts the hubs in the map.
`OnlyTheEntitled` rests on `Watched`: the history is never behind the tables.

`ChatClientProofs`, for any channels (`HomeAssumption`) and any number of sockets
and requests:

| Theorem | States |
|---|---|
| `TypeInvariant` | `Spec => []TypeOK` |
| `OneLiveConnection` | `Spec => []OneConnection` |
| `ShowsItsMessages` | `Spec => []OnlyItsMessages` |
| `ConnectsWhereAdmitted` | `Spec => []OnlyAdmittedChannels` |
| `ShowsAListedChannel` | `Spec => []ActiveIsListed` |
| `StrayMembersWereAskedFor` | `Spec => []StrayMembersAreLate` |

The inductive invariant adds that the newest socket is for the channel the
effect ran for (`Newest`), that the list and that channel come from the server
(`Entered`), that requests are about channels (`Aimed`) and that members are asked
for only for the channel the effect ran for or for one in `late` (`Asked`): that
last one needs `OneConnection`, because a socket that opens asks for members too. `ClosingCloses` says
what `close()` leaves live; `EffectStep` is the one step that makes a socket.

`HubRefinement`, under the assumptions of `HubProofs`:

| Theorem | States |
|---|---|
| `HubImplementsRoom` | `Spec => ImplementsRoom` |

`Room` promises one order of messages, of which every connection is shown a
stretch that starts where it joined and ends at a cut fixed when it leaves. The
mapping reads `phase` and `posted` off `clients`, `handler` and `sent`, and the
cut of a connection whose buffer is closed is where its three stages end. There
is one lemma for each kind of step:
`RegisterJoins`, `BroadcastPosts`, `WriteDelivers`, `FanOutLeavesOrNothing`,
`UnregisterLeavesOrNothing` and `PumpsAreInvisible` for the eleven actions that
the room does not see. `Order` is what makes it go through: the stretch a client
was promised is exactly what is left in its buffer, so a delivery never goes
past the cut and a closed buffer drains up to it. `ImplementsRoom` has no
liveness part.

`DatabaseProofs` and `ApiProofs`, for any number of requests, any names, emails,
passwords and channel names and any number of rows (`DatabaseAssumption`,
`RequestAssumption`), with crashes and with failing statements or without:

| Theorem | States |
|---|---|
| `TypeInvariant` | `Spec => []TypeOK` |
| `TablesStaySound` | `Spec => []Integrity` |
| `DeletedStaysDeleted` | `Spec => []DeletedChannelIsGone` |
| `ErrorsAreAllOrNothing` | `Spec => ErrorIsAllOrNothing` |
| `OwnersDelete` | `Spec => OnlyOwnersDelete` |
| `OnlyStraysOfTheDeleted` | `Spec => OnlyDeletedAccountsStray` |
| `JoinedIsMember` | `Spec => JoinedMeansMember` |

The invariant has two halves. `Sound` is about the tables alone, and
`DatabaseProofs` shows statement by statement that whatever the database accepts
keeps it: `UpsertUserSound` is where it could fail, because `Save` may write to a
row found by its name or email. `Knows` is about each request: where its program
counter is, what its locals hold (`Running`), and what an earlier statement of
it saw that is true still (`StillTrue`). The other requests run between the two,
so `Knows` may only mention what no statement of anybody can undo; that is
`Lasting`: ids are never reused, a channel's row is never changed, and one that
is gone stays away. `OneRequestSteps` combines these once, and the lemma of each
handler (`RegisterKeeps`, `UpdateMeKeeps`, `DeleteMeKeeps`, `JoinKeeps`, `DeleteKeeps`)
has only its own request to look at. That a handler may act on an owner it saw
two statements earlier, and that `UpdateMe` has no such fact to rely on about
`users`, whose rows change and can be made again, is the difference between the properties
that hold here and the findings above.

`RateLimiterProofs`, for any addresses, requests, limit, window and lag
(`LimiterAssumption`):

| Theorem | States |
|---|---|
| `TypeInvariant` | `Spec => []TypeOK`: no window counts more than `Limit` |
| `WindowsOnlyMoveOn` | `Spec => ExpiryOnlyGrows` |
| `RefusedWhenSpent` | `Spec => RefusedOnlyWhenSpent` |
| `BurstsAreBounded` | `Spec => []BurstIsBounded` |

A grant is noted with the entry it left. By `Ordered` the grants of an address
are ordered by these entries: the same window with a smaller count, or one that
had ended when the later began, although readings of the clock are stale; a grant
is made at most `Lag` after its window ended (`InWindow`). So two grants in one
stretch differ in their window or in their count, and the windows that a stretch
can meet are `Window + 1` apart: there are no more than `Windows` of them. The
bound is then a count of places, an injection into a finite set, which needs no
induction. `Counted` is the converse: each request that the entry counts was
granted, so a refusal follows `Limit` grants.

`PageProofs`, for any names, emails and texts, any number of accounts and any
number of requests under way (`CookieAssumption`, `WithAtAssumption`,
`TrimAssumption`; nothing is assumed of `Trim` but that it takes names to names,
emails to emails or either to nothing):

| Theorem | States |
|---|---|
| `TypeInvariant` | `Spec => []TypeOK` |
| `TextsFindAccounts` | `Spec => []TextFindsItsAccount` |
| `RequestsActForTheUser` | `Spec => []CookieIsTheUsers` |
| `SignedOutHasNoCookie` | `Spec => []SignedOutMeansNoCookie` |
| `NothingWaitsInVain` | `Spec => []BusyEnds` |
| `ProfileIsTheRow` | `Spec => []OriginalIsTheRow` |
| `SavesPutNothingBack` | `Spec => UneditedStays` |

There are four inductive invariants, each kept with the help of the first.

* `Typed` adds to the types what requests and answers name (`Known`): accounts
  that were made, and no account exactly in the answers that clear the cookie.
* `Unique`: what the unique indexes keep. `TextsFindAccounts` follows, since the
  login form sends a text with an '@' as an email and any other as a name.
* `Shown` has the three properties of the screen and the cookie together with
  what they need. While App is loading there is nothing under way but its own
  fetchMe, sent with the cookie of now unless that has expired (`OnlyMe`); after
  that there is no fetchMe any more. `Waiting` is `BusyEnds` for the forms and the
  dialog. That a page without a user has no dialog (`Screens`) is not inductive
  without `DialogGone`: an answer that came for a dialog that went with its chat
  would fill in the next one.
* `Saved` relates three places that have a profile: the row, the dialog, and the
  requests and answers between them. `answers` is in the order of service, so an
  answer that was not overtaken shows the row or is followed by a save (`Rows`);
  the dialog has the row, or a save is served and still to be answered
  (`Original`); a save whose sender was sure has the row's values, trimmed, but for what
  the user edited, and is the only one of its account (`Saves`). The properties
  allow a save that is not served as well, which the invariant does not need.

Each is kept by the server's steps, the session's and the dialog's, in lemmas of
their own; `ServeFacts`, `ArriveFacts` and `LoweredAsks` say what serving a
request, receiving an answer and unmounting do to `asks` and `answers`, and
`EachIsServed` covers the six handlers and a refusal at once.

The conjuncts of every inductive invariant were checked by TLC on the instances
of section 3 before they were proved. Two mistakes of the model came out in
proofs where TLC could not see them. `MaxAsks` could be zero, and then `TypeOK`
fails at once. And the `CASE` in `SaveArrives` had two guards that
overlap: TLC takes the first that holds, TLA+ either; it is an `IF` now.

Only model-checked:

* Liveness (`EndedIsReaped`, `DeliveredOrDisconnected`, `ReadIsBroadcast`,
  `UpgradedGetsIn`): it depends on fairness, hence on ENABLED, which is out of
  the prover's reach.
* The four findings, which are counterexamples.

Every other property of a passing run is a theorem. The proofs are about the
model: its faithfulness to the code, and what section 5 leaves out, they take
for granted, as the runs do.

## 5. Not modelled

* The moment between a Set-Cookie and the callback of the same answer: `Arrive` is
  both. A click on a channel between the answer that deletes it and the next
  render: `SelectChannel` takes the list as it is, the page the one it rendered.
* How MariaDB compares texts: under `utf8mb4_unicode_ci` two names or emails are
  the same that differ in case, in some accents or in blanks at the end. The
  model's names and emails stand for texts that the database tells apart, so `Ann`
  and `ann` are one of them. To trim blanks at the end changes a name for the page
  and for Go, but not for the unique keys; to trim those in front does for all.
* Message text, JSON, time stamps, the 1024-byte read limit (a frame that is too
  long is a lost peer), names and their labels, error texts, hints and the
  prefilled email of the login form.
* CORS, origins, the cookie's attributes, bcrypt, the signature of a token, the
  Authorization header, which the page never sends.
* Two servers on one database: the hubs live in one process, and the deployment
  runs one.
* Other tabs and devices of the same user, and a reload of the page while
  requests are under way.
* The development build: `devAuth.ts`, which signs in a fixed user without a
  server, and StrictMode in `main.tsx`, which runs every effect twice there.
* Isolation anomalies of MariaDB other than the snapshot of `DeleteMe`; a
  deadlock between two transactions is a statement that fails.
* `internal/db`, which runs before anything else, configuration, styles, build.
* The write to the global upgrader's `CheckOrigin` in every request
  (`ws_controller.go:51`), a data race: all values written decide alike.

## 6. Plan

In this order; the first ten are done.

1. `Room`, `Hub` and their runs; `HubProofs`.
2. `Database`, `Requests`, `Accounts`, `Channels`, `Api` and their runs.
3. `RateLimiter` and its run; `RateLimiterProofs`.
4. `ChatClient` and its run; `ChatClientProofs`.
5. `Sockets` and its run; `SocketsProofs`.
6. `Cookies`, `Session`, `Profile`, `Page` and their run.
7. Unmounting the chat page, in `ChatClient`.
8. `DatabaseProofs` and `ApiProofs`; bursts in `RateLimiterProofs`.
9. `HubRefinement`.
10. `PageProofs`.
11. That the account handlers as `Cookies` has them, one step each, are what the
    statements of `Accounts` do when no other request interleaves: a lemma for
    each handler.
12. `Search`: what `owner@channel` finds when names contain `@`, against a
    reference definition. A pure look-up, hence last.
