# Messaging API: verification project

TLA+ models of the messaging API (Go, PostgreSQL, Redis, WebSocket), the TLC
runs that check them on small instances, and TLAPS proofs of what matters most
for every instance. `PROJECT.json` lists components, runs, mutants, the source
lines of each definition, findings, hazards and theorems.

    tlc -workers 2 -config api_all.cfg MC_MessagingApi.tla
    tlapm MessagingApi_proofs.tla      (and the other *_proofs modules)

## 1. The system

| Component | State | Operations | Talks to |
|---|---|---|---|
| Repositories (`internal/repositories`, `migrations`) | PostgreSQL tables `users`, `dialogs`, `dialog_participants`, `dialog_reads`, `messages` | one SQL statement per method; `DialogRepo.Create` is a transaction | services |
| Redis cache (`services/redis_cache.go`) | `dialog:<d>:last_messages` (list, newest first, trimmed, TTL), `unread:<u>:<d>` (counter, TTL) | push, read the list; increment, read, reset the counter | services |
| Message service and handlers | none of its own | `POST /messages`, `GET /dialogs/:id/messages`, `GET /dialogs/:id/unread_count` | repositories, cache, hub |
| Dialog service and handlers | none of its own | `POST`/`GET`/`DELETE /dialogs…`, `MarkRead` after a listed page | repositories, cache |
| Hub, clients, `GET /ws` (`internal/websocket`, `handlers/ws.go`) | subscribers by dialog; a buffer of 128, a closed flag and two pumps per connection | subscribe, broadcast, close all (and unsubscribe, which is never reached) | postMessage, main |
| main (`cmd/api`) | pools, server, hub | start, graceful shutdown | everything |
| Rate limiter (`middleware/rate_limit.go`) | a token bucket per client address, in a `sync.Map` | allow, clean up | router |
| User service, JWT, auth middleware | table `users` | register, log in, look up, check tokens | repositories |
| Web client (`web/src`) | messages on the screen, one socket, timers | load history, listen, reconnect, send | API, hub |

Every HTTP request runs in a goroutine of its own and makes three to six calls
to PostgreSQL and Redis with nothing held in between: no transaction spans two
calls, no lock is shared. What is hard is what may happen between two of them:
another request, a deleted dialog, an expired key, a call that fails (and whose
error is dropped, three times in `Send` alone), a call that took effect although
its answer was lost, a pipeline that the Redis client sends twice, or the end of
the process. On the WebSocket side it is goroutines: each connection has a
handler and two pumps, each broadcasting request works on a copy of the
subscribers, and `CloseAll` closes them while it holds the hub's lock. The
limiter reads the clock before it takes a bucket's mutex, and its cleaner tests
a bucket and deletes it in two steps. Registration relies on the UNIQUE
constraint alone. In the browser, the history, the socket, the answer
to a POST and the timers call back in any order.

What makes each part correct: rows of members only and no orphans
(repositories); the list is a part of the stored history, the counters agree
with the query they replace (cache); acknowledged messages are stored, pages
and cursors walk through the whole history (messages); dialogs come whole and
go once, by their creator (dialogs); events reach subscribers of their dialog
at most once, never before one that was broadcast earlier, and never hold a
sender up, and a lost client is sent nothing more (hub); no address gets more than its
rate, and silent ones are forgotten (limiter); a name has one owner, whom login
lets in (users); what is shown stays where it is, is not added again, and is
missed only when no socket could bring it (web client).

## 2. Modules

| Module | Models | How |
|---|---|---|
| `Models` | `internal/models` | record sets `Dialog`, `Message`; `Missing` is "no row" and `redis.Nil` |
| `Store` | migrations and repositories | tables as variables; each statement an operator, atomic when it commits |
| `RedisCache` | `redis_cache.go` | the two families of keys; each pipeline an operator |
| `Requests` | what a request's goroutine knows | `req[r].pc` names the next call; faults; `Crash` |
| `MessageService` | `message_service.go`, `handlers/messages.go` | one action per call |
| `DialogService` | `dialog_service.go`, `handlers/dialogs.go` | one action per call |
| `MessagingApi` | the server | `Receive`, `Proceed`, `Expire`, `Crash`, and the properties |
| `ChatLog` | nothing: the abstract specification | chats open, grow, announce and close |
| `MessagingApi_proofs` | | types, membership, deletion by the creator |
| `Durability_proofs` | | durability, the cache, whole dialogs, one deletion, the refinement of `ChatLog` |
| `Pages_proofs` | | pages and counters, under every concurrency |
| `Overlap_proofs` | | lists, pages and read marks, however requests overlap |
| `Hub` | `internal/websocket`, `handlers/ws.go`, the shutdown in `main` | one action per step of a goroutine |
| `Feed` | nothing: the abstract specification | what a listener can tell: events due, delivered, lost |
| `Hub_proofs` | | every invariant of `Hub`, and the refinement of `Feed` |
| `RateLimiter`, `RateLimiter_proofs` | `middleware/rate_limit.go` | requests, buckets, the cleaner and the clock |
| `Accounts`, `Accounts_proofs` | `user_service.go`, `user_repo.go`, `handlers/users.go`, `auth.go`, `jwt.go` | one action per statement or check |
| `Directory` | nothing: the abstract specification | names are claimed, sessions opened |
| `WebClient`, `WebClient_proofs` | `Chat.tsx`, `ws.ts`, the calls of `api.ts` | one action per callback, over `Feed` |
| `MC_…` | | instances for TLC |

`MessagingApi` extends `DialogService`, which extends `MessageService`,
`Requests`, `Store` and `RedisCache`; `Log == INSTANCE ChatLog WITH …` is the
refinement mapping (a dialog is `open` while its row exists, `free` until its id
is handed out, `closed` otherwise; the log is the table `messages`; announced is
what was given to the hub). `WebClient` extends `Feed`, which `Hub`
implements: its safety properties are about a page over the hub, while the page
fills no buffer and `CloseAll` has not begun (`Lose` and `ForgetAll` matter then).
`Hub` maps a connection's socket, dialog and subscription to `Feed`'s, what a
broadcaster has left, the buffer and the event being written to what is `due`,
and what was written to `got`.

How a handler is cut into steps: `Send` is `PostMessage` (validation, the
participant check, the start of the INSERT), `Insert` (its commit),
`CountForOthers` (participants and INCR), `PushLast` (LPUSH), `Broadcast` (hub
and answer). `listMessages` is `ListMessages`, `LookupPage` (Redis), `QueryPage`
(PostgreSQL), then `MarkRead`, `TouchReadMark`, `ResetUnreadMark`. The counters
are `GetUnread`, `ReadSince`, `CountSince`, once for `unreadCount` and
`getDialog` and once per dialog for `listDialogs`.

### Abstractions, and why they are sound

- A check that only reads is merged with the reading of the clock that follows
  (`EnsureParticipant` with the start of the INSERT, and with `time.Now()` in
  `MarkRead`): the clock is only compared, so the later of the two moments
  stands for both. `GetParticipants` is merged with the INCRs: the participants
  of a dialog never change while it exists.
- A pipeline is one action: each of its keys belongs to one command and its
  EXPIRE, so commands of others between them cannot be told apart, except for
  LPUSH and LTRIM, where another LPUSH may come in between: both trims still
  leave the newest entries. With the fault `resend` a pipeline runs twice in one
  step; a command of another request between the two would move a repeated
  message further down the list, and no property speaks of where it is. A
  pipeline that fails half-way has raised some of
  its counters (`\E some \in SUBSET …`).
- Stamps: the clock gives each instant once, to PostgreSQL and to the server
  alike. Equal stamps would be ordered by id, and skewed clocks would add
  behaviours; both are left out. A message has its stamp when its INSERT
  *starts* and is visible when it commits, as `now()` has it.
- Message text is a length, checked against `MaxContent`; names of dialogs are
  one Boolean (`named`); ids are model values; pages are sets, the order of a
  page from PostgreSQL being that of the stamps.
- TTLs are not counted: with the fault `expiry` a key may vanish at any moment.
- `ListDialogs` returns all of the caller's dialogs: its limit of 50, its order
  and `last_message` are left out.
- Dialogs that exist before the behaviour starts are the constant `Opened`.
- Deleted ids are not handed out again (`minted`): `uuid.New()`.
- Hub: TrySend's test of the flag is merged with the send that follows
  (nothing is lost: a flag set in between makes the event one that the buffer
  keeps for nobody), Close's test with `conn.Close`. A failed `Read` has shut
  the socket, as the WebSocket library does. `Quiet` is a stuttering step in the states where
  all work is done, so that the deadlock check stays on everywhere else.
- Limiter: time and tokens are counted in ticks (a token is worth the `Cost`
  ticks that earn it), so that the floating-point refill becomes exact integer
  arithmetic. `main.go` installs the limiter before `Auth`: no request has a
  user id yet, the branch that would use it is never taken, and the key is
  always the address. `Tick` lets no goroutine be held up for more than
  `MaxStall` between reading the clock and `allow`; `grants` and `at` are
  history.
- Accounts: a hash is the password it was made of (bcrypt is external, its 72
  bytes are `Head72` and `Hashes`), a token is its claims (its signature is
  external) and may expire at any moment. The id of `uuid.New` is the request.
  The process does not crash: a request that dies after its INSERT leaves what
  one leaves whose answer is lost.
- Hub: `Hub.Unsubscribe` and the branch of `WritePump` that waits for the
  context are left out. The handler waits for the request's context
  (`ws.go:59`), which net/http cancels for a hijacked connection only after the
  handler has returned; so nothing after that line runs, and `Subscribe` is the
  handler's last action.
- Web client: the history is what the API may answer, `Answers`: any list of up
  to a page of stored messages, with holes, repetitions and in any order, since
  the first page comes from the Redis list and the page shows it as it is. The
  only thing taken for granted is that its messages are stored
  (`CacheOnlyStored`), and that it is not empty while messages are.
- Web client: one mounted `Chat` of one dialog; `App.tsx` gives each dialog a
  key, so another choice unmounts it. `GET /dialogs/:id`, which is loaded with
  the history, fails or not. The handler of `messages.snapshot` is left out: no
  code of the server sends one. The page keeps up with its socket, so the
  hub's buffer is not filled. Sockets are not used twice, and `MayConnect`
  keeps one of the instance's for the time after unmounting.

### Faults

`Faults` is a set of names: `store` and `redis` (a call returns an error; a
write may have happened all the same), `resend` (Redis runs a pipeline twice),
`expiry`, `crash` (the process dies with its requests; both stores stay).

## 3. Runs

Sizes are those that let every case happen: two users are a sender and a
reader, three are needed where two dialogs must not be mixed up; `PageMax` 3,
`PageDefault` 2 and `LastMessagesLimit` 2 let two or three messages fill a
page, overflow the list and differ from one another; content lengths 2 and 3 lie on
both sides of `MaxContent` 2. Requests are interchangeable (`SYMMETRY`), except
under liveness. `MaxInFlight` bounds how many requests overlap, `MaxSending`
how many of them are `postMessage`. Two events and a buffer of 2 let events
overtake each other; three and a buffer of 1 fill the buffer of a client whose
write pump has ended with the first of them. The limiter's bucket holds one
token of three ticks and is idle after three, so that within eight ticks it is
emptied, refilled, dropped and created again, and three requests get two
buckets. The passwords have 7, 8, 72 and 128 bytes and the last begins with
the third; two of the names differ in blanks only. Histories of up to two messages leave one out, repeat one
or have both in either order; three sockets let a page lose one, come
back, and come back once more after it was left.

| Run | Instance | Shows |
|---|---|---|
| `api_all` | 2 requests, all seven handlers, all faults; 54 k states | `TypeOK`, `MembersOnly`, `CacheOnlyStored`, `AckedIsDurable`, `DialogsWhole`, `DeletedOnce`, `OnlyCreatorDeletes`, `ImplementsChatLog`, `EveryRequestAnswered` |
| `api_overlap` | 4 requests, 2 at a time, post/list/unread, failing Redis, expiry; 1.24 M | `UnreadNotInflated`, `AckedWithinReach`, `ReadMarksFollowPages` |
| `api_one_writer` | 4 requests, at most one sender, no faults; 325 k | `CacheIsNewest`, `CursorPagesStable`, `FirstPageShowsAcked`, `NoCursorMeansEnd` |
| `api_sequential` | 4 requests one after the other, 3 users, 2 dialogs that share one of them, cursors of one used in the other, no faults; 249 k | `UnreadExact`, `PagesStayInside` |
| `hub_delivery` | 2 connections, 2 events, 2 broadcasters, buffer of 2; 862 k | `OwnEventsOnce`, `ClosedMeansShut`, `ShutdownMissesNoSubscriber`, `ImplementsFeed` |
| `hub_progress` | 1 connection, 3 events, 2 broadcasters, buffer of 1; 134 k | `HubTypeOK`, `BroadcastEnds`, `QueuedIsWritten`, `LostClientFlagged` |
| `limiter` | 3 requests of 1 address, the cleaner; 873 k | `WindowBounded`, `AddressBounded`, `ForgetsOnlyFull`, `SilentForgotten` |
| `accounts` | 3 requests, 4 names, 4 passwords, failing statements; 82 k | `TokensNameAccounts`, `OneOwner`, `NobodyLockedOut`, `ImplementsDirectory` |
| `web_chat` | 3 sockets, 2 messages, 1 of them the user's, page of 2; 615 k | `AddedOnce`, `OneSocketAtATime`, `MissesOnlyTheGap`, `SocketsInOrder`, `ScreenKeeps`, `UnmountedGoesQuiet` |

Five properties of `MessagingApi` hold only under the restrictions of their
runs: `CacheIsNewest`, `CursorPagesStable`, `FirstPageShowsAcked` and
`NoCursorMeansEnd` with one writer at a time and nothing expiring, `UnreadExact`
with one request at a time. They say that the cache is right as long as nothing
races, which makes them checks of single operations (trimming, cursors, resets)
over long sequences, and no more; the races themselves break them, as the next
section lists. `UnreadNotInflated` needs that Redis commands are not resent.
What holds under overlap is weaker and is what `api_overlap` checks:
`AckedWithinReach` is about pages from PostgreSQL, which see every committed
row, and `ReadMarksFollowPages` lets a mark move back, but only where two
requests of one user overlap. Failing statements and crashes are left out of
that run for size, not for need: with three requests it passes with them too
(316 k), and the theorems allow them. `LostClientFlagged` is the part of a
connection's end that the code reaches: `ReadPump` closes the client, so that
broadcasts pass it by. That the hub forgets it is `ConnectionReleased`, which
`hub_leak` refutes.
`AddressBounded` says two bursts,
not one: requests that slip in between the cleaner's test and its delete get a
second bucket. Each of the two buckets may have lagged a stall behind when its
part of the window began, hence `+ 2 * MaxStall`; one stall is not enough
(`Cost` 1, `Burst` 1, `Idle` 4, `MaxStall` 1: six requests may pass in the three
ticks from 6 to 8), and the bound is reached. `web_chat` with three messages (no
liveness, 5.9 M states) passes as well.

### Where the code disagrees

| Run | What TLC finds |
|---|---|
| `unread_race` | two overlapping requests leave a counter that the COUNT query contradicts |
| `hub_leak` | a hijacked request's context is not cancelled by the loss of the connection: handler, write pump and subscription stay |
| `hub_shutdown` | a connection in its hello, or accepted after `CloseAll`, is not closed |

`PROJECT.json` quotes the lines for each. More limits of the cache show when
the constants of a passing run are changed:

- `api_one_writer` with `Faults = {"expiry"}` violates `FirstPageShowsAcked`: an
  expired list is refilled by one message, which then is the whole first page;
- `api_sequential` with `Faults = {"expiry"}` violates `UnreadExact`: an expired
  counter restarts at 1 and hides older unread messages;
- `api_one_writer` with `MaxSending = 2` violates `CacheIsNewest`: two senders
  push in the other order than their stamps;
- `api_one_writer` with `Limits = {0}` violates `NoCursorMeansEnd`: a first page
  from Redis without `?limit=` has no cursor although more is stored.

Other observations, which no run is made for:

- passwords of 73 to 128 bytes pass validation (`user_service.go:36`) and the
  login form invites them, but bcrypt refuses them and the client is told of an
  internal error;
- a page that only listens is disconnected by the read timeout of 60 s and back
  after 5 s: what is broadcast in between never appears in it (`deaf` in
  `MissesOnlyTheGap` says exactly which messages);
- the screen is in the order of arrival: a message older than the history's
  newest may appear below it (`SocketsInOrder` is about what sockets brought);
- a first page with a `?limit=` of more than the list holds (101 to 200), or with
  none, is the list from Redis, at most 100 messages, and comes without a cursor
  even if more is stored: `message_service.go:78` compares with the limit that
  was sent;
- a message that the cached list repeats (a pipeline that ran twice) is shown
  twice: `Chat.tsx:70` sets the history as it is, only `addMessage`
  (`Chat.tsx:49`) looks for what is there;
- a read mark moves back when two `MarkRead` of one user write their clocks in
  the opposite order (`dialog_repo.go:237`): the COUNT query then counts again
  what was marked;
- `Chat.tsx:69` says that messages come oldest first; the server sends the
  newest first, and `reverse()` is right for that.

### Fairness

`LiveSpec` of `MessagingApi` assumes weak fairness of each request's steps: the
Go scheduler runs every goroutine, and every call to PostgreSQL and Redis
returns an answer or an error. No client is obliged to send, no key to expire.
In `Hub` it assumes that runnable goroutines run and that `Read`, `Write` and
the hello end by their timeouts (60 s, 5 s, 10 s); a peer need not connect,
speak, listen or leave, and no signal need arrive. `Accept`, `Subscribe`,
`Snapshot` (a new request) and `CloseAll` have no fairness. In `RateLimiter`
the cleaner's ticker goes on and its goroutine runs; no request need come and
no time need pass. In `WebClient` the browser calls `onmessage` and `onclose`,
the timer of 5 s fires, and the server's read timeout of 60 s shuts a socket
that only listens; nobody need send, and a page need not be left.

## 4. Proofs

The `_proofs` modules prove, for every set of users, dialogs and requests,
every choice of faults and every bound, under the named assumptions on the
constants (page sizes positive, opened dialogs with 2 to `MaxParticipants`
members among whom their creator, `Missing` and the nil id different from real
values):

- `TypeCorrect`: `Spec => []TypeOK`. The inductive invariant is `Typed`:
  `TypeOK`, the table `messages` is finite (COUNT and the cursor of a page need
  it), and a request being served knows its user and dialog.
- `MembersAlways`: `Spec => []MembersOnly`. `MembersOnly` is not inductive: a
  row is written by a request that was checked several steps before. `Owned`
  adds what makes the late write right: each request follows the path of its
  handler (`AllOnPath`); a live dialog's id has been handed out
  (`LiveMinted`); and a request knows only dialogs that were handed out, to
  which its user belongs, or which its user created, as long as they live
  (`AllKnown`).
- `CreatorsAlways`: `Spec => OnlyCreatorDeletes`, from the same invariant.

- `AckedDurably`, `CacheWithinStore` (`Durability_proofs`): `Spec =>
  []AckedIsDurable` and `Spec => []CacheOnlyStored`. Both follow from `Durable`,
  which adds to `Owned` that every message past its INSERT, answered with 201,
  broadcast or cached is `Stored`: its dialog's id was handed out, and the row is
  there while the dialog lives. `Stored` is stable because a deleted id never
  comes back (`StoredKept`). The case to exclude is a message that leaves the
  hands of its request without having been inserted; `Confirms` says that no
  step does that.
- `PagesInside` (`Pages_proofs`): `Spec => []PagesStayInside`. A page is
  inductive together with the dialog of its request (`PagesTaken`); the page from
  Redis needs `CachedStored`, the reader's place in the dialog `AllKnown`.
- `CountersBounded` (`Pages_proofs`): `"resend" \notin Faults` implies `Spec =>
  []UnreadNotInflated`. The bound alone is not inductive, because a message is
  stored first and counted later: `Counters` bounds a counter in Redis by the
  messages whose INCR is not still to come (`Settled`), so that each INCR finds
  room for itself. It is sent once (`Raised`), and no two requests are about to
  count one message (`CountedApart`, from `Stamped`). An answered counter is
  bounded by all messages of the others, as it may come from the COUNT query.
- `Implements` (`Durability_proofs`): `Spec => ImplementsChatLog`. `Stamped`
  adds that no two requests about to insert, and no stored message, share a
  stamp. Then creating opens, an INSERT writes, a broadcast announces, a DELETE
  closes, and all other steps stutter.

- `WholeAlways`, `GoneOnce` (`Durability_proofs`): `Spec => []DialogsWhole` and
  `Spec => []DeletedOnce`. The first is inductive with `Owned`. The second needs
  `Gone`: a request that was answered "deleted" is over, and its dialog's id was
  handed out and is not live, so that it neither comes back nor is deleted again.

`Overlap_proofs` is about pages and marks as `api_overlap` checks them, and
about lists. Its theorems have no hypothesis on how many requests overlap, nor on what fails, is resent, expires
or dies:

- `AckedReached`: `Spec => AckedWithinReach`, from the invariant of `Implements`: what
  is acknowledged or broadcast is in the table while its dialog lives
  (`Durable`), stored messages have different stamps (`Stamped`), and the page
  takes the newest below its cursor, so that what is left out is older than the
  last of the page, whose stamp is the next cursor (`LeftBehindCursor`). A slow
  INSERT is no exception: it is acknowledged only after its commit.
- `MarksFollow`: `Spec => ReadMarksFollowPages`. `Marks` adds that a page
  being marked is older than the time its request has read (`PageBefore`), and
  that each mark is one that a request of the same user has upserted, or else
  older than the time of every upsert still to come (`MarkKnown`). A mark that
  moves back is therefore the later time of another request of that user, which
  read the clock after the present one did and wrote before it. For the page to
  be older, what comes from Redis must be older than the clock: that is part of
  `PushesApart`.
- `RepeatsBySending`: `Spec => []RepeatsOnlyResent`, from `PushesApart`: each
  message that is yet to be pushed has a stamp of its own, which no list holds.
  LPUSH and LTRIM of such a message keep a list free of repetitions
  (`PushRepeats`).

The argument is cut so that each action is looked into as seldom as possible:
`StoreSteps` says that a step of the server changes the tables in one of five
ways, `FollowsSteps` that a request keeps or narrows what it refers to or has
just been let in, and `AllOnPathStep` that it stays on its handler's path.
`Owned` is proved from these three. `StampStepsHold`, `CountingSteps`,
`UnreadSteps`, `AnswerSteps`, `PostStepsHold` and `ListStepsHold` do the same for
stamps, counters, answers and the two long handlers.

`Hub_proofs`, for every number of connections, events and broadcasters and every
capacity: `HubTypeCorrect`; `ShutBeforeFlagged` and `ShutdownMissesNobody` from `LifeInv` (before its hello a connection is untouched;
whoever is about to set the flag has shut the socket; the map holds the served,
except those `CloseAll` has left or has closed); `OwnEventsAtMostOnce` and
`HubIsAFeed` from `EventsInv` (an event on its way to a connection is in one
place, the broadcaster's list, the buffer, the pump or the socket; and no buffer
or socket holds it behind one that was broadcast after it).

`RateLimiter_proofs`, for every rate, burst, cleanup period and stall:
`LimiterTypeCorrect`; `WindowIsBounded` from `Paid` (since its i-th grant a bucket
has paid for all that followed out of its burst and the time on its own clock); `NothingIsForgiven`
from `Timely`: `lastSeen` may go back behind `last`, by a stall at most. It rests
on `LimiterAssumption`, `Full + MaxStall <= Idle + 1`: with the numbers of
`main.go` (10 per second, 20, 10 s) a bucket fills in 2 s, and a request would
have to stall for 8 s. `AddressIsBounded` from `AddressInv`: of two buckets of
one address, one was deleted before the other was stored, at least `Idle` less a
stall after its own beginning, and all that was asked of it was asked before
(`Replaces`). So no three buckets let requests through in the window
(`NoThird`), each request that passed is a grant of its bucket of its own
(`Granted`), and `Paid` bounds the grants of either one by its burst and its
part of the time. When a bucket was stored is no variable of the code: the
invariant says that such times exist (`\E T`).

`Accounts_proofs`, for every set of names and passwords: `AccountsTypeCorrect`,
`LetInHasAccount`, `NameHasOneOwner`, `NobodyIsLockedOut` and
`AccountsAreADirectory` from `AccountsInv`: rows have unique names and ids and
hold what login will accept (`RowsOK`); and a request's own row, account, token
and conflict are those of its name (`RequestOK`). The assumption is that bcrypt
reads the first 72 bytes and refuses longer passwords.

`WebClient_proofs`, for every number of sockets and messages and every page size:
`WebTypeCorrect`, `AddedOnceAlways`, `OneSocketAlways` and `ScreenOnlyGrows` from
`PageInv` (one open end or one timer; nothing before the history is shown);
`OnlyTheGapIsMissed` from `NothingLost` (a broadcast message is shown, deaf, or
pending on the open socket) and `OrderAcrossSockets` from `InOrder` (what is
pending was not over when what a socket brought began), both on `Past`, which
says what the feed has delivered and in which order.

Only model-checked: all liveness, that is `EveryRequestAnswered`, `BroadcastEnds`,
`QueuedIsWritten`, `LostClientFlagged`, `SilentForgotten` and
`UnmountedGoesQuiet` (fairness and ENABLED are out of the prover's reach); and
the five properties that hold only under the restrictions of their runs
(`CacheIsNewest`, `CursorPagesStable`, `FirstPageShowsAcked`,
`NoCursorMeansEnd`, `UnreadExact`): the server has no such restriction, so a
theorem that assumed one would say nothing of it.

## 5. Not modelled

Configuration, the migration command, health checks, access log, recovery,
request ids, security headers, CORS, the debug endpoints and their token: they
keep no state that other parts read. The signature of a token and the inside of
bcrypt. `Hub.Unsubscribe` and the context's branch of `WritePump`, which are
never reached. In the browser the dialog list (it is loaded anew by each message or
click, two loads may be answered in the other order, and the older one stays
until the next), the login form and the session that `App.tsx` restores: they
show what the server answers. Start-up, and what `main` does for stores that do
not answer. Clock skew, equal stamps, replicated or failing-over databases, loss
of Redis data other than by TTL.

## 6. Plan

Done: the stores, services and their composition, `ChatLog`, `Hub` and `Feed`,
`RateLimiter`, `Accounts` and `Directory`, `WebClient`; and the theorems above.

Left: `Hub` with two pages over it that fill their buffers, if TLC can reach it;
a resent pipeline as two steps, with a bound on go-redis' retries.
