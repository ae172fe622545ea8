# DevShop, specified in TLA+

DevShop is a NestJS monorepo: an API gateway and a few services over one
PostgreSQL database and one Redis. This directory specifies the parts of it in
which requests, messages, restarts and time interact: orders, their events and
their listing, accounts, refresh tokens, notifications, emails, and the way of
a request through gateway, proxy and guards. TLC checks the specifications on
small instances; TLAPS proves the safety statements for every instance.

    tlc -workers 2 -config MCOrderService_race.cfg MCOrderService.tla
    tlapm OrderServiceProofs.tla

`PROJECT.json` lists the runs, the lines each definition stands for, the
hazards, the mutants that show each property can fail, and the theorems.

## Inventory

| Component | State | Operations | Interacts with |
|---|---|---|---|
| order-service | table `orders` | POST, GET, PATCH and DELETE `/orders` | publishes on Redis channel `order_events` |
| auth-service, tokens | table `refresh_tokens` | login, refresh, logout | the clock |
| auth-service, registration | table `users` | register | |
| notification-service, handler | table `notifications`, the subscriber connection | a handler per message, GET `/notifications` | subscribes to `order_events`, pushes through the gateway, adds to `email-queue` |
| notification-service, gateway | map `userSockets`, in memory of each replica | connect, disconnect, push | socket.io clients |
| notification-service, email queue | BullMQ queue in Redis | add, process | the handler, the worker |
| api-gateway | counters of the throttler and of Prometheus | own routes; proxying of `/api/auth`, `/api/orders`, `/api/notifications` | all services |
| libs/common, access | none | JWT strategy, `JwtAuthGuard`, `RolesGuard` | gateway, all services |
| libs/common, Redis client | connections | publish, subscribe | order-service, notification-service |
| libs/database | the schema | migrations | all services |
| infra-service | none | greeting, health | |
| metrics, tracing, logging, health | counters, spans | | every service; `tracing.ts` also ends the process on SIGTERM |
| deployment | | docker, helm, terraform, CI | says that services run in several replicas and are restarted |

What is hard in each, and what makes it correct:

- **order-service.** Every handler is asynchronous and nothing is locked:
  `updateStatus` reads the order, awaits, and `save()` writes it back after
  selecting it once more. Updates race with updates and with deletions; the
  publish is a second, separate write that can be lost. Correct means: no
  message lies, no status goes unheard, deletions are final, and a subscriber
  knows the current status.
- **order-service, listing.** A page is two queries, a listing is many pages,
  and nothing holds the table still between them. Correct means: a reader of all
  pages misses and repeats no more rows than left and arrived, and none if none did.
- **refresh tokens.** Rotation is read, check, save, sign, insert, with four
  awaits; a logout or a second refresh of the same token comes in between; a
  token is a deterministic function of the user and the second. Correct means:
  a token is exchanged once, a spent or logged-out token is dead, a login is one
  session, and a client is not left without a token.
- **registration.** Find, hash for a long time, insert: a race on the unique
  email, and any rejected save ends in a 500 that does not say whether the row is
  there. Correct means: at most one registration is told that it won, nobody is
  told of an account that does not exist, its owner can log in, and nobody else can.
- **notifications.** Pub/sub is at most once per subscriber and every replica is
  a subscriber, or stays deaf if its subscription is rejected; the listener does not await its handler; sockets come and go
  between the save and the push. Correct means: what is pushed is stored, to
  the right user and once, and the registry of sockets is exact.
- **email queue.** Jobs are done at least once: a worker that stalls has its job
  given to another. Correct means: a queued email is sent, and at most twice.
- **api-gateway and guards.** A request passes a throttler that sees only some
  routes, a proxy that comes after the body parser and cannot pass on what that
  has read, a router that knows other paths than the gateway, and two
  guards, while processes stop and clients hang up. The ports of the services are
  published as well, so a request may also come to them directly. Correct means:
  the answer tells what was done, a verdict has its reason, both processes'
  counters agree on what they remember, nobody is throttled for others, and everybody
  whose request can be passed on is answered or cut off.

## The modules

| Module | Role |
|---|---|
| `OrderService` | the handlers of the order service, one action per stretch between two awaits |
| `OrderBook` | abstract: what the order service promises, every request indivisible |
| `OrderQuery` | `findAll`, read page by page while other requests change the table |
| `RefreshTokens` | the handlers of login, refresh and logout, and the clock |
| `TokenLife` | abstract: the life of a refresh token |
| `Registration` | the handlers of register, and of login up to its tokens |
| `Accounts` | abstract: what registration promises |
| `Notifications` | the replicas of the notification service: subscription, handlers, gateway |
| `EmailQueue` | the jobs of `email-queue` and the workers |
| `MailDelivery` | abstract: what the queue promises for each job |
| `OrderEvents` | `OrderService`, Redis, `Notifications` and `EmailQueue` composed |
| `Gateway` | a request through gateway, throttler, proxy, router and guards, and the counters |
| `OrderServiceProofs`, `OrderQueryProofs`, `RefreshTokensProofs`, `RegistrationProofs`, `NotificationsProofs`, `EmailQueueProofs`, `OrderEventsProofs`, `GatewayProofs` | the theorems about the module of that name |
| `MC*` | the instances for TLC: symmetry only |

Which refers to which: `OrderService` is shown to implement `OrderBook`,
`RefreshTokens` `TokenLife`, `Registration` `Accounts`, and `EmailQueue`
`MailDelivery`, each by an `INSTANCE ... WITH` a mapping that stands at the end
of the module. `OrderEvents`
instantiates its three components; `OrderEventsProofs` instantiates the proofs
of the three.

### How a handler becomes actions

A Node.js process runs a handler without interruption up to its next `await`.
A request `r` is therefore a program counter `pc[r]` and a record `job[r]` of
the locals that survive an await; each action is one stretch, with the call it
awaits taken at the moment it has its effect. Requests in the same process and
in different replicas interleave in the same way, because the database and
Redis execute single commands atomically. A request is handled once and then
ended; an instance has a fixed set of them.

`Abort(r)` (`Reject` and `Crash` for notifications; `Stop`, `Stall` in the queue;
`Fail`, `HangUp`, `StopService` and `StopGateway` at the gateway) is what can go
wrong: the awaited call is rejected, which ends the handler with a 500, or
SIGTERM arrives, on which every service calls `process.exit(0)`
(`tracing.ts:25-30`) and the handlers in flight never resume. `Faults` turns
them on.

### What is taken from TypeORM, PostgreSQL, Redis, BullMQ and the proxy

These are outside the repository; the models use what the code depends on:

- `save(entity)` of an entity with an id selects the row again, soft-deleted or
  not, and updates the columns in which the entity differs; columns that are
  equal are left alone. If no row is found it inserts the entity. An update of
  a row that has gone changes nothing and raises no error. Two actions,
  `SelectForSave` and `WriteForSave` (`WriteRevocation`), stand for it.
- `find` and `findOne` hide rows whose `@DeleteDateColumn` is set;
  `softDelete(id)` updates by id and also matches a row deleted before.
- `@CreateDateColumn` is the start of the transaction that inserts, so a row can
  become visible after younger ones. `findAndCount` leaves out the count when
  the page itself shows it.
- A unique column rejects a second insert.
- `PUBLISH` hands a message to the connections subscribed at that moment.
- A BullMQ worker takes one job at a time and holds its lock; a job whose lock
  has run out goes to the front of the queue once (`maxStalledCount` is 1) and
  fails the second time; only the holder of the lock completes a job. A worker
  that runs looks for stalled jobs from time to time.
- `http-proxy-middleware` answers 504 when the target does not listen or resets
  the connection. A response emits `finish` only if it was written to the end.
- A Nest guard runs for routes of controllers, after middleware, hence never for
  a request that a proxy middleware has taken.
- Nest's parser of JSON bodies comes before every middleware
  (`NestFactory.create` without `bodyParser: false`), and the proxy sends on the
  headers and what is left of the body: nothing. The service, whose parser comes
  first too, waits for as many bytes as `Content-Length` says, until Node ends
  the request with 408 (`requestTimeout`). A body sent in chunks arrives as an empty
  one, which is a request without a body.

### OrderService

`orders[o]` is the row or `None`; `channel[o]` the messages published for order
`o`, in the order Redis received them; `held[o]`, a history variable no action
reads, is the set of statuses the order has had. `Create` and `SoftDelete` are
single writes, `Create` with a publish to come; `updateStatus` is
`FindForUpdate`, `SelectForSave`, `WriteForSave` and, when the two statuses
differ, `Publish`. A handler that ends between its write and its publish ends as
`"unannounced"`, any other one cut short as `"aborted"`. The amount of an order
is left out: nothing depends on it.

### OrderBook

A request is one step, which owes its announcement: `due[o]`, from `Owe` until
`Announce` appends it to the feed, or `Lose` drops it. No further change is made
to an order that owes one. `Lossy` says whether announcements may be lost; the
mapping sets it to `Faults`. A handler that stands before its publish is the
debt (`dueBar`), so `WriteForSave` is `SetStatus`, `Publish` is `Announce`, and
`Abort` there is `Lose`.

### OrderQuery

One client reads the pages of GET `/orders`, asking for the next page as long as
the total it was given says there is one. `Select` and `Count` are the two
queries of `findAndCount`; between any two of them rows are inserted, which
takes a `Begin` and a `Commit`, updated into or out of the filter, deleted, or
brought back by an update (the undeletion of `OrderService`). Orders are named
by the order of their `createdAt`. `steady`, `left` and `arrived` are histories:
the rows in the result all the time, and how many left and entered it since the
first page was asked for.

### RefreshTokens

A token is the pair of its user and the second it was signed in, because the
JWT holds nothing else (`sub`, `email`, `role`, `iat`, `exp`). `tokens[t]` is
its row or `None`. `expiresAt` is the time of signing plus `Lifetime`; a token
is refused when `now` is past it. A refresh is `FindForRefresh`, then `Remove`
for an expired token, otherwise `SelectForSave`, `WriteRevocation`, `Sign` and
`InsertToken`; a logout shares the middle two. The record that a logout saves
was found without its user, so when the row was removed in the meantime the
`save()` inserts it with a NULL user: `user |-> None`. `grants` and `loggedOut`
are histories. Clients present tokens they were given (`Issued`); a string never
issued ends in `Unknown`.

### Registration

`users[r]` is the row that request `r` has inserted: the uuid of a row is
named by its request, so that a second row with the same email can be
expressed at all. `register()` is `FindForRegister` (400), `InsertUser` (500
when the save is rejected, by the unique column or otherwise, and then the row
may be there all the same) and `Answer` (201); login is `FindForLogin`
(401) and `Compare` (401, 500 when it is rejected, or on to the tokens, where
`RefreshTokens` takes over). `Abort` is SIGTERM only: no answer. Passwords are told apart as far as bcrypt does. `job[r].known` is a
history: a 201 for just these credentials had been answered when the login came.

### Notifications

`inbox[p]` are the messages on the subscriber connection of replica `p`;
`pc[p][e]` is that replica's handler of message `e`. Since the listener does
not await the handler, all handlers of a replica run at once. `Push` is
synchronous: the lookup in `userSockets`, the emits and the start of the
`add()` happen in one stretch. The map `userSockets` is per replica and lost
with it. The code keeps an array of socket ids per user; the model keeps how
often each id is in it, so a second copy, which would be a second push, can be
expressed. A socket id is used for one connection. Messages with an unknown
`event` are ignored by the code and not published by any code of the
repository. `SubscribeFails` is a rejected `subscribe()`: its callback logs the
error and nothing tries again, so the replica is `"deaf"` until it is restarted,
with its sockets and its worker at work.

### EmailQueue

`waiting` is the list of jobs to be taken; `status`, `lock` and `stalls` are
what BullMQ keeps of a job, `work[w]` what worker `w` does, and `mailed[j]`
counts the emails, which is the only thing the outside sees. `Send` is the end
of the one-second wait of `process()`. `Stall(j)` is possible whenever the
worker that holds the lock no longer works on `j`, and with `Faults` also while
it does, which is a worker kept from renewing its lock.

### MailDelivery

A job is accepted, mailed at most `MaxMail` times, and then confirmed or given
up; it is confirmed only after an email, and both ends are for good. An email may
still come after either, from a worker that had lost the job. The mapping
`stageBar` of `EmailQueue` takes a job that waits and one that is worked on for
the same: queued. `MaxMail` is two.

### OrderEvents

The i-th message published about order `o` is the event `<<o, i>>`; that is
what joins the channel of `OrderService` to the events of `Notifications`. The
components share three steps: a publish, which is received by the replicas
subscribed at that moment and whose addressee is the `userId` in the message;
an enqueue, which adds the job that the handler built; and a crash of a
replica, which takes its worker along. All other steps are of one component and
leave the others alone.

### Gateway

`pc[r]` is the place of a request: at the gateway, at the service before or
after its guards, in the handler, its response on the way back. `Forward`
takes it from the gateway to the service, or, with a body, to `"stalled"`, where
it waits for what the proxy could not send, until `TimeOut`. A request that is
`direct` begins at the service. `Guard` is the service's router,
`JwtAuthGuard` and `RolesGuard` in that order, with `Verdict` as the outcome;
the handler is reduced to what the client must be able to rely on: `Act` (it
has changed the database), `Refuse` (a 400 of the `ValidationPipe`, a 401 or 404
before that), `RefuseExpired` (`refresh()` removes the record of an expired token
and answers 401 after it), `Fail`. So the body of a refresh gets to its handler only
when it is sent to the auth service itself.
`Respond` and `Relay` end the two responses, and `counted[p]` is
`http_requests_total` of each process, which lives in its memory: `Forget(p)` empties it
when the process stops, and the history `gone[p]` keeps what was lost with it.
Whether a response is counted whose client has gone depends on whether the
socket still took it, so `Respond` may do either. `status[r]` is the status on its way and
`told[r]` what the client knows, `Cut` when the connection broke. `hits` is the
throttler's storage, by address and route of the gateway. Paths are reduced to
the routes they lead to. `"bare"` is `/api/orders`, whose prefix is stripped
twice, once by `forRoutes` and once by `pathRewrite`, and which the service
therefore does not know. `StrategyIn` names the services whose modules provide
the passport strategy; without it every guarded request is answered with 500.
In the repository it is the auth service alone.

## The properties and the runs

`Overlap = FALSE` is an assumption on the environment: no two requests on the
same order (or with the same token) run at the same time. Nothing in the code
enforces it. The runs with `Overlap = TRUE` show what holds without it; the
runs with `FALSE` show what a client gets by waiting for its answers; the
violation runs show the difference. Faults are on in every passing run whose
module has them.

| Run | Environment | Shows |
|---|---|---|
| `order_race` | overlapping, faults | `EventsTruthful`, `HeldStatusAnnounced`, `EventuallyAnnounced` and types |
| `order_serial` | one at a time, faults | `LastEventIsCurrent`, and `OrderBook` is implemented, deletions being final included |
| `order_query` | writers race with the reader | `HiddenAtMostLeft`, `RepeatedAtMostArrived`, `TotalFits`, `ExactWhenStill` and types |
| `token_race` | overlapping, faults | `OrphansRevoked`, `ParentSpent`, `LoggedOutDead`, types, and `TokenLife` is implemented |
| `token_serial` | one at a time, faults | `SingleUse`, `OneTokenPerLogin`, `NoGrantAfterLogout` |
| `registration` | overlapping, faults | `OneWinner`, `RegisteredMayLogin`, `WelcomeIsOwner`, types, and `Accounts` is implemented |
| `notification_replicas` | two replicas, two messages, two sockets, faults | `SavedFirst`, `PushedOnce`, `RegistryExact` and types |
| `order_events` | overlapping, faults | `InboxTruthful`, `StatusReachesCustomer`, `QueuedIsSent`, types, and `MailDelivery` is implemented |
| `gateway` | faults | `AnswerTruthful`, `VerdictJust`, `CountersAgree`, `LimitedByOwnHits`, `EventuallyAnswered` and types |

Three runs end in a violation on purpose; each contradicts a line of the
repository's documents or comments, quoted in `PROJECT.json`:

| Run | What happens |
|---|---|
| `order_undelete` | A PATCH reads the order, DELETE is answered, and `save()` sets `deletedAt` back to NULL. |
| `token_reuse` | Two refreshes find the same token unrevoked; both get new tokens. |
| `token_lockout` | Login and refresh in the same second: the old token is revoked, the new one is the same string and the unique column rejects it. The client gets a 500 and has no token left. |

What the passing properties leave open, because the code leaves it open:

- The implementation of `OrderBook` needs `Overlap = FALSE`: two PATCHes both
  read `pending`, one writes `shipped`, and the other writes `pending` back and,
  finding its old and new status equal, publishes nothing. It does not need
  faultless processes: an announcement lost is a step of the order book.
- `HeldStatusAnnounced` survives that race: a silent save can only write the
  status its handler had read, and a status that could be read had been
  announced, or is about to be. So subscribers miss changes, but never the
  existence of a status.
- `NoGrantAfterLogout` fails with overlap when a logout is answered while a
  refresh of the same token is between its check and its `save()`.
- `StatusReachesCustomer` excuses a status whose announcement was lost with its
  handler, and a message published while a replica was not subscribed or whose
  handler was rejected or lost with its process (`Missed`). Nothing in the code
  gets such a message back.
- Every replica saves a row and queues an email of its own for each message. The
  properties count per replica: two replicas mail twice, or four times if both
  jobs stall. Pushes are not repeated, because sockets belong to one replica.
- `AnswerTruthful` says nothing about 500, 504 and broken connections: after
  them the handler may have done its work. Nor about the 401 of a refresh, which
  may come with the removal of the expired record.
- `OneWinner` says nothing about a 500 of the registration: the row may be
  another's, its own or missing.
- `CountersAgree` compares the counts of a request that are still in memory. After a
  restart of either process the two sums differ, and nothing evens them out.
- `EventuallyAnswered` excuses a request that brings a body to the gateway. The
  code does nothing to answer it, and how long it waits is Node's setting: every
  POST with a JSON body to `/api/auth` and `/api/orders` stalls. `AnswerTruthful` and
  `CountersAgree` speak of these too: nothing is done for a 408, and no service counts it.
- `DeleteIsFinal` is checked where it fails, in `order_undelete`. For requests that
  take turns it is proved (`DeletedStaysDeleted`), and it is part of `OrderBook`.
- `VerdictJust` judges the guards and not the paths: that `/api/orders` is a 404
  is modelled and no property calls it right or wrong. In the setting of the
  repository, `StrategyIn = {"auth"}`, no guarded request reaches a handler of the order
  or notification service, which `VerdictJust` and `AnswerTruthful` allow; the theorems
  hold for every `StrategyIn`.

### Bounds

- Orders: four requests, two users, two orders. Three requests are enough for
  an order, an update and a racing update or deletion; the fourth lets a second
  race follow or a second order interfere. `RequestedStatus` has three of the
  five statuses: the initial one, which makes a silent change possible, and two
  others. The handlers only compare statuses, so more of them add no behaviour.
  `order_race` has one order and two statuses, because the liveness check rules
  out symmetry; different orders share nothing but the requests.
- Listing: four orders, two to a page, so a result has up to two full pages and
  the boundary between them can be crossed in either direction; statuses
  inside and outside the filter, date ranges that cut the orders in two. `MaxMoves` = 3
  bounds the rows that enter or leave while the reader is at work: two of the
  one and one of the other, or three of either. Two statuses and one date are enough because the filter
  only asks whether they match.
- Tokens: one user, four requests, `Lifetime` 1 and `MaxTime` 2. A login, a
  refresh, and a refresh and a logout that race with it fit in, within one
  second or across expiry, as do the removal of an expired row and its
  insertion by a logout. Tokens of different users never meet: every
  action touches rows of one user only.
- Registration: two emails, two passwords, four requests: two registrations of
  one email that race, and logins with either password before, between and after.
- Notifications: two each of replicas, users, sockets and messages. Both
  replicas handle both messages with overlapping handlers, one user may have
  two sockets on one replica or on two, and a replica restarts any number of times.
- Composition: one order, two users, two requests, two replicas, one socket. A
  creation and an update publish two messages whose handlers overlap; their two
  jobs meet in the queue, stall, and outlive the process. Two action constraints
  of `MCOrderEvents` keep that within TLC's reach. `SparesOnlyWork`: the first replica
  serves the customers and restarts any number of times, the second is deaf and
  only works the queue, so one job can have a late worker and its successor.
  `FewAtOnce`: one job stalls in a behaviour, none that is worked on while a socket is
  there, and the order is of the first user, the socket of either. The
  constraints leave out steps of the environment (crashes, stalls, connects), which no
  fairness speaks of, with two exceptions: the second replica cannot subscribe, but
  fairness lets it fail to, and behaviours that could only go on by the stall
  of a second job are not judged by the liveness properties. Two replicas that both
  hear are in `notification_replicas` and in the theorems.
- Gateway: two addresses, two requests, a limit of 1, a clock of two seconds,
  and seven routes, at least one of each kind: two of the gateway's own, so that
  one can be used up by the other or by another address if the throttler were to mix them,
  unknown, open with a body, for a role, signed, and unknown to the service. Two
  requests are the least that can meet at the limit, or share a process that
  stops under both. `WithoutRepeats` leaves out sends that are like others: of two
  requests one is for the gateway itself, and an address or token that nobody
  reads is the first or none.

### Fairness

`FairSpec` of `OrderService` asks that a handler under way takes its next step:
every awaited promise settles and the event loop resumes its handler. It asks
nothing of clients: requests need not be made.

`FairSpec` of `OrderEvents` asks the same of the order service and of the
handlers of the notification service, and of a deployed replica that it starts,
subscribes, reads its connection, and that its worker asks for jobs, runs the
timer of `process()` and that some running worker looks for stalled jobs, as BullMQ does
periodically. It asks nothing of sockets, of faults, or that a replica stays up:
`QueuedIsSent` has for its premise that one replica stops crashing for good,
and `StatusReachesCustomer` excuses what was missed.

`FairSpec` of `Gateway` asks that each request advances as long as it can, which
is the event loops of gateway and services and the settling of promises; a
service that has stopped need not be started again, and of `TimeOut`, which is up to
Node's configuration, nothing is asked.

Deadlock is checked in every run. An instance has finitely many requests, so
`Quiet` lets it rest when all are done; a state in which some request could not
go on would be reported.

## The proofs

All theorems hold for every set of orders, users, requests, replicas, sockets,
jobs and addresses and every `Lifetime`, `MaxTime`, `Limit` and page size, from
the assumptions named in the modules (`OrderAssumption`, `QueryAssumption`,
`TokenAssumption`, `RegistrationAssumption`, `NotificationAssumption`,
`EventsAssumption`, `GatewayAssumption`): that `None` differs from the values it
stands beside, that the flags are Boolean, that numbers are numbers and that
requests and replicas are finitely many where they are counted. `EmailQueue` is
only ever an instance, so its assumption is a hypothesis of its theorems, which
`OrderEvents` discharges.

| Module | Theorem | Assumes | From |
|---|---|---|---|
| `OrderServiceProofs` | `TypeCorrect`, `EventsAreTruthful`, `HeldStatusIsAnnounced` | | `RaceInv` |
| | `UndisturbedOrder` | `[]Undisturbed(o)` | `Followed(o)` |
| | `DeletedStaysDeleted`, `ChangesAreAnnounced`, `LastEventCurrent`, `RefinesOrderBook` | `~Overlap` | `CalmInv` |
| `OrderQueryProofs` | `TypeCorrect`, `HiddenAreFew`, `RepeatsAreFew`, `TotalsFit`, `PagesAreBounded` | | `QueryInv` |
| | `StillIsExact` | | `StillInv` |
| `RefreshTokensProofs` | `TypeCorrect`, `OrphansAreRevoked`, `ParentIsSpent`, `LoggedOutIsDead`, `RefinesTokenLife` | | `TokenInv` |
| | `AloneTokenIsSafe` | `[]Alone(t)` | `Unspoilt(t)` |
| | `SessionsBalance` | `[]AllAlone` | `SessionInv` |
| | `TokensAreSingleUse`, `LogoutIsFinal`, `OneSessionPerLogin` | `~Overlap` | the two above |
| `RegistrationProofs` | `TypeCorrect`, `OneIsTold`, `RegisteredIsWelcome`, `WelcomedIsOwner`, `RefinesAccounts` | | `RegInv` |
| `NotificationsProofs` | `TypeCorrect`, `RegistryIsExact`, `SavedIsFirst`, `PushedAtMostOnce` | | `NoteInv` |
| | `JobsAreExact` | | `JobsExact` |
| `EmailQueueProofs` | `TypeCorrect`, `MailedTwiceAtMost` | `EmailAssumption` | `QueueInv` |
| | `RefinesMailDelivery` | `EmailAssumption` | `EndInv` |
| `OrderEventsProofs` | `TypeCorrect`, `InboxIsTruthful`, `ImplementsComponents` | | the components', `JointInv` |
| | `MailIsDelivered`, `MailIsAccounted` | | `EmailInv`, `QueueFilled` |
| | `EventsAreAccounted`, `JointStepsAreFree` | | `JointInv`, `JobsExact`, `QueueFilled` |
| `GatewayProofs` | `TypeCorrect`, `AnswersAreTruthful`, `VerdictsAreJust`, `MetricsAgree`, `LimitsAreOwn`, `RequestsMoveOn` | | `GatewayInv` |

**OrderService.** `RaceInv` ties the locals of every handler to the histories: a
handler in flight works on a stored order of the user it remembers, the status
it read was one the order had, a status it is about to write silently has been
announced. None of the two properties is inductive without it, because a
`WriteForSave` could otherwise write any status.

What the overlapping of requests spoils, it spoils for the order they meet on.
`Undisturbed(o)` says of order `o` alone that no two requests are in flight on
it and that it is not deleted between the find and the UPDATE of an update. As
long as that holds, whatever races on other orders, `Followed(o)` is inductive:
the row of `o` is still as its one handler read it, and between publishes the
channel of `o` ends with its status or that announcement was lost. So `o` ends
with its status (`EndsWithStatus`) and every step is `Faithful` to it: a deletion
stays, a change of status is at its publish. That is `UndisturbedOrder`. Without
`Overlap` every order is undisturbed (`SerialInv`, which has to follow the
locals of the handlers to show it), and `CalmInv` is all of it for all orders;
`DeletedStaysDeleted`, `ChangesAreAnnounced` and `LastEventCurrent` are what is
left when the order is quantified. The mapping `dueBar` reads the debt of an order
off the one handler that stands before its publish; that there is only one is
what `~Overlap` gives. `ChangesAreAnnounced` proves `EveryChangeAnnounced`, which
no run checks: the implementation of `OrderBook` says more.

**OrderQuery.** The rank of a row is how many rows of the result come before it;
`RankBijection` says that the ranks are 0, 1, 2 and so on, so a page is the rows
of `Limit` ranks and has as many rows as `SliceSize` says. A row that arrives
moves the rank of those behind it up by one, a row that leaves down by one
(`RankAdd`). So of all the rows passed, one more at most escapes unseen with each that
leaves (`Departure`), and of the rows ahead one more at most has been seen with
each that arrives (`Arrival`). `ReadingInv` keeps these two balances at every
moment of the reading, between the two queries of a page as well, with a third
for the number of rows received against the position reached; the properties
are what is left of it at the end. `StillInv` adds that while nothing has left or
arrived the result is the one the reader began with: then the three bounds are
zero, and the listing is exact, whatever was written to rows outside the filter.
`PagesAreBounded` is how far a reader can be sent: the next page is asked for
only when the total says there are rows on it.

**RefreshTokens.** `TokenInv` says what a handler knows of its token at each step
whatever other handlers do: a token to be removed has expired; a save that will
insert is of a token whose row was removed, hence expired; a save that will
write nothing, and a handler about to sign, is of a token that is spent.
`Alone(t)` says of token `t` that at most one request
is in flight with it. As long as that holds, whatever is done with other tokens,
`Unspoilt(t)` is inductive: the refresh under way has its row, nothing was issued
for `t` yet and it was not logged out, and two grants for `t` are one. That is
`AloneTokenIsSafe`, and without `Overlap` it is so for every token. The mapping `lifeBar`
calls a token dead when it is revoked *or* expired, so that the removal of its
row, and the insertion of a revoked one in its place, change nothing abstract.
`SessionInv` counts: the tokens that `refresh()` would accept, together with
those that a handler has revoked and is about to exchange, are never more than
the logins, as long as all tokens are alone. A login adds one to either side, a refresh exchanges one for one, and
whatever ends early only takes away.

**Registration.** `RegInv` says that no two rows have one email and what each
request knows of the table: who is between the insertion and the 201 has its own
row there, who was told 400 has lost to another row, who compares has a row of
the right email in hand, and a login that came after the 201 can still name the
registration. A refused login contradicts the last two: the row compared is the
only one of the email, hence the registered one. That rows are never changed or
removed (`RowsStay`) carries all of it from step to step.

**Notifications.** `HandlerInv` says that a handler past its save has its row in
the table and that a message is in the inbox or with a handler, never both;
`InboxInv` that a message is in an inbox once; `ConnInv` that what was pushed to
a socket comes from handlers of its own replica that have the push behind
them. A push then adds a message that was not there, of a row that is.
`RegistryExact` is nearly inductive by itself: it needs that open sockets have a
replica and a user. `JobsExact` says that the jobs queued are those of the
handlers at `"done"`, each with the user of its message: a handler that was lost
or rejected has queued nothing, so `Missed` in `StatusReachesCustomer` is never
said of an email that was queued.

**EmailQueue.** The budget of a job: the emails sent, those that workers with
the job in hand will still send, and one if it waits to be taken, are at most one more than
the times it may have been given out again. Completing, losing the lock and
stopping only lower it; a stall that puts the job back raises both sides.
`EndInv` says that a worker that has sent has its email counted, hence a completed
job was mailed, and that a failed one has stalled too often. With the budget
and `stageBar`, `Add` is `Accept`, `Send` is `Mail`, the `Complete` of the holder of
the lock is `Confirm`, the last `Stall` is `Fail`, and every other step is a stutter.

**OrderEvents.** Every step of the composition is a step of each component or
leaves it alone (`OrderSpec`, `NoteSpec`, `EmailSpec`), so the components'
theorems hold in it. For notifications and emails that rests on a fact of the composition:
there are no more messages about an order than requests that are done (`CountInv`),
so each has its event, never used before. `DeliverInv` says that an event carries the
user of the message it stands for, `RowsInv` that a row has the user of its
event; with `EventsTruthful` of the order service and `SavedFirst` of the
notifications, what reaches a customer is about an order of his own.
`ImplementsComponents` states the first sentence for the components as they are
specified alone. Its converse is not a matter of traces but of guards: a step
that two components make together might be blocked by the second. It is not
(`JointStepsAreFree`), because a message finds its event unused (`DeliverInv`) and
a handler at its add finds its job not in the queue (`JobsExact`, `QueueFilled`).
The rest is what the two liveness properties are about, without the "sooner or
later". `EventsAreAccounted`: for each replica a published event was missed, is
under way or is handled, exactly one of them, and each status an order has had
was lost, is at its publish or is such an event. `MailIsAccounted`: the queue has
the jobs of the handlers and no others (`QueueFilled`), mails only those, only to
the owner of the order and at most twice, and reports completed only what was mailed.

**Gateway.** `PlacedInv` is the type invariant with what each place on the way
knows of its request. `Answered` relates the place to `acted` and keeps the status on its
way believable, with the 401 of a refresh as the one refusal after work;
`Judged` keeps the reason of a refusal, which stays true because
a token once expired stays so; `HitsInv` bounds the throttler's count by the
answers given; `TalliedInv` says which of the two counters has counted at each
place, now or in an earlier life of its process.
`RequestsMoveOn` orders the places: no step takes a request back, those of
gateway and service take it on, and what was answered or done stays. The
invariant is needed for the answer: that a client is not told twice rests on who
may still be told at each place.

### Only model-checked

The liveness properties `EventuallyAnnounced`, `StatusReachesCustomer`,
`QueuedIsSent` and `EventuallyAnswered`: liveness under fairness
and `ENABLED` are out of the prover's reach. What safety can say of them is
proved: `HeldStatusIsAnnounced`, `EventsAreAccounted`, `MailIsAccounted`
and `RequestsMoveOn` leave to TLC only that the steps under
way are taken. Every other property of a passing run is a theorem.

## Not modelled, and what the models assume

- Equal `createdAt` timestamps: `findAll` orders by that column alone, and
  PostgreSQL may order equal ones anew for every page. `OrderQuery` takes them to be different.
- A schema that matches the entities. The migration creates `orders` without
  `deletedAt`, which every `find` selects.
- `OrderService`, `OrderQuery` and `Notifications` start behind the guards, in a
  deployment that provides the passport strategy; `Gateway` has it as a parameter.
- The `exp` claim of a refresh token, which is computed from the same setting as
  `expiresAt` and by another rule (`parseInt('12h')` is 12 days). No handler
  reads it back, so `Lifetime` is whatever `expiresAt` works out to. Access
  tokens are stateless and appear in `Gateway` only.
- `getUserNotifications`, the last 50 rows of a user: one query, no state.
- Several replicas of the gateway: each has a throttler and counters of its own.
- Labels, histograms, spans, logs and health checks, but for the one counter:
  observation only. For a proxied request the label `route` is the raw path, ids
  included, and grows without limit; labels are left out.
- Connecting and reconnecting of the Redis client: the library's. A connection
  that is lost shows as a replica that is not subscribed.
- The sockets and the memory that stalled requests hold, and their limits.
- infra-service, helm, terraform, CI: no state that a property of this program
  speaks of.

## What could follow

A throttler with several replicas; the two expiry rules of a token against each
other, once a handler reads the claim; equal timestamps in `OrderQuery`, with
the rows of one instant in any order for every query, under which
`HiddenAtMostLeft` no longer holds; two replicas that hear, and serve sockets, in
the run of `OrderEvents`.
