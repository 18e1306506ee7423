# Formal models of tempest-express-sdk

TLA+ models of `tempest-express-sdk` (TypeScript, `src/`): the parts that keep state across
an `await`, share it between requests, tabs, replicas or timers, or compute something that
has to come out the same on both ends; the TLC configurations that check them on small
instances; and TLAPS proofs of what holds for every size. `PROJECT.json` maps every
definition to the source lines it stands for and lists the hazards, runs, mutants, findings
and theorems by name.

Check a model with `tlc -config X.cfg M`, a proof with `tlapm M.tla`.

## 1. The system

The SDK is a library. An application composes its parts in one Node.js process; several
replicas of the process share a database, Redis, and a RabbitMQ server. Inside a process
JavaScript runs to completion between two `await`s (or callbacks), so the unit of
interleaving in every model is the code between two awaits. Between replicas it is one
command to the shared store.

### Components, their state and what must hold

Background work and connections:

| Component | State | Hard behaviour | What makes it correct |
| --- | --- | --- | --- |
| Transactional outbox (`db/outbox.ts`) | rows with status, attempts, availableAt; the relay's `running` flag | replicas with stale snapshots, crash between publish and mark, stop and restart | sent was delivered; no early giving up; bounded retries; stopped loops end; every event settles |
| Job records (`tasks/jobs.ts`) | one row a job | cancel's read and write around a worker's report; dying workers | terminal rows are whole and reached |
| Task manager (`tasks/manager.ts`) | the unsubscribe function in a field | overlapping start/stop, a broker that refuses either | the field tells which consumer is active |
| Message brokers (`queue/broker.ts`) | lazily opened connection and channel; map of handler sets | two awaits in `ready()`, redelivery when a channel closes, throwing handlers, acks that throw | acked was handled; repeats are earned by closes; a resolved publish reached everybody |
| Server-sent events (`sse/`) | per-stream queue, waiter and closed flag; channel members; Redis subscription | lost wake-ups, disconnects, two replicas, overlapping SUBSCRIBE/UNSUBSCRIBE | FIFO without loss; draining; subscribed exactly while serving |
| WebSocket hub (`websockets/`) | two indexes of connections; per-socket `alive` flag and timer | four ways out of the hub, sockets closing during authentication, half-open peers | indexes agree; dead peers leave; nobody is dropped unasked |
| HTTP client (`utils/httpClient.ts`) | failure count and `openUntil` per host | retries of several requests, timeouts, one shared breaker | opening is earned; retries are used; requests settle |
| Graceful shutdown (`api/middlewares/graceful.ts`) | in-flight count, draining flag, resolvers | double events of one response, waits before and after the drain | drained means drained; every wait ends |
| Messaging integrations (`integrations/`) | a broadcast's shared cursor; Telegram's offset; retries and keys of a send; webhooks; the WhatsApp socket | the offset moves before the handler ran, answers are lost, gateways call again | each recipient once; no update forgotten; a keyed message arrives once |

Between a request and its effect:

| Component | State | Hard behaviour | What makes it correct |
| --- | --- | --- | --- |
| Server and error handlers, body limit, CSRF, tracing, metrics (`api/`) | one exchange on its way down the chain; histogram and totals | a body counted while the handler runs, errors after an answer | one enveloped answer an exchange; no handler past a limit or the token check; metrics agree |
| Idempotency (`api/middlewares/idempotency.ts`) | stored responses by key | lookup and store are apart; retries; store errors | an effect is repeated by requests only that come before an earlier one is stored; a replay is genuine |
| Rate limiting, attempt throttle (`rateLimit.ts`, `utils/throttle.ts`) | time stamps by bucket or key | window ends, rounding, delayed scripts, failing Redis, refused attempts that count | at most the limit in every window; retry-after suffices |
| Sessions (`sessions/`) | key per session, index set per user (Redis) | no two commands atomic; failures between them | what was revoked stays revoked |
| Authentication (`auth/`, `utils/jwt.ts`) | password, active flag, MFA secret and flag, one-time tokens behind ports; rows of users, tokens issued | a check and its effect are separate awaits; claims are believed until they expire | a replaced password stays replaced; a spent token had its effect; MFA is on only with a confirmed secret; rights end with the token; one account an address |
| OAuth and webhooks (`api/oauth.ts`, `api/webhooks.ts`) | one sign-in with a state cookie and a code; a post with its signature | codes good once, answers lost | an identity is the one a code was issued for; a handler hears its sender only |
| Cache (`cache/`) | one key with its expiry | overlapping misses, an invalidation during a run | staleness is bounded; only a run that crossed an invalidation undoes it |
| Feature flags (`flags/`) | opinions of several backends | opinions that change while a composite asks | the answer is the flag's at some moment of the request |
| Log files (`utils/log.ts`, `core/logging.ts`, `api/logs.ts`) | files by level, handles, a reader's page | records appended while pages counted from the newest are turned | no record is skipped; files are complete |

Data and the admin panel:

| Component | State | Hard behaviour | What makes it correct |
| --- | --- | --- | --- |
| Tenant repository, services, controllers (`db/tenant.ts`, `services/`, `controllers/`) | a table tenants share | one forgotten predicate of ten operations | tenants keep apart |
| Audit log (`db/audit.ts`) | snapshots around awaited changes, entries | overlapping changes of several rows, a limited history | a timeline explains its row |
| Admin panel: writes (`admin/router.ts`, `session.ts`, `auth.ts`) | a session that is nothing but a signed cookie; tabs that show pages of older sessions; requests between their awaits | logins in other tabs, accounts closed and enrolled meanwhile, uploads and CSV rows that fail half way | no write without a session, second factor, token and permission; stamps name the writer |
| Admin panel: formsets, uploads, SQL console, configuration | rows of a page that colleagues move; busboy's events; attempts and their audit; the registry | a look and a write apart, limits in the middle of a body, audit before answer, calls that throw half way | what was typed is kept once and on its page; all of a submission or none; deeds are accounted; pages are sound |
| Admin panel: pages and presentation | flags, policy, parameters of a list, controls of a form, a CSV text, the log page, a search box, dashboard cards, the JSON client | each page draws doors, each route checks them again; parameters travel in links; values travel through controls | doors are open and none is hidden; links keep the query; untouched forms keep values; CSV comes back; lists and cards are true |
| Documents of others (`asyncapi/`, `utils/download.ts`, `schemas/linkHeaders.ts`, `utils/br.ts`, `utils/totp.ts`) | registry; a range and a path; a page of a list; a number; a secret and two clocks | order of registration, ends of a range, 32-bit shifts, steps of two clocks | closed documents; exact bytes; links lead through; digits are checked; codes are current |

They interact through calls and callbacks: the outbox relay publishes through a broker,
the task manager consumes from one and reports to job records; `RedisSSEBroker` extends
the in-process SSE broker with a Redis subscription; the middlewares run in front of any
handler; the HTTP client serves the OAuth and messaging integrations; the admin panel
cancels jobs, reads the log files, and writes rows whose changes services audit. Each model
takes its neighbours as an environment with only the behaviour the code relies on (a broker
accepts or fails, a handler ends or throws, a port answers or fails), because the components
share no state with each other beyond those calls.

## 2. Modules and the code

One module per component. An action is the code between two awaits of the operation it is
named after; its guard is the condition or early return of the code.

| Module | Models | State and actions |
| --- | --- | --- |
| `Outbox` | `OutboxRelay` and the table | `row` is the table, `pc` and `batch` the position and snapshot of each `run()` loop, `relay` the object it was called on; `List`, `Publish`, `Mark...`, `Sleep`/`Wake`, `Stop`, `Crash`. Time is kept as what remains of `availableAt`, so it is bounded without a horizon. |
| `OutboxDelivery` | abstract | what a committed event is promised, with no relay in sight: `Commit`, `Deliver`, `Confirm`, `GiveUp`. `Outbox` implements it. |
| `OutboxProofs`, `ConnectionsProofs`, `BackgroundProofs`, `RequestsProofs`, `AdminProofs`, `ServerProofs`, `PlatformProofs` | proofs | section 6. |
| `Graceful` | `GracefulShutdown` | `inFlightCount`, `draining`, `idleResolvers`; `Finish` and `Close` are the two events of a response, `Release` the shared callback. |
| `WebSocketHub` | `WebSocketHub`, `attachWebSocketHub` | `byUser` (ordered), `byId`, topics; `sock` is the peer's side, `timer`, `alive`, `pinged` the heartbeat closure. |
| `RabbitBroker`, `MemoryBroker` | the two brokers | `connection` and `channel` are the two fields, `conns`/`chans` what is really open; a Set object replaced in the map stays with its holders. |
| `TaskWorker` | `TaskManager` start/stop/dispatch | `unsubscribe` is the field, `consumers` the broker's truth. |
| `Jobs` | `JobStore` | `row` holds status and which of result, error and finishedAt are set. |
| `EventStream` | `EventStream`, `SSEBroker`, `sseResponse` | `queue`, `waiter`, `closed` are the fields; `iter` is where the async iterator is suspended, `chunk` what it has yielded and not yet written. |
| `RedisSse` | `RedisSSEBroker` | per replica the map, the Set objects, the commands sent and the frames on the wire. |
| `HttpBreaker` | `HTTPClient.request` | `failures` and `openFor` (openUntil as what remains), per request the attempt and timer. |
| `Idempotency` | the middleware | `store` is the map of responses; a request's lookup, handler and storing are steps apart. |
| `RateLimit`, `Throttle` | the middleware over its two stores, the throttle | `bucket` is the set of calls whose time stamps the list holds, `store` the numbers of the attempts kept: a stamp is its call's clock, so that two calls of one millisecond stay two. One constant selects the memory or the Redis store, where a call's clock (`nowMs`) and its script (`decidedAt`) are apart. |
| `Sessions` | `SessionService` over `RedisSessionStore` | `keys` and `index` are Redis, one command a step; `made` is how far `create()` got. |
| `Accounts` | `UserAuthService`, `PasswordResetService`, `ActivationService`, `MfaService` | the ports' data and, per call, the port call it awaits. |
| `SignIn` | signup, login, refresh, `JWTUtils`, the guards | rows of a store that changes, tokens as their claims and age, calls between their awaits. |
| `HttpServer` | `createApp` and what `configure` mounts | `at` is how far down the chain the exchange is, `open` the counting listener beside it; totals and histogram. |
| `Logs` | loggers, sinks, files, `makeLogsRouter` | records by number, files, attached handles, the reader's page. |
| `Cache` | `cached()` over both managers | the entry and its age, one call's access a step, the source and its invalidations. |
| `Messaging` | `broadcastText`, `TelegramProvider` | the runners' cursor; the loops' offset against the Bot API. |
| `Providers` | WhatsApp, SMS, e-mail, OAuth, webhooks | a send with its retries, a sign-in with its code, a post with its signature, frames of a socket. |
| `AsyncApi`, `Transfers` | the registry; ranges, paths, links | what is registered and the document; one request and its answer; a client following links. |
| `Verdicts` | check digits, TOTP, feature flags | a number and the answer; the secret's bytes through base32, server clock and phone clock; the backend a composite is about to ask. |
| `Tenants` | `TenantScopedRepository` and the layers above | `rows`; one action a kind of statement, for every filter; its proof is at the end of the module. |
| `AdminPanel` | sessions and writes of the panel | `cookie`, `tab`, `request` (each between two awaits), `row` with its stamps, `writer` the history that should agree with them. |
| `AdminPages` | every page and route; configuration and registry | which doors a page draws and what each route answers, under every set of flags and policy; `Register`, `Unregister`, `Automap`, some of them throwing. |
| `AdminInlines` | the formset of a detail page | the table, the form as drawn and typed, the saving loop, any of whose statements may be refused; colleagues move rows in and out and remove them. |
| `AdminQuery` | list, filters, lenses, export | the parameters of the page on screen, one action a link or form. |
| `AdminForms` | controls | a value drawn, submitted and read back. |
| `AdminFiles` | CSV; multipart bodies | a table written, carried and parsed; busboy's events and the promise they settle. |
| `AdminSql` | the SQL console | per operator the attempt on its way, the audit trail, what was run. |
| `AdminViews` | log page and exports, foreign-key search box, dashboard, JSON panel | four views of things that change while they are looked at. |
| `AuditTrail` | `snapshot`, `diffSnapshots`, the timeline | a service's change between its snapshots, entries with their times. |

External parts are modelled from how `src/` uses them: the AMQP server (a message is held
by one consumer until acked or nacked and returns when its channel closes), Redis (atomic
commands, frames of one connection in order), the job queue outside `JobStore`, the clock,
the persistence ports of `auth/`, the Bot API, gateways and identity providers, busboy, the
SQL parser, the browser. `map` marks them external.

### Composition for TLC

`MCConnections`, `MCBackground`, `MCRequests`, `MCAdmin` and `MCPlatform` compose several
component modules: each extends one or none and has the others as instances. The components
of one such module share no state, so a behaviour exercises the one that the variable `part`
names, and the variables of the others rest in their initial state or are `Off`: the state
space is the union, not the product, of theirs, and nothing is lost. A property of a
composed run is a conjunction: for each part it says what the component's own module states,
under the name it has there. `Outbox`, `Jobs` and `WebSocketHub` have runs of their own.

`MCConnections`, `MCBackground`, `MCRequests` and `MCPlatform` leave the sizes and tables of
their components open, and so does `MCAdmin` for all that is proved of it: they are
constants, to which the `.cfg` gives small values, and the module's assumption is that each
component's own assumption holds of them. What is proved of these modules is therefore
proved for every size. Only what tells the instances of one module apart is fixed:
a worker's calls in turn or not (`Worker`, `Hurried`), requests in turn or overlapping
(`Spaced`, `Shared`), the limiter in memory and in Redis, failing closed or open
(`Limiter(kind)`, an instance with a parameter), the calls of a replica in turn and without
faults, or overlapping and failing (`Redis(kind)`).

Definitions named after a fault (`ExhaustedLate`, `ReleaseSilently`, `IssueUnindexed`...,
marked "faulty variant") are no part of a specification: each is a plausible bug, and
`PROJECT.json` pairs it with the property that catches it when it replaces the action
that follows it.

## 3. Runs

| Run | Question | Properties |
| --- | --- | --- |
| `outbox_single` | one loop and two events, with two faults anywhere | `TypeOK`, `TriesAreBounded`, `ImplementsDelivery` (refinement, liveness included) |
| `outbox_replicas` | which promises survive two loops with stale snapshots, of two relays or of one that was stopped and run again | `SentWasDelivered`, `NeverGivesUpEarly`, `StopEndsLoops`, `EventuallySettled` |
| `graceful_drain` | four requests (one exempt) and two overlapping waits; three sockets of two users, at most two a user; two streams of a channel with heartbeats and disconnects | `DrainedIsDrained`, `WaitingIsBusy`, `HubIsSound`, `FifoLossless`, `WaitsEnd`, `DeadAreDropped`, `CloseDrains` |
| `background` | brokers across a close, with refused connections and callbacks that throw, worker calls that fail or not, in turn or not, the job table with a crash, three requests behind one breaker | `AckedWasHandled`, `ResolvedReachedAll`, `FieldTellsTheTruth`, `TerminalRowsAreWhole`, `BreakerIsFair`, `WorkEnds` |
| `requests` | idempotency among requests that overlap, rate limit on both stores, throttle; sessions in Redis; resets, activations and MFA of one account | `NoDuplicateEffect`, `WindowBound`, `RevokedStaysRevoked`, `SpentHadEffect`, `EnabledWasConfirmed`, `RetryAfterSuffices` |
| `admin` | the panel: two accounts and two tabs, every page under every policy, a formset with refused statements among colleagues, lists, forms, CSV, SQL, uploads, configuration, timelines, views | `WritesAreGated`, `StampsNameTheWriter`, `DoorsOpen`, `TypedIsKeptOnce`, `InputsArrive`, `DeedsAreAccounted`, `FormsetKeepsToItsPage` |
| `platform` | tenants, the server's chain, logs, cache, messages, documents, downloads, tokens, other people's services, verdicts; Redis events over two replicas, calls in turn or not | `ServerAnswers`, `ComputedByTheRule`, `CacheIsFresh`, `NothingGoesAstray`, `NothingMissed`, `InOrderOnce`, `TenantsKeepApart` |
| `ws_zombie` | finding | `OnlineIsLive` is violated |
| `jobs_cancelled` | finding | `CancelledIsFinal` is violated |
| `mfa_pending` | finding | `PendingUntilConfirmed` is violated |
| `lens_typing` | finding | `TypingKeepsTheLens` is violated |

What the conjunctions of the composed runs are made of:

- `HubIsSound`: the indexes agree, who is dropped was pinged. `BreakerIsFair`: opening is
  earned, and a request throws, or returns a status to be retried, only with its retries used.
  `WorkEnds`: what is sent is settled unless a callback throws, jobs end, requests settle.
- `RevokedStaysRevoked`: a revoked session is never resolved again, a replaced password
  does not come back.
- `DoorsOpen`: `AdminPages` (a door that is drawn is answered, nothing allowed is hidden,
  and what a page lists, edits, orders by and stamps are columns), `AdminViews` (the JSON
  panel does what its metadata says).
- `InputsArrive`: `AdminQuery` links keep the query; `AdminForms` untouched forms keep, with
  the server's clock in UTC and elsewhere; `AdminFiles` CSV round trip, an upload all or
  nothing; `AdminViews` no log record skipped, the search box sends what it shows, cards
  agree.
- `DeedsAreAccounted`: `AdminSql` (every attempt is audited in order before it is answered;
  what ran was granted), `AuditTrail` (the timeline explains the row).
- `ServerAnswers`: `HttpServer` (failures enveloped, handlers guarded, metrics add up),
  `SignIn` (rights end, one account each), `Verdicts` (flags).
- `ComputedByTheRule`: `Verdicts` (check digits, one-time codes), `Transfers` (a path stays
  under its root).
- `NothingGoesAstray`: `Messaging` (a broadcast reaches all, updates are handled),
  `AsyncApi` (the document is closed), `Transfers` (downloads are exact, links lead
  through), `Providers` (keyed messages once, earned identities, genuine posts), `Logs` (no
  record is skipped, files are complete).

### Findings

- **A socket closed during its handshake stays in the hub** (`websockets/attach.ts:90`).
  The `close` listener is attached after `authenticate` was awaited. A socket that closes
  meanwhile is registered, and no `close` event is left to take it out; `onlineUsers`
  counts it until the heartbeat drops it, or for ever with `heartbeatSeconds` 0.
- **A cancelled job can be revived** (`tasks/jobs.ts:124`). start, succeed and fail update
  by id whatever the row says, so a row can leave `CANCELLED`, one of the "Statuses a job
  can no longer leave".
- **MFA can be enabled with a secret nobody confirmed** (`auth/mfa.ts:79`). confirm()
  verifies one secret, awaits, and sets a flag that is not tied to it; an overlapping
  enroll() has replaced the secret by then. The run lets no call fail, so the trace is this
  overlap and not an enroll() of an account with MFA whose second write fails.
- **Typing into the filter bar leaves the lens** (`admin/templates.ts:577`). The bar is a
  GET form without a field for the lens, so the lens's predicate is gone with the next
  request, while the guide has filters "ANDed with whatever the operator typed".

### Smaller disagreements with a document, seen while modelling

No run states these; each is plain from the lines it names.

- A body that is too large or cannot be parsed is answered without `X-Request-ID`
  (`docs/recipes/api.en.md:25`), because the parser stands before the middleware.
- With the source "all" the log endpoint reverses the files one after another, so "newest
  first" holds within a level's file only (`docs/recipes/downloads-logs.en.md:74`).
- `snapshot` is shallow although it "freezes a row"
  (`docs/recipes/database-advanced.en.md:88`): a JSON document changed in place is not in
  the diff.
- `negotiate` answers a lowercased tag, under which `resolve` does not find the messages a
  catalog holds for "pt-BR" (`exceptions/i18n.ts:72`).
- The `Link` header of a list of one page is not empty (`schemas/linkHeaders.ts:31`).
- `normalizePhoneBr` keeps a `+55` it was given, so one phone has two "canonical" forms
  (`utils/br.ts:6`), and `+55` before a number without area code passes as an area code.

### Behaviour worth knowing

Brokers, streams, clients:

- First calls of a `RabbitBroker` that overlap open a connection each; `close()` closes
  the last only. An unsubscribe function used twice, or after `close()`, removes a set it
  does not own.
- Overlapping register/unregister of the first stream at a Redis replica, or a rejected
  SUBSCRIBE, can leave it without a subscription or with one too many. The property is
  stated for calls in turn.
- A client that disconnected before its handler ran never triggers `sseResponse`'s close
  listener.
- A request sent before the breaker opened and answered after it closes the breaker
  before its cooldown is over.
- `start()` of a worker overlapping another call can leak a consumer, or leave one running
  that `stop()` was called for. A `stop()` whose unsubscription rejects leaves the field set,
  so the next `start()` returns early although nothing may be consumed.
- A RabbitMQ message that is no JSON, or whose handler throws before it returns a promise,
  is neither acked nor nacked: it stays with the consumer until its channel closes. An ack on
  a closed channel throws, the nack of its catch too, and the unhandled rejection ends the
  process unless the application listens for it.
- Two relays over one table may publish an event more often than `maxAttempts`, and a late
  failure of one may reopen what the other marked sent; it is then sent again.
- A broadcast with a concurrency of 0 or less sends nothing. A Telegram handler that throws
  ends its loop; `stop()` still lets the batch at hand be handled; a restart delivers the
  last batch again. The WhatsApp socket has no `error` listener and does not reconnect, and
  frames are handled until its close completes. Sends without a key may be sent twice.
- An OAuth exchange retried after a lost answer fails on the spent code; a 200 answer
  without `access_token` becomes the token "undefined" until `fetchUser` fails.
- A webhook verifier behind a body parser finds an object where it expects the raw body and
  verifies the signature over nothing (`api/webhooks.ts:93`): genuine posts are refused.

Requests:

- Two requests with one idempotency key that overlap both run, and so does a retry between
  the answer and the write of the response, "instead of a duplicate side effect"
  (`middlewares/idempotency.ts:6`): `NoDuplicateEffect` allows a repeated effect to exactly
  these. A replay carries status and body, not the headers.
- The memory store of the rate limiter counts a call of exactly one window ago, so a client
  that retries at the very time it was told is rejected once more.
- An enroll() whose second write fails leaves MFA on with the new secret.
- Sessions issued by a sign-in that overlaps a global logout, and tokens refreshed after a
  password reset, stay valid. enroll() on an account with MFA takes effect on the secret
  one await before the flag is cleared. The JWT middleware does not look at a token's type,
  so a refresh token passes where no role is asked for; the bound is its life time.
- A one-time code may be used again while it is current.
- A composite flag asks its backends one after the other: when two opinions change between
  the questions the answer may be one the flag never had. With one change it cannot.
- A handler that answers and then throws is counted as a 500. `Range: bytes=-0` is answered
  with the whole file. `has()` is true of a stored null; a cached `undefined` poisons a
  memory entry; `clear()` of the Redis manager empties the database. `JSONLogger` records
  carry no timestamp.

The panel:

- Two rows of a formset with one name (two blanks posted twice) overwrite each other;
  `TypedIsKeptOnce` is stated for different names. What was typed into a row that a
  colleague moved from the page or removed since it was drawn is dropped without a word
  (`admin/router.ts:1664`). A look or a delete that the database refuses is caught nowhere
  (`router.ts:1640`): the answer is the error page, and rows not yet worked off or waiting to
  be shown again are lost. A row whose key begins with "new" is created, a key with a dot
  dropped. A blank row with literal defaults is not skipped. The delete box of an inline does not ask the policy; inline links may lead to
  children one may not view.
- A `datetime-local` control drifts by the server's offset and loses seconds; padded text
  comes back trimmed, a nullable boolean false; an enum or key outside the options is
  silently changed (`FK_OPTION_CAP`); clearing a required column with a default sends null.
- Answers to the search box of a foreign key that overtake each other leave the list of an
  older term (`admin/templates.ts:1566`), though what is sent is what is shown; two rows
  with one label beyond the limit cannot be told apart, and a column that is no managed
  foreign key can never be given a value.
- A CSV without a flag's column writes false; row numbers count records, not lines. What it
  has in an upload's column is stored as the file's key, whether there is such a file or not
  (`router.ts:1346`); `StampsNameTheWriter` speaks of files that came by upload. The
  JSON export of the log does not say that it was cut.
- A bulk activation stamps nobody. A failed validation leaves an uploaded file behind. A
  multipart body over its limit is answered before the token check, but never written.
- A table set the parser cannot list passes `denyTables` of the SQL console. A parser that
  cannot be loaded answers 500, and the attempt is in no audit entry (`router.ts:835`); a text
  of several statements that fails half way is reported as failed, whatever it has done.
- Two audit entries of one millisecond have no order; an entry is lost when the service
  dies between change and entry outside one transaction.
- A record named `_meta` cannot be opened in the JSON panel. A trend against a negative
  baseline shows "up" with a negative percentage.

## 4. Bounds

Bounds are constants of the modules, named in their declarations. They are chosen so that
every way two actors can meet happens at least once:

- two relays, workers, replicas, tabs, callers or operators, because the hazards are pairs
  (one reads, the other writes in between); three sockets, streams or requests where an
  eviction, a second unsubscribe or a shared budget needs a third;
- two attempts, retries, messages or logins, the least for "again" and "out of order";
- one or two faults (`MaxFaults`, `MaxCrashes`, `MaxCloses`, `MaxChanges`, `MaxForeign`),
  anywhere; properties that count (`TriesAreBounded`, `NoDuplicateEffect`) state the price
  of a fault instead of excluding it;
- clocks (`MaxTime`) run for almost two windows past the first time stamp, so every
  position of a window over its calls occurs; timers of the outbox and of the HTTP client
  are kept as what remains and need no horizon, which is why liveness can be checked there;
- three calls of each service over one account, starting with or without MFA; sessions,
  calls and tabs are interchangeable and declared symmetric (those runs have no liveness
  property);
- four requests of the panel with two logins and one change of an account: enough for a
  page of an older session to be sent under a newer one, by an account that was closed;
- all 256 policies over two models and four permissions, with every flag taken away once,
  and with an inline of every kind;
- tables, texts and bodies of at most two cells, three parts or three statements, with every
  character, part and statement the code treats differently; secrets shorter and longer
  than the 32 bits of a shift; numbers with every check digit.

`CHECK_DEADLOCK FALSE` stands wherever the system may stop: when all requests, messages
and calls of the instance are spent. Only the outbox runs for ever.

## 5. Fairness

Every fairness condition is weak and on the program's own steps:

- promise continuations and timers of a live process run (`LoopStep`, `IteratorStep`,
  `Beat`, `TimesOut`, `Wakes`, `CallStep`): the event loop starves nobody;
- time passes (`Tick`);
- a crashed or stopped relay is run again (`Run`): stated as an assumption on whatever
  supervises the process, without which `EventuallySettled` is not promised by the code;
- responses end (`Graceful`), handlers and runs return or throw (`RabbitBroker`, `Jobs`),
  the AMQP server answers and delivers to active consumers;
- nothing is assumed of clients, peers, remote servers or users: `DeadAreDropped` and the
  client's part of `WorkEnds` hold although peers and servers may be silent for ever.

## 6. Proofs

`OutboxProofs`, for any number of events, relays, loops, attempts and faults, from
`OutboxAssumption` alone:

- `TypeCorrect`: `Spec => []TypeOK`, which includes that attempts never exceed `maxAttempts`
  and that only rows with tries left are pending or listed (`CountsInRange`, kept by
  `CountsStep`). `RetryDelayType` types the backoff delay; `TypeStep` goes through the actions.
- `SentDelivered` and `NoEarlyGivingUp`: a SENT row was accepted by the broker, a FAILED
  row was tried `maxAttempts` times. Neither is inductive: the mark is written from a
  snapshot that may be stale. The invariant adds what a loop knows at each position: after
  a successful publish the event it is about to mark is in `delivered`, and the attempts in
  the row and in every snapshot never exceed the publishes made, so that a stale count
  can only be too low.

And with `OneLoop`, no two loops (the deployment for which the code promises more):

- `BoundedTries`: at most `maxAttempts` publishes of an event, plus one for each fault that
  lost a mark. The invariant `TInv` says that snapshots of the loop are fresh
  (`SnapshotsAreFresh`), that a loop has one snapshot of a row at a time, and that the
  publishes are the attempts in the row, plus one in flight, plus lost marks
  (`TriesAccounted`). With two loops it is false: both may publish what they have listed.
- `DeliveryRefined`: `Spec => Delivery!Init /\ [][Delivery!Next]_Delivery!vars`, the safety
  half of `ImplementsDelivery`: each step of the relay commits, delivers, confirms or gives
  up, or is invisible. `TInv` rules out the step that would take a settled event back.

`ConnectionsProofs`, from `ConnectionsAssumption`:

- Graceful shutdown, for any finite set of requests and any number of waits: `CountedOnce`
  (`inFlightCount` is the number of requests in service), `DrainIsSafe` (`DrainedIsDrained`)
  and `WaitsHaveAReason` (`WaitingIsBusy`). The inductive invariant is the conjunction of the
  types, the count, "a waiting call has its resolver in the list", "after the drain began
  nothing but exempt requests is admitted" and the properties. `ServingFinite`,
  `AdmitCounts` and `ReleaseCounts` carry the cardinality.
- `HubStaysSound` (`HubIsSound`), for any number of sockets and users: whichever of four
  ways a connection leaves by, it leaves both indexes. What the properties need beyond
  themselves is that the hub holds only sockets whose handshake was accepted, so the one
  being attached is in neither index yet. Taking a connection out of a user's list is a
  recursive function over the evicted set, whose value the provers cannot compute; induction
  over finite sets (`SetInduction`, from the well-foundedness of the strict subset) shows
  that the function exists and that what it returns keeps the order and loses only what it
  should (`WithoutIsKept`, `WithoutProperties`).
- `StreamsLoseNothing` (`FifoLossless`), for any number of streams and messages: what a
  stream accepted is what was written, in hand and queued, in this order. The invariant adds
  that a chunk is in hand exactly at a yield and that no iterator sleeps on a queue with
  something in it.

`BackgroundProofs`, from `BackgroundAssumption`; `BackgroundIsSound` states the invariants
of all five parts together:

- `AckedMessagesWereHandled` (`AckedWasHandled`): an acked message was handled, and it was
  handled once plus at most once for each thing that was closed. Each delivery, handled,
  unanswered (its handler runs or threw) or still to come, is paid for by the sending or by
  one closing (`RunsArePaid`); a process that dies of a failed ack gives back what it held.
  The proof first failed with one repetition a `close()`: a `close()` closes a channel and a
  connection, and when two calls opened one each they need not belong together, so it can
  return a message twice. `RepeatsNeedAClose` says `1 + 2 * closes` since.
- `ResolvedPublishReachedAll` (`ResolvedReachedAll`): all live subscriptions share the set
  object that the map holds, so a publish owes no handler it does not see.
- `FieldIsTruthful` (`FieldTellsTheTruth`): for calls in turn, some of which reject, one is
  under way at most and its position says what field and broker hold; for overlapping calls,
  a consumer is unknown to the field before its `start()` is over, and an inactive one is
  about to be cleared or one that a `stop()` rejected on.
- `NoHalfWrittenRow` (`TerminalRowsAreWhole`) and `BreakerOpensFairly` (`BreakerIsFair`,
  with "who sleeps has an attempt left"). `WaitsAreBounded` bounds every backoff by the
  longest timer. It rests on the one conjunct of `HttpBreakerAssumption` that is arithmetic
  and not a choice of constants: `BaseDelay * 2 ^ n` is a number and grows with `n`. The
  provers know nothing of exponents, and TLC evaluates it in every run.

`RequestsProofs`, from `RequestsAssumption`; `RequestsAreSound` states all invariants:

- `EffectsAreSingle` (`NoDuplicateEffect`): a stored response is a 2xx of a request with its
  key (`StoreIsGenuine`). A request is early if it missed while another with its key was not
  stored yet. Of the others one is at work at a time, and whenever its handler runs, or the
  key has no response and none of theirs is about to be stored, each success that is not an
  early one's was paid for with a fault (`OnceInv`).
- `WindowsAreBounded` (`WindowBound`), for any limit, window, delay and number of calls, over
  all three limiters and the throttle: in no window are more calls admitted than the limit.
  The invariant says that the recent admitted calls are still in the bucket
  (`RecentSurvives`) and the bucket never exceeds the limit, so every window counts at most
  that many (`WindowFollows`). With Redis a call's stamp is older than its decision by up to
  `MaxDelay`, and windows are counted by decisions within what remains (`ClocksAreClose`).
- `RetryingLaterSuffices` (`RetryAfterSuffices`, an action property): over each of the three
  limiters nobody whose clock is read at or after the time the last rejection promised is
  rejected, as long as nobody was admitted in between (in memory: after that time). The
  promise made at a rejection is covered by a call that is still in the bucket
  (`PromiseCovers`), which expires by then because rounding seconds up never rounds down
  (`RoundedUp`); `LeastExists` gives the oldest stamp of a finite set.
- `RevocationIsFinal` (`RevokedStaysRevoked`): a call revokes what it has still to delete; of
  the sessions a call covers, each is gone or among the ones it goes on to delete, and a key
  whose cookie somebody holds is in the index (`Fits`, `SessionsInv`). For passwords: each
  reset brings one of its own, in nobody's past until it is written (`PasswordsInv`).
- `TokensAreSpentWell` (`SpentHadEffect`): a token that is being cleared has been applied.
  `MfaIsConfirmed` (`EnabledWasConfirmed`): unless calls got tangled, one MFA call runs at a
  time, and a `confirm()` about to set the flag has seen a code of that very secret.

`AdminProofs`, from `AdminPanelAssumption` (any accounts, tabs, rows, grants) and
`AdminAssumption` (any rows, limits, statements, policies, models, flags and bounds):

- `OnlyGatedWrites` (`WritesAreGated`) and `StampsAreTrue` (`StampsNameTheWriter`). A
  submission is accepted because the token in its form equals the one in the cookie; that
  the operator who saw the page is the one of the session does not follow from any single
  step. The invariant gives each token issued an owner (`TokensAreOwned`): whatever cookie,
  page or request carries it, from before a logout or after a second login, names the same
  account. And it lists what is known of a request from where it stands (`RequestKnows`):
  past the gate its session has its second factor and its account was open, past the checks
  it has token and permission, and a file it writes has been uploaded, unless a CSV told its
  key.
- `TypedIsKeptOnceHolds` and `FormsetKeepsToItsPageHolds` (an action property). The formset
  saves row by row, a look and a write apart, each of which may be refused, while colleagues
  move rows in and out and remove them. The invariant (`FormsetInv`) says that a row of the
  form has an identity that was given out and that what `owned()` found is no stranger
  (`KeysAreKnown`), that a row of the form which is no child any more was taken by a
  colleague or is worked off (`LeftIsTaken`), and that each row worked off was saved, comes
  back or was taken (`WorkedOffIsKept`).
- `DeedsAreAccountedHolds`. Console: what ran for an operator is what his entries of the
  trail say, in order, but for the text he still waits for (`AccountOf`, by ranks in the two
  sequences), and entries and attempts under way add up to those made (`ConsoleInv`).
  Timeline: the last entry that tells of a field ends at what the next will begin with, and
  each begins where the one before it ended (`LogFollows`), which is why cutting the history
  at any limit leaves a chain that explains the row (`TrailInv`). A document that was changed
  in place is excepted: a shallow snapshot cannot see the change.
- `DoorsOpenHolds`. The page on screen is one the operator was answered, and for each kind
  of page each door it draws asks the route for what the page had asked (`PagesInv`); a model
  is in the registry only as it was accepted (`SiteInv`), whichever call threw; a frontend of
  the JSON panel is right about what it has read (`ViewsInv`).

`Tenants`, for any rows, tenants, filters and values:

- `Isolation`: `Spec => TenantsKeepApart`. No invariant is needed: a scoped filter has the
  tenant as its last word (`ScopeHolds`), and what a caller sets never includes the tenant
  column (`SafeSet`), so each call keeps apart whatever the table holds.

`ServerProofs` and `PlatformProofs`, from `PlatformAssumption`; `PlatformIsSound` states the
invariants of all parts:

- `CacheStaysFresh` (`CacheIsFresh`), for any callers, times and number of writes: a call that
  has read the source read it at most `MaxRun` ago, when the source still had that value, so
  whatever it stores outlives the value by no more than that and the time to live
  (`CallFits`, `EntryFits`). A stale value in hand while no invalidation is under way means
  that the invalidation passed between the call's reading and its storing (`crossed`).
- `EventsInOrder` (`InOrderOnce`), for any replicas and streams, calls overlapping and
  commands failing: what could double an event is a client with two listeners. It never has
  two, because commands alternate: each of a replica's commands undoes the one before it
  and the last agrees with the map (`CommandsFit`), so a second subscription is granted only
  after an unsubscription was, whose reply is on the wire between the two and removes the
  listeners first (`RepliesFit`). The rest is order: what a stream got is below what is on
  the wire, which ascends up to what was published (`GotAscends`, `IdsAscend`).
- `NoEventMissed` (`NothingMissed`), calls in turn: a replica is in one of six phases, each
  known by what is on its way (`Resting`, `Asking`, `Granted`, `Joining`, `Leaving`, `Left`);
  a stream is registered in the first of them only, in which Redis sends the replica the
  channel, its client has one listener, and the set in the map is the stream's
  (`StreamFits`). The four calls, the four commands and replies and a publication each lead
  from phase to phase. Overlapping calls have no such phases, and do miss events (section 3).

- `ServerAlwaysAnswers` (`ServerAnswers`). The chain (`HttpInv`), for any limits, histogram
  bounds and number of requests: what was parsed is within the limits and the route is
  reached with matching tokens (`Guards`); a request not yet counted leaves room for itself
  between histogram and requests served (`Counters`). Signing in (`SignInInv`), for any
  users, roles and times: whoever holds a token has its rights still, or lost them so late
  that the token expires within the latency and its time to live (`TokenFits`); this needs
  that a call between its awaits knows when its row was read and what has been lost since
  (`SigningFits`). Flags (`FlagsInv`), for any number of backends: while one change at most
  has happened, what was asked so far agrees with the opinions as they are or as they were,
  and each backend already asked had nothing to say in one of the two (`Heard`).
- `NothingEverGoesAstray` (`NothingGoesAstray`). Broadcasts: below the cursor each recipient
  was sent to once and has a result or a runner at work on him (`BroadcastInv`). Polled
  updates, for any number of loops: a batch is what follows the last update that was
  confirmed when it was asked for, every update below an offset was handled, and an update
  was handled at most once by each loop that is past it (`TelegramInv`). A document is
  rendered only while its references resolve (`DocumentInv`). A range that is answered is
  computed from the size, and following `next` visits every page (`MovesInv`). A key names
  one copy, a real token was paid for with the code, what is handled had passed its check
  (`ServicesInv`). Log files, for any page size and number of records, files and handles:
  what is placed in a file and what handles still hold add up to the handles that watched
  the record (`Balanced`), and what a reader of the first page has not met by page `n` lies
  behind at least `(n - 1) * PageSize` entries; appending only pushes entries back, also
  through the merging of the files (`Behind`, `Grown`, `EntriesGrow`), so turning the page
  reaches it (`ReaderInv`).

Left to TLC, and why:

- liveness, and the fair half of the refinement (`WaitsEnd`, `DeadAreDropped`, `CloseDrains`,
  `WorkEnds`, `EventuallySettled`, `ImplementsDelivery`): the provers have no rule for
  fairness here, and `ENABLED` is out of their reach.
- `ComputedByTheRule`: check digits are sums over a number, codes go through base32 digit by
  digit, a path is resolved segment by segment. What a fold or a recursive function computes
  for every input needs an induction over data that cannot be instantiated here; TLC goes
  through the inputs instead.
- `InputsArrive`: CSV, control values and multipart bodies are read and written character by
  character or part by part, with the same consequence; lists, search box and cards are
  conjuncts of the same property.

## 7. What is abstracted

Payloads, ids, names, log lines and formats are model values or left out, unless a property
is about them (CSV cells, controls, base32 characters, digits). A code stands for the secret
it was computed from, a token for the fact that it was issued. Ticks stand for milliseconds
with `Second` ticks to a second where rounding matters. Cryptography is assumed to work.

Where several paths of the code meet in one of a model, or one is left out, because no
property tells them apart:

- `EventStream`: what `res.write` returns (the code does not wait for `drain`) and a write
  that throws (`sse/eventStream.ts:155`). `RedisSse`: an UNSUBSCRIBE that is rejected.
- `RabbitBroker`: a connection or channel that the server closes on its own; only `close()`
  does. A connect or `createChannel` that fails is modelled.
- `Idempotency`: the key scoped by method and path (line 117) is one value. `RateLimit`: the
  PEXPIRE (`rateLimit.ts:102`) drops a whole list no earlier than its newest call leaves the
  window, so nothing counts that would have expired with it.
- `HttpServer`: cookie and header of the CSRF check agree, differ or one is missing, and the
  last two are answered alike; the paths it and the body limit exclude are left out. A
  declared length is the true one, and one that is no number counts as none. The body limit
  stands before `createApp`'s chain, on an outer application: mounted in `configure` it is
  behind the parser (`server.ts:130`) and counts nothing of a body the parser has read.
- `SignIn`: looking an account up and verifying its password are one step.
- `AsyncApi`: a message whose name is that of a channel with "Headers" or "Query" behind it,
  which would share the name of a schema. `Transfers`: a stream that
  fails after the headers are sent. `Providers`: a frame that is no JSON, of another type or
  without payload is dropped.
- `AdminForms`: numbers, dates and JSON are typed as their kind requires; what does not parse
  is an error at the field like a select's. `AdminSql`: see the panel's entry in section 3.
- `Cache`: a result that is `undefined`. `Tenants`: an update does not write the identity.

## 8. Not modelled

Components without state or control of their own:

- Web push: one request a subscription, settled together; pruning is left to the caller.
- Models, backup and slow-query log: column helpers, a child process, a timing wrapper.
- Settings: read once at start-up. Storage: one file-system or S3 call an operation.
- Command line: writes the files of a scaffold once (over existing ones without asking).
- Testing helpers: open an in-memory database and close it.

Parts of components that are modelled otherwise:

- Sessions: the in-memory store and the cookie middleware, which only calls `resolve`.
- Authentication: the router beyond the calls it makes, schemas and HTML pages.
- Messaging: the wording of payloads, media uploads, session management of the gateway.
- Admin panel: the handlers of custom actions, which are the application's, and the task
  panel's buttons, which are `Jobs`' cancel. HTML wording, CSS and themes.
- Schemas: what only declares a validator. OpenAPI documents, built once from declarations.
- Health and metrics: gauges that read the operating system. Core: the async-local context
  and enumerations.
- Utilities: dates, locations, password hashing and mail.
- Verdicts: the shapes a number may be typed in and the HMAC of a code.

`PROJECT.json` lists each with its reason.
