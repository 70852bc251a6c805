# notify: a TLA+ verification project

`notify` is a notification service in Go: producers call `Notify`, the service
stores a row per recipient and fans it out over channels (in-app streams,
email, push, SMS, WhatsApp); clients stream events, page their inbox and
acknowledge. This directory models the service, from its configuration to its
stores and providers, checks it with TLC and proves every safety property that
TLC checks with TLAPS, for every value of the constants.

## 1. Inventory

| component | state | operations | interacts with |
|---|---|---|---|
| orchestrator, `notifier.go`, `channel.go` | none of its own; locals of a call | `Notify` | store, providers |
| internal and client handlers, `internal/server/handlers.go`, `mapping.go` | none | `Notify`, `AckNotification`, `AckDataChange`, `GetNotifications`, `RegisterPushToken` | orchestrator, store, retry tracker |
| memory store, `store/memory` | `notifications`, `notifByKey`, `devices`, `deviceByKey` under one mutex | the `Store` interface | |
| postgres and entdb stores, migrations | tables; nodes and edges | the `Store` interface; schema migration | database |
| registry and connections, `realtime/registry.go`, `conn.go` | `byUser`, one buffered channel per connection | `Register`, `Unregister`, `Push`, `PushTo` | stream handler, in-app provider |
| stream handler, `internal/server/stream.go` | one goroutine per stream | `serve` | registry, client |
| in-app provider, `internal/server/inapp.go` | none | `Send` | registry |
| retry tracker, `realtime/retry.go` | `byKey`, one goroutine and timer per retry | `Track`, `Ack`, `CancelAll` | `AckDataChange`, shutdown |
| server, `internal/server/server.go`, `cmd/notifyd` | listeners, HTTP servers, store | `Run`, `Shutdown` | all of the above |
| providers `channels/*` | access-token cache (fcm) | `Send` | HTTP services |
| auth, middleware, configuration | none | per request, at start | |

What is hard here: `Notify` makes three separate calls per target (create, send,
record) with nothing held in between, next to other calls, producers' retries,
acknowledging clients and crashes; pushes walk a snapshot of connections outside
the registry's lock; all connections of a user share one event object; a retry
goroutine cleans up by name after its lock-free callbacks; inbox pages are cut
by a timestamp. The durable stores spread one call over several statements; a
migration holds a session's lock over several more, under a deadline; a process
shuts down with handlers running, partly on connections `net/http` does not
track, and then waits for their statements; a provider's service may take a message and its answer get lost.
`PROJECT.json` lists each hazard at its line.

What makes the parts correct:

* store: one row per `(tenant, user, notification id)`; rows are inserted once
  and then only restamped; rows and index agree;
* orchestrator: stored before sent; success means everything deliverable was
  handed to its provider; statuses have causes; the result's counters add up;
  a call gets on until it ends;
* acknowledgement: its read stamp is never erased;
* registry and streams: a connection is registered exactly while it is served;
  clients get only what was pushed to their user id, each event at most once; a
  push never blocks; queued events are sent; cancelled streams end;
* inbox: pages list each row at most once, newest first, and end; what they miss
  is explained;
* retry tracker: every goroutine ends; cancellation reaches every goroutine; an
  entry stands for a running goroutine;
* durable stores: the same mailbox and device table as the memory store,
  whichever calls race; a lost race still finds the stored row; counts and pages
  describe the time of the query;
* migrations: recorded exactly when applied, in order; no boot serves on less
  than its own schema; the lock is not kept for ever;
* process: starts only with a usable configuration; serves only the trusted;
  says ready only while it serves; a signal or a dead listener ends it unless a
  statement holds up the close of its store, and it leaves nothing open;
* providers: a receipt is true; a false "failed" has a known cause; what goes out
  is addressed right, sender and recipient; what can keep a send from returning is
  known.

## 2. Modules

| module | models |
|---|---|
| `NotificationModel` | the row of `model.go` and what `UpdateStatus` stamps |
| `StoreContract` | abstract specification: the mailbox the `Store` interface promises |
| `MemoryStore` | `CreateNotification`, `GetNotification`, `UpdateStatus` of the memory store as atomic operators over its two maps |
| `Notifier` | `Notify` calls, `AckNotification` calls, failures, crashes, over `MemoryStore` |
| `Inbox` | the inbox query of the memory store and a client that walks the pages, over `MemoryStore` |
| `LiveStream` | registry, `serve` goroutines and pushes |
| `RetryTracker` | the tracker and its goroutines |
| `DurableRows` | notification rows in the memory, postgres and entdb drivers, statement by statement |
| `DeviceContract` | abstract specification: one registration per device, replaced as a whole |
| `DurableDevices` | device registrations in the three drivers, over `DurableRows` |
| `Stores` | both tables with concurrent callers, their properties and refinements |
| `Migrations` | processes booting on one Postgres database |
| `Config` | `loadConfig`: what an environment is worth |
| `Auth` | validators and the internal token: what a request's headers are worth |
| `Daemon` | one `notifyd` process, over `Config` and `Auth`, with its servers and connections |
| `Delivery` | the five providers and the services behind them |
| `RetryTrackerProofs`, `NotifierProofs`, `LiveStreamProofs`, `InboxProofs`, `StoresProofs`, `MigrationsProofs`, `DaemonProofs`, `DeliveryProofs` | theorems about the module each is named after |
| `MC*` | instances for TLC (values of constants, symmetry) |

**RetryTracker.** `byKey` maps a (key, connection) pair to the number of its
registered goroutine, 0 for none (the source's nested maps never keep an empty
inner map). Numbering the goroutines of a pair gives each `*retryState` an
identity, which is what the clean-up at `retry.go:121` ignores. `Track`, `Ack`
and `CancelAll` hold the lock throughout and are single actions; a goroutine's
select, callback and clean-up are separate. A select with both cases ready may
take either. `AckDataChange` is `Ack`, after validation.

**Notifier.** A call is a program counter over the two loops (`pos`), with the
request, the resolved channel list, the row id and the result so far. Each store
call may succeed, or fail with or without having been applied (a lost answer).
`notifyRequestFromProto` drops unspecified channels, so a request naming only
those is fanned out to every enabled channel, in map order (`Enabled`). An
address is absent, empty or given: an empty one wins over the in-app default.
`AckNotification` is the ownership lookup and the update, two actions. The rows
are those of a durable store, so they survive `Crash`; the operators used are
the memory store's, the reference that every store is tested against. The clock
is read together with the update it stamps. No caller of the service presets
`n.ID`, so a created row gets a fresh id.

**Inbox.** A query is a pure read under the store's lock: `Rest` is its filter
and sort (`InOrder` puts an id behind as many as come before it), `Page` and
`NextCursor` its cut. A cursor is the creation time of the
page's last row. Time 0 stands for "no cursor", which `decodeCursor` refuses as a
cursor value. A row is stamped by `Build` and stored by `Store`, two steps as in
`Notify`, so rows can appear behind a client's cursor. `steady` is history: the
rows that a walk owes its client. The reply's unread count is left out.

**LiveStream.** `byUser` holds Go slices as sequences; `Unregister` moves the
last element into the gap. `Push` takes its snapshot atomically and then offers
the event to one connection per step. `session[e]` is the `SessionId` field of
the shared `*StreamEvent`: stamping it and encoding it are separate steps of
each handler, which is the data race of `stream.go:127`; a reader gets one of
the ids written. A heartbeat that is sent changes no state; one that fails ends
the stream. `EventCh` is never closed, so events left in it are lost with the
connection. A client is an account, a (tenant, user) pair; user ids are unique
within a tenant only. `Register` files a connection under its user id, as the source
does, whatever its tenant. `RowOf[e]` is the account whose notification an event
carries, `dest[e]` the user id it is pushed to: the row's own unless the request
gave in_app an address (`addressFor`).

**StoreContract** has one variable, a row or nothing per key, and two actions.
`MemoryStore!Mailbox` reads the store's two maps through the index; the
refinement is `ImplementsContract`.

**DurableRows, DurableDevices, Stores.** A call is the list of its statements;
`step` and `call` hold the next one and its local variables. A driver is chosen
once. memory does a call in one step, under its mutex. postgres inserts with ON
CONFLICT and then selects the stored id, and pages and counts an inbox with two
statements. entdb creates optimistically and resolves a conflict by the composite
key, reads before it patches, and reads an inbox row by row. Rows get UUIDs in
any order. Keys are sequences of characters because `lpEncode` is about
separators in them; `Itoa` is how `Sprintf` writes a length, of which `KeyConstants`
states all that matters: no colon, and no two lengths alike. All other strings are
opaque. `out` is what the last step
returned to its caller; `always` and `ever` record which rows were unread all
through a query or at some moment of it; `since` whose tokens were written since
a registration's own. Every statement may fail. A statement whose reply is lost
leaves the store as one that succeeded and is followed by no further step of its
call, which is a caller that stops reading `out`. GetNotification of entdb may
read twice, as the user and as the system: one step, since a row's key never
changes. The two tables share nothing; a behaviour works on one of them.

**Migrations.** One action per statement of `New` and `applyMigrations`. Every
statement runs under the context of the boot, so none is sent after `Expire`: not
the deferred unlock either, whose error is dropped, and then the pooled
connection keeps the session lock until the pool recycles it (`Recycle`).
`Lost` is a crash, a broken connection or a deadline inside a statement, which
the server may still have applied. The SQL of a version is one implicit
transaction of IF NOT EXISTS statements. `cut` and `rerun` are history.

**Config, Auth, Daemon.** An environment is abstracted to classes of values; the
variable names are those of the source without `NOTIFY_`. The main goroutine is
the record `d`: load, open the store, construct, bind three listeners one by one,
start three Serve goroutines, say ready, wait, shut down server by server, clean
up, exit. `net/http` is modelled from its use: `Shutdown` closes the listener and
idle connections and waits for the connections it tracks, until the deadline that
the three servers share; a connection that spoke h2c was hijacked from it
(`h2c.NewHandler`) and is not tracked. A connection carries one request at a time:
unary calls pass the interceptors, `StreamEvents` the shim. JWT verification is
the library's, with the options the source gives it. A handler that uses a postgres
store takes connections out of the pool and returns them (`Acquire`, `Release`);
`busy` are the handlers that have one. `Cleanup` closes the pool to newcomers, and
`PoolCloses`, the return of `pool.Close`, waits until `busy` is empty. `d.providers`
is the provider registry that `NewWithDeps` fills.

**Delivery.** A `Send` checks its destination, gets a token (fcm), posts, and
takes the answer apart; the service decides on its own (`Decide`), also after
nobody waits any more: it takes the message, refuses it, or knows the device to be
gone. `Answer` quantifies over statuses and bodies. A service that took a message
answers it with a success status, but a proxy before it may answer 502 instead,
whatever the service does (`Gateway`; `summarise` and `sendMessage` mention such
answers). `why` is the reason a failed call saw, for `TakenYetFailedHasCause`.
Addresses are counted in WhatsApp prefixes: a recipient or a configured From number
may carry one already, `WaPrefix` adds one if there is none, and `SenderPrefixes`
does so for a static number but not for a messaging service. The token source is
`oauth2.ReuseTokenSource`, which mints under a lock.

## 3. Runs

Passing runs:

| run | shows | instance |
|---|---|---|
| `retry` | `OrphanHasCulprit`, `StaleOnlyAfterParentCancel`; `LoopsExit`: goroutines end by their budget, cancelled ones without any timer | 1 pair, 2 parents, budget 2, 3 goroutines |
| `notify_fanout` | all properties of `Notifier`, `ImplementsContract` among them | 2 calls, 1 acknowledger, 2 users, 3 channels of which 2 have providers, 3 requests of one notification id, 2 clock readings |
| `stream` | what is registered, who gets what and how often; pushes never block, queued events are sent, cancelled streams end | 2 connections, of users of one name in 2 tenants, an event of each, 2 user ids, buffers of 1 |
| `inbox_walk` | pages list nothing twice, newest first, miss only rows tied with a page's last row, and end | 3 rows, 2 creation times, pages of 1 and 2, 2 `Notify` calls under way, acknowledgements |
| `stores` | the three drivers implement `StoreContract` and `DeviceContract`; lost races resolve; counts, pages and registrations belong to the time of their call | 3 drivers, 2 callers, 3 keys of which two are equal when joined, 2 rows, pages of 1 |
| `migrations` | schema, record and binary agree whatever crashes; the lock is given up | 3 processes, one without auto-migration, 2 versions |
| `daemon` | a process is configured, trusted, ready and drained when it says so, and ends or is held up by a statement | 57 environments, 1 connection, 3 procedures, 5 Authorization headers |
| `delivery` | receipts are true, false failures have causes, messages are addressed; sends return, those of fcm unless a mint never does | 2 sends, 5 channels, 6 phone numbers, 4 subscriptions, 2 other addresses, 6 configurations |

Why these bounds: an orphan needs two goroutines of a pair and a budget the
first one can outlive its ack with, and a third to be lost to an orphan; every
race of `Notify` involves two writers of one row, that is two calls, or a call
and an acknowledgement, and a second user's row is one that they must leave alone;
a swap-remove needs two connections in one list (the
lists do not look at tenants), and events for another user id to be wrong about; a buffer of 1 is full after one event; three
rows with two creation times put a tie on either side of a page boundary; a
store call races with one other between any two of its statements; with two
versions and three processes an old binary boots after, before and during the
boot of a new one while a third waits; connections of a process do not affect
each other, so one, used again and again, meets every stage of the shutdown; two
sends contend for a token; a channel is only given destinations that its checks
tell apart. `Limit`, `MaxRows`, `MaxVersion`, `MaxSpawns`, `MaxTime`
and `MaxInFlight` are bounds of the models, not of the code.

Runs that refute what a comment or a document says (the findings of
`PROJECT.json` quote the lines):

| run | refutes | scenario |
|---|---|---|
| `retry_orphan` | CancelAll cancels every in-flight retry | goroutine 1 is in its last callback; Ack; Track starts goroutine 2; goroutine 1 deletes its entry |
| `notify_resend` | retries do not duplicate deliveries | a second call with the same key finds the row and sends again |
| `stream_session` | an event carries its own connection's session id | two handlers stamp the shared event before either sends |
| `stream_tenants` | the tenant boundary is a hard wall | two tenants have a user of one name; a push for the one's user finds the other's connection in the list |

Other behaviour worth knowing, each visible in the models: the entry of a
goroutine whose parent context is cancelled stays in `byKey`, and later `Track`
calls of the pair are ignored (`StaleOnlyAfterParentCancel` says that this is the
only way); a repeated acknowledgement restamps the read time; a pending in-app
receipt is counted as delivered in the result of `Notify`; a push may queue its
event on a connection that closed after the snapshot; rows with the creation
time of a page's last row are skipped by the next page (`MissedOnlyAtTie` says
that no others are).

* The idempotency key has no channel, so a request over two channels stores one
  row, with the first one's channel (`notifier.go:49` says one per channel).
* `Notify` records the receipt whatever the row's status is by then: a row that
  the client has read meanwhile is unread again, with its read time kept
  (`AckKeepsStamp`).
* The store is closed while handlers run if `Shutdown` met its deadline, or if
  their connection speaks h2c; `ClosedUnderHandlerHasCause` says that there is no
  other way. `main.go:79-81` ("after no in-flight Connect handler can still touch
  it") and `shutdown.astro:118-122` ("This guarantees") know of neither.
* With postgres, the process then waits for the statements of those handlers,
  past the deadline. `ProcessEnds` says that this is the only thing that can keep it
  from exiting, and that it does exit if statements return (`StoreCallsReturn`).
  `shutdown.astro:12-13` and `:135-137` say that the timeout caps the shutdown and
  that the process then exits; `shutdown.astro:114` says that the close waits.
* The environment can select email, SMS, WhatsApp and push providers, and their
  settings are checked (`Config!Selected`), but `NewWithDeps` registers the
  in-app provider and no other (`server.go:135-152`); `PartsAsConfigured` says so.
  `channels-and-providers.astro:99-100` says that notifyd "registers providers based
  on the configured" blocks.
* The registry does not look at tenants (`stream_tenants`). Tenants are apart where
  no two of them have a user of one name (`DistinctNamesKeepTenantsApart`).
* The mint of an fcm access token has no deadline and holds the lock that every fcm
  send needs (`fcm/provider.go:109`): if it never returns, they all hang.
  `SendReturns` says that nothing else can hang an fcm send.
* An unparseable boolean counts as unset (`parseBoolDefault`), where other
  unparseable values stop the process.
* A migration whose record was cut runs again at the next boot
  (`RerunOnlyIfCut`); its statements are made for that.
* `ErrUnregisteredToken` of fcm is also what a plain 404 gives.
* webpush and email sends have no timeout of their own: they end with the
  caller's context.

Properties that answer one question are checked as one, a conjunction of named
parts: `LoopsExit` (`CancelledLoopExits`, `EveryLoopExits`), `HandlersProgress`
(`QueuedIsSent`, `CancelledStreamEnds`), `PagesInOrder` (`NothingListedTwice`,
`NewestFirstOverall`), `WritesAreAnsweredTruly` (`CreateReturnsStoredRow`,
`ConflictResolves`, `ReadOnlyByOwner`, `RegisterReturnsOwnOrLater`),
`QueryFitsItsWindow` (`UnreadWithinWindow`, `PageHasNoHoles`),
`OneMigratorAtATime` (`RecordNeverConflicts`, `RerunOnlyIfCut`), `BootsAndLockEnd`
(`BootEnds`, `LockFreed`), `RunsAsConfigured` (`ConfigUsable`, `PartsAsConfigured`,
`ReadyMeansServing`) and `ExitIsOrderly` (`CleanExitIsDrained`, `NothingLeftOpen`).
Outside `RetryTracker`
and `Notifier`, the type invariant of a module is a conjunct of its first invariant.

Each property of a passing run has a mutant: a definition changed the way a bug
would (a dropped cancel, an upsert, an unshortened slice), under which TLC finds
the property violated.

**Deadlock** is checked in the retry, notify, inbox, stores, migrations and daemon
runs. It is off in the stream and delivery runs, where events, connections and
sends are finite and the system may simply be done.

**Fairness.** `SchedulerFairness`, and its like in `LiveStream`:
the Go scheduler runs every runnable goroutine, and callbacks and `stream.Send`
return. `Notifier` assumes nothing: `WalkGetsOn` bounds the steps of a call, and
that each of them ends is up to the store and the providers (a provider's call may
hang, below). `TimerFairness`: runtime timers fire. Nothing is assumed of clients,
producers or crashes. Each property names what it needs beyond its run's
`FairSpec`: `EveryLoopExits` timers, `QueuedIsSent` and `CancelledStreamEnds` the
handlers; `CancelledLoopExits` and `PushNeverBlocks` need neither. `WalkEnds` is
about a client that goes on asking. In `Migrations`, statements return or fail
(the driver's context has a deadline), the deadline fires, and the pool recycles
connections (`MaxConnLifetime`, `MaxConnIdleTime`). In `Daemon`, the main and the
Serve goroutines are scheduled and the timer of `Shutdown` fires; handlers, their
statements, clients and listeners may do anything. That statements return is a
premise of the second half of `ProcessEnds`, not of the specification. In
`Delivery`, goroutines run and the timeouts that the fcm and twilio clients set fire;
a `sync.Mutex` hands the token lock to every waiter in the end, hence strong fairness
of `Token`. Services need not answer, nor need a mint return: it has neither the
call's context nor a timeout of its own. `SendReturns` therefore promises the end of
an fcm send only if the lock of the token source is free again and again.

## 4. Proofs

Every invariant, action property and refinement that a passing run checks is also a
theorem, for every value of the constants, under the named assumptions of the modules: the
budgets, limits and bounds are naturals; "in_app" is a channel; `NoRow`, `NoID`,
`NoConn`, `NoProc` and `NoDevice` are none of what they stand in for; requests are
well typed; there are finitely many providers; clocks and parsed numbers are
integers (`DaemonConstants`); `KeyConstants` as above. TLC evaluates all of them.

* `RetryTrackerProofs`: `TypeCorrect`, `OrphansExplained`,
  `StaleEntriesExplained`. The two properties are not inductive. `IInv` adds who
  is who: only the newest goroutine of a pair can be registered, goroutines are
  born in order, an entry's goroutine is not cancelled, a goroutine in clean-up
  has spent its budget. The crux is `Cleanup`: the goroutine whose entry it
  deletes is either orphaned by a cancelled older one, or the deleter was itself
  an orphan and hands its own culprit on.
* `NotifierProofs`: `TypeCorrect`, `IndexAgrees`, `PersistedBeforeSent`,
  `SuccessMeansAttempted`, `StatusExplained`, `AckPersists`,
  `TallyAccountsForAll`, `CallsGetOn` and `StoreRefinesContract`. `IInv` adds, per call, that
  everything before its loop position was handed on, that its row id is the
  index's id for its key, and that the outcome it is about to record is a
  provider's. Every action is reduced to a `StoreStep` (nothing, an insert, or a
  restamp that has a cause) plus a statement about the one call that moved
  (`StepIInv`); `StoreStep` is also what simulates the contract. The counters
  need `TallyOK`, the number of targets behind the position. `CallsGetOn` is an
  action property: positions grow in the order of the loops, step by step.

* `LiveStreamProofs`: `NoRegistrationLeaks`, `EventsReachTheirAddressOnly`,
  `DistinctNamesKeepTenantsApart`, `DeliveredAtMostOnce`, `PendingIsTrue`. The second
  is about user ids, which is all the registry looks at; the third adds the
  hypothesis under which a user id is an account. The registry's half of `IInv` is
  `RegisteredWhileServing` itself, over the swap-remove of `Unregister`. The
  events' half follows an event: the rest of a push's snapshot names connections
  of its one addressee, each once and none that has the event; an event held by a
  handler is stamped, by a connection of the addressee; an event that anyone has
  was counted by its push.
* `InboxProofs`: `PagesAreInOrder`, `MissesOnlyTies`. `InOrderSorts` shows that
  ranks make `InOrder` a sorted list of all its ids, `PageIsPrefix` what a page and
  its cursor leave out. `IInv` adds that everything listed is at least as new as
  the cursor, and that a row that matched all the time was listed, is as old as a
  page's last row, or is older than the cursor. Rows keep their creation times, so
  other calls cannot disturb it (`ClientKept`).
* `StoresProofs`: `WritesAnswered`, `QueriesFit`, and the refinements
  `DevicesRefineContract`, `RowsRefineContract` and `RowsAreTheMailbox`. `IInv` says
  what a call may remember from one of its statements to the next while others
  write: a create that met a row, that the row is there; a reader, that it owns its
  row; a query, that `always` and `ever` bracket what is unread now and that what it
  read has a status of that time; a registration, that the stored token is its own or
  a later one. For entdb all of it rests on `SameKeyIsEqual`: composite keys are equal
  only for equal parts, since `lpEncode` is a prefix code (`LPEncodeIsPrefixCode`).
* `MigrationsProofs`: `SchemaInStep`, `MigratesOnce`, `ServesOnSchema`,
  `LockReleased`. `IInv` adds what the advisory lock protects: only its holder is
  between lock and unlock, so what it read as applied is still what is recorded; a
  version about to be recorded has run; a version that ran unrecorded is being
  recorded or was cut.
* `DaemonProofs`: `ProcessRunsAsConfigured`, `OnlyTrustedAreServed`,
  `StoreOutlivesHandlers`, `ExitsInOrder`. `IInv` ties the fields of the main
  goroutine, the listeners and the connections to the place where it is: a process
  that ends either never served or went through the whole of `Shutdown` (`EndOK`),
  bound ports differ (`ListenOK`), the store is the configured one (`PartsOK`), and a server that is down and drained has no
  tracked connection unless the deadline passed (`DrainOK`).
* `DeliveryProofs`: `ReceiptsTellTheTruth`, `TakenYetFailed`, `RequestsAreAddressed`.
  `IInv` adds that the holder of the token lock is the one call that mints, that a
  request leaves only after its destination was checked and carries the recipient,
  the sender and the prefixes that `Post` computed, and that what a failed call says of its failure is what happened at the
  service.

`NotifierConstants` states that the named channels of a request are a sequence
of channels. This follows from the definition of `SelectSeq` by an induction
over the list, which the provers cannot do; TLC evaluates it in every run.

Only model-checked: the liveness properties `LoopsExit`, `PushNeverBlocks`,
`HandlersProgress`, `WalkEnds`, `BootsAndLockEnd`, `ProcessEnds` and `SendReturns`,
which need fairness and are out of the prover's reach. The four
runs that refute a statement end in a counterexample.

Two definitions are written for the provers, which cannot see into `ToString`,
`SortSeq` and `@@` of module `TLC`: `Itoa` is a constant (`MCStores` gives
it the decimal digits), and `InOrder` sorts by rank.

## 5. Not modelled

* Payload (titles, bodies, subjects), error texts, logging and metrics. The
  logging interceptor runs outside the one that authenticates, so its `user_id`
  is empty; no property is about it.
* `ListDevices`, `Count`, `TruncateAll` and the `Addr` accessors: reads, or test
  support.
* The conformance suite: test code, read as the stores' reference. Generated
  code: only its routes are used.
* A signal that arrives before `Run` installs its handler kills the process, as
  any Go program. Connections on which no request has begun are closed by
  `net/http` after a grace of 5 seconds: in the model they do not exist yet.
* The internals of `net/http`, h2c, pgx, the entdb SDK, oauth2 and the JWT library:
  external, modelled from their use.
* `AckDataChange` over a running process: nothing in the repository calls
  `Track`, so `CancelAll` finds no goroutine in production; `RetryTracker` models
  the tracker for callers that do.

## 6. Plan

All components of the plan are modelled, and the safety properties of all runs are
proved. What is left are more action properties behind the invariants: rows of an inbox
keep their place, a receipt once given is not taken back, a recorded version stays
recorded.
