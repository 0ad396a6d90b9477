# A verification of the time-off service

TLA+ modules of the time-off service, TLC configurations that check them on
small instances, and theorems that TLAPS proves for every instance. Source
paths are relative to the repository; `src/src/` is the service itself.

## The system

| Component | State | Operations | Module |
|---|---|---|---|
| Controllers, JWT middleware, error filter (`presentation`, `common`) | an exchange with a client | token, role and owner tests, one handler or query, the status of the answer | `ServiceApi` |
| Input validation (`application/dtos`) | none | five validations, `Number()`'s coercions | `Validation` |
| Command handlers (`application/commands`) | local variables between two awaits | create, approve, reject, cancel, sync | `TimeOffService`; sync's loops in `BalanceSync` |
| Queries (`application/queries`) | none | lists, single rows, audit log, reconciliation report | `ServiceApi` |
| `balances` table and `BalanceRepository` | available, reserved, used, version, syncStatus of each (employee, location, leave type) | reserve, release, consume, release used, set by sync | `BalanceLedger` |
| `timeOffRequests`, `idempotencyKeys`, `outboxEvents`, `auditLogs` | one row per request, key, event, action | `findOverlapping`, `transitionStatus`, `updateStatus`, `storeRequest`, `markCompleted`, `createEvent`, `log` | `TimeOffService` |
| Transactions (`base.repository.js`, Sequelize on SQLite) | locks of the database file, what each connection read and wrote | read, write, commit, SQLITE_BUSY, rollback | `SqliteTransactions` |
| HCM client (`integrations/hcm-client`) | a call in flight and its attempt | four methods with timeout and retries | `HcmClient` (`applyLeave`, as the handlers see it), `HcmExchange` (all) |
| HCM (`integrations/hcm-mock`) | days left of each balance, failure mode | balance, validate, apply-leave, full-sync | `HcmClient`, `HcmExchange` |
| Outbox worker (`infrastructure/events`) | `isRunning`, the current batch | poll, publish, handle, complete, fail, stop | `OutboxWorker` |
| Start-up (`main.js`, `database.module.js`, migrate, seed) | which tables, indexes, seed rows and backup tables exist | connect, sync, alter, insert, start the worker, listen | `Startup` |

How they interact: a request passes the middleware and reaches a controller,
which validates, tests the rights of the sender, and runs one handler or one
query. The handlers of all requests share one Node.js event loop and one SQLite
database; they interleave at every `await`. A handler reads some rows, may call
the HCM (up to four attempts, many seconds), and ends with one transaction that
changes the request, its balance row, the outbox and the audit log together.
The workers, one in each server process, poll the outbox independently of the
handlers, which never learn what became of an event.

What is hard about it:

- Everything read before the transaction (status, owner, balance, idempotency
  key) may have changed when the transaction runs. Safety rests on re-reading,
  on the `WHERE` clauses of the updates, on the version column and on SQLite's
  locks.
- The HCM is not part of the transaction. It may apply what the client believes
  failed, apply one leave twice, or apply a leave whose local transaction then
  aborts.
- An answer of the HCM arrives in two parts, and the timer guards only the first.
- `approve` has one update outside any transaction (SYNC_FAILED).
- The process can die between any two awaits; nothing is resumed. A commit may
  survive of which the client never hears.
- The outbox statements are single updates, not transactions, and two servers
  poll the same rows.
- A corpus is an array: it may name a row twice, a row nobody has, or none.

What makes each part correct: the columns of a balance row always equal what
the events say; no request is decided twice and no event contradicts another;
active requests of a person never overlap; a key stands for one request; a
success the client reports is true; the two sides' balances differ by no
more than the calls that ended differently; a change is made only for somebody
who may make it; an answer respects those given before it; transactions are
atomic; an event is handled at most once by a worker and in order; a sync
reconciles each row once; every call is answered.

## Modules

- **`BalanceLedger`** (no state): a balance row, and for each conditional
  `UPDATE` of `BalanceRepository` its `WHERE` clause (`CanX`) and `SET` clause
  (`X`). Days are counted in half days (the validation refuses less than half
  a day). `TotalDays` is the sum of days over a set of requests, defined as the
  size of a set so that it can be reasoned about without recursion.
- **`HcmClient`**: `client[c]` is the `applyLeave` call of handler invocation
  `c`; `wire` holds the requests that were sent and not yet served; `hcm` is the
  HCM's own balance; `served` counts what was applied. An attempt that is
  abandoned stays on the wire and may be served at any later time, or never.
- **`HcmExchange`**: the four methods of the client and the endpoints that serve
  them. A reply has a status and a body that arrive in two steps
  (`StatusArrives`, `BodyArrives`); `TimerFires` is possible before the first
  only, `ConnectionBreaks` always. `seen` remembers what the HCM has held since
  the attempt was sent, so that a result can be said to be true of a moment.
  Seen through `AbstractClient`, `applyLeave` implements `HcmClient`.
- **`TimeOffService`** extends `BalanceLedger` and `HcmClient`. `calls[c]` is one
  invocation: operation, arguments, program counter and reply. The actions are
  named after the handler and the point where it is cut:

  | Handler | Actions, in order |
  |---|---|
  | create | `CreateFindsKey` or `CreateStarts`, `CreateChecksBalance`, `CreateCommits` or `CreateIsRefused` |
  | approve | `ApproveStarts`, `ApproveCallsHcm` or `ApproveRefusesBalance`, `ApproveHearsFromHcm`, then `ApproveCommits` or `ApproveIsRefused`, or `ApproveMarksSyncFailed` or `ApproveMarkFails` |
  | reject | `RejectStarts`, `RejectCommits` or `RejectIsRefused` |
  | cancel | `CancelStarts`, or `CancelCallsHcm` and `CancelHearsFromHcm`; then `CancelCommits` or `CancelIsRefused` |
  | sync | `SyncStarts`, `SyncCommits` |
  | any | `TransactionAborts`, `Crash` |

  An `XRefusal` operator lists the tests of a transaction in the order the code
  makes them, and gives the error of the first that fails.
- **`LeaveBook`**: the abstract specification, a book of requests and the days
  that are free, changed in single atomic steps. `TimeOffService` implements it
  under the mapping `Book`, `Free`: a request's entry is what its events tell,
  and it is `lost` while it is shown as SYNC_FAILED.
- **`ServiceApi`** extends `TimeOffService` with the exchange each call belongs
  to: `http[c]` holds the sender, the route, what it has been shown and the
  status of the answer. `RefusedAtTheDoor` is everything refused before a row is
  read (401, 403, 400, in each controller's order); `PatchX`/`PostX` start a
  handler, `GetX` and the two steps of the report are the queries, `Answer` turns
  the handler's reply into a status. `cancel` has a step of its own between the
  owner test and the handler (`CancelGoesOn`). `told` remembers what had been
  answered to anybody when an exchange began.
- **`Validation`** (no state): the validations of `application/dtos` over the
  kinds of JSON values that they, or `Number()`, treat differently.
- **`BalanceSync`**: a posted array, its validation, and the two loops of the
  sync handler one iteration at a time (`VisitRow`, `VisitItem`), in any order of
  the rows, and posted again.
- **`SqliteTransactions`**: the statements of transactions under SQLite's SHARED,
  RESERVED and PENDING locks, with refusals, SQLITE_BUSY and crashes; and
  **`AtomicTransactions`**, which it implements: each transaction happens at one
  instant or not at all.
- **`OutboxWorker`**: the rows' status, `createdAt` and `retryCount`, and the
  loop of each worker, one statement per action. `Insert` is the commit of a
  handler's transaction; `Workers` has one member per server process.
- **`Startup`**: servers, migrations and seeds that are started on one database
  in any order and any number of times, one statement per action. `CreateTable`,
  `ShowIndexes` and `AddIndex` are those of `sequelize.sync()` for one table,
  after which `NextTable` goes on to the next. A migration in development
  (`sync({ alter: true })`, `migrate.js:34`) rebuilds each table that was there,
  as Sequelize must on SQLite for every column it changes: `SetAside`,
  `CopyAside`, `DropTable`, `MakeAgain`, `CopyBack`, `DropAside`. How many columns
  a table has is left open. `dropped` and `emptied` remember what such a
  migration has taken away and nobody has brought back.
- **`MC...`**: instances for TLC.
- The theorems: **`TimeOffService_proofs`** (sums of days, the HCM client,
  types), **`EventLog_proofs`** (statuses, events, trails, periods, balances, the
  refinement to `LeaveBook`), **`ServiceApi_proofs`** (callers, keys, the HCM and
  its drift, rights, answers), **`HcmExchange_proofs`**, **`BalanceSync_proofs`**,
  **`SqliteTransactions_proofs`**, **`OutboxWorker_proofs`**,
  **`Startup_proofs`**.

Definitions marked `Mutant` are wrong variants of the definition that follows
them. Nothing uses them; substituting one shows that a property notices.

### Why a transaction is one step

The only database driver installed is sqlite3. Sequelize gives every managed
transaction a connection of its own, and each handler's transaction begins with
a read and ends with inserts. `TimeOffService` makes it one step, placed at the
commit, and lets it abort at any time (`TransactionAborts`). That this is right
is what `SqliteTransactions` shows: under SQLite's locks nobody else changes what
a transaction has read before it ends (`ReadsStayTrue`), and the statements
together implement `AtomicTransactions`. Of two transactions that have both read
and both want to write, one is refused with SQLITE_BUSY. On PostgreSQL, which the
documents plan for, the default isolation would not justify this.

### What is abstracted

- Names, reasons, notes, payloads, UUIDs and timestamps of requests.
- An (employee, location, leave type) is a member of `Balances`; the part the
  overlap rule compares is `EmployeeLeave`. Every command of `TimeOffService`
  names an existing balance: no code path creates or deletes one. The refusal for
  a missing balance changes nothing and is `CreateWithoutBalance` of `ServiceApi`.
- HCM validation during create: every outcome of it is caught and ignored, so
  it is only a point where others may run.
- Reads in the middle of a transaction that only re-read what it wrote.
- In `SqliteTransactions` a row is how often it has been rewritten.
- In `ServiceApi` a token is the outcome of each test the middleware makes, and
  the claims the controllers use (`sub`, `role`). A user is what a verified token
  claims; any role is let in.
- A page of the audit log that is filtered or has an offset is answered with rows
  of which nothing is kept (`GetAuditLogPart`).
- Dates are points of time, not days: `startDate` and `endDate` are DATE columns
  with a time, and the code compares them as such. Two requests for the morning
  and the afternoon of one day do not overlap.
- A blank idempotency key, which the handler neither looks up nor stores but
  which the UNIQUE column of the requests takes only once, is `NoKey`; that a
  second such create fails is one way for its transaction to abort.
- In `Startup`, a statement that fails for a reason of its own (a `DROP` that a
  foreign key forbids, a locked file) is a fault like a kill.
- A posted corpus is, in `TimeOffService`, a set of rows the HCM has, with the
  totals of the moment it was read. `BalanceSync` has the arrays.

## Runs

`tlc -config <module>_<run>.cfg <module>`; `races` and `exchange` take about two
minutes, the others less.

| Run | Instance | Shows |
|---|---|---|
| `races` | 4 calls, 2 requests, 1 balance that cannot cover both commands, two of the commands with one key, 1 attempt | `TypeOK`, `LedgerMatchesLog`, `StatusMatchesLog`, `NoContradictingEvents`, `DecidedOnce`, `ApprovedInHcm`, `AuditMatchesOutbox`, `KeysNameTheirRequest`, `ImplementsLeaveBook` |
| `locations` | 4 calls, 2 requests, 2 balances of one person of which the HCM knows one | `NoDoubleBooking`, `DaysAreConserved` |
| `retries` | 3 calls, 1 request, 2 attempts, with fairness | `AnswersAreTrue`, `EveryCallAnswered`, `DriftIsExplained` |
| `transactions` | 3 transactions, 2 rows, with fairness | `TypeOK`, `ReadsStayTrue`, `OneWriter`, `EveryTransactionEnds`, `TransactionsAreAtomic` |
| `api` | 3 exchanges, 1 request, two employees, a manager, an administrator and a caller of a role the service does not know, eleven tokens | `ApiTypeOK`, `AnswersRespectEarlierOnes`, `ReportExplainsFailures`, `ChangesAreAuthorised` |
| `exchange` | 2 calls of any method, 1 retry, an unknown balance, all failure modes, with fairness | `ResultsAreTrue`, `ErrorsAreEarned`, `EveryMethodEnds`, `ImplementsHcmClient` |
| `sync` | every array of up to 3 of the items, 2 rows, posted twice; bodies of create | `SyncTypeOK`, `LoopsAreOneStep`, `ReportAddsUp`, `SecondSyncIsQuiet` |
| `delivery` | 2 workers, 2 events, batches of 2, 2 faults, 2 clock readings, with fairness | `TypeOK`, `AtMostOnce`, `HandledInOrder`, `NeverLeftPending` |
| `startup` | a server, a migration in development and a seed, 2 tables (of three indexes, one seeded), 2 faults, with fairness | `SuccessMeansReady`, `AloneComesThrough` |

Bounds. `Calls` bounds the handler invocations of a behaviour, finished ones
included: three handlers that race on a request take four calls (the create
and three more), and two that race while a second request on the same balance
hides a wrong release take four as well (two creates, two decisions); every
mutant of the safety properties is caught within four. `Requests` bounds the
rows, `MaxAttempts` the attempts: one attempt already fails, succeeds, or is
applied after the client gave up; two add the retry that is applied twice.
`HcmTotals` and `InitialDays` are chosen so that balances run out in some
instance (`races` starts with fewer days than the commands ask for in total).
In `api` three exchanges are a create, a decision and a third that one of them
contradicts or crosses; `AuditPage` and `ReportPage` are small enough for a page
to be full. In `exchange` the second call is the one that changes the HCM under
the first. In `transactions` the third is the reader that keeps a committing
writer waiting. In `sync` the longest array has a first item, a second of the
same name, and one of another. For the worker, `MaxFaults` bounds failing
statements and crashes, `LastStamp` the distinct values of `createdAt`; two
workers already work from batches that the other has changed. In `startup` the
first table is seeded and has two indexes, so that a process can be killed
between them, and one table after it; a plain migration is left out because up
to its last table it does what a server does. Calls and requests are
interchangeable, which the safety runs use as symmetry; the runs with fairness do
not.

Deadlock is not checked where nothing is left to happen once every call is used
up, every transaction has ended, every worker has been stopped, or a server is up
and nobody starts the others again.

Fairness. `TimeOffService!FairSpec`: weak fairness of each handler's own steps,
its attempts' timeouts included, since the event loop runs every ready
continuation and `fetchWithTimeout` arms a timer for every attempt. There is no
fairness for the HCM, the network, arrivals or crashes.
`HcmExchange!FairExchangeSpec`: the same for the methods' own steps; while a body
is awaited the timer has been cleared, and what ends the wait is the default body
timeout of Node's fetch. `SqliteTransactions!FairSpec`: a handler awaits one
statement after another, so that a transaction that has begun takes its next
statement or is refused after a finite number of retries.
`OutboxWorker!FairSpec`: weak fairness of the worker's own statements, none for
faults or signals. `Startup!FairStartupSpec`: what runs goes on. Nothing need ever
be started, nor started again after an error, since `docker-compose.yml` has no
restart policy: after a collision of two `CREATE INDEX` a server may stay down.
`AloneComesThrough` speaks of one that somebody has started.

### Where documents and code disagree

Each of these runs checks one sentence of the documents or tests and finds it
violated; `PROJECT.json` quotes the sentence.

| Run | Sentence | What happens |
|---|---|---|
| `decided_is_final` | a REJECTED or CANCELLED request has no next status | SYNC_FAILED of a lost approval overwrites it |
| `duplicate_reply` | duplicates return the cached response | the loser of two concurrent duplicates gets an error |
| `event_lost` | no event loss, guaranteed delivery | an event stays PUBLISHED after a crash |

Divergences that follow from reading the code alone, without a run:

- Two approvals that race both take the days from the HCM; one of them commits.
  After a lost answer the retry books the leave in the HCM a second time, since
  it ignores `requestId`. `AnswersAreTrue` and `DriftIsExplained` say by how much.
- SYNC_FAILED is set without an entry in the audit log, although every action is
  to be logged.
- A FAILED event is counted for a retry and never polled again.
- Idempotency keys are to expire after 24 hours (`docs/TRD.md:78`,
  `models/index.js:474`, `tests/concurrency/idempotency-reconciliation.spec.js:63-80`).
  The expiry is stored, but nothing tests it and `cleanupExpired` has no caller:
  a key that is used again after that time is answered with the old request.
- The documents know three roles (`docs/TRD.md:121`). A signed token may claim any
  (`jwt-auth.js:48`), and where a controller tests the owner it does so for
  `EMPLOYEE` only (`time-off-request.controller.js:77`, `:124`): a caller of a
  fourth role sees all requests and balances and may cancel anybody's request,
  but decide none. `ChangesAreAuthorised` and `AnswersRespectEarlierOnes` say what
  does hold.
- A SYNC_FAILED request can be neither decided nor cancelled, and its days stay
  reserved.
- A migration in development that dies between two of its statements leaves a
  backup table, over whose rows the next one stumbles; what is inserted between
  the copy and the `DROP` is lost, and a server that is up has no table or no
  indexes meanwhile.
- A total of `""`, blanks or `[]` in a corpus is taken as 0.
- The timeout of an HCM call does not cover the body of the answer.
- The seed's employees (`emp-001`) are unknown to the mock HCM (`EMP001`).

## Proofs

`tlapm <module>_proofs.tla`; `ServiceApi_proofs` takes about ten minutes, the
others one to three. Every property that a passing run checks is a theorem, those
of liveness excepted. The proofs hold for any constants that satisfy the named
assumptions:

- `HcmAssumption`, `ExchangeAssumption`: HCM totals are natural numbers, lengths
  are positive, there is at least one attempt, the HCM answers about rows it has.
- `ServiceAssumption`, `RequestIds`: initial days are natural numbers, `NoKey` and
  `NoRequest` are not members of the sets they complement, commands are records
  of the right fields, and the aggregate of a sync's events is no request (its id
  is a word, those of requests are UUIDs).
- `ApiAssumption`: no token's claims are the placeholder `NoUser`, and a page has
  room for a row. Nothing is assumed of roles.
- `SyncAssumption`: the table has finitely many rows, well formed, and the totals
  of posted objects become integers (half days; see *What is abstracted*).
- `WorkerAssumption`, `StartupAssumption`: batches hold at least one event; the
  schema and the seed name at least one table, every table has an index of its own,
  and a process is of one of the four kinds.

Sets of calls, requests, balances, users, workers and processes need not be
finite; only sums and loops need it, and there it is proved or, for the rows of
`BalanceSync`, assumed.

- **`HcmCorrect`** (`TimeOffService_proofs`): `HcmSpec => []AnswersAreTrue`. The
  property is not inductive: a `success` that is on its way back must be true
  already, and the sum of what was applied and what is on the wire must be over
  a finite set. `HcmInv` adds both and the types. Serving a message moves one
  unit from the wire to `served`; sending one adds one attempt.
- **`TypeCorrect`** (`TimeOffService_proofs`): `Spec => []TypeOK`. The
  strengthening `ServiceInv` says that a running create has a command and that a
  handler running on a request has a row to read. That no column goes below zero
  follows from the `WHERE` clauses (`RowTypes`). The module begins with the lemmas
  about the sum of days: it grows by a request that joins, shrinks by one that
  leaves, and was at least that much.
- **`HcmCallsAreTrue`** (`TimeOffService_proofs`): `Spec => []AnswersAreTrue`.
  Every step of the service is a step of `HcmClient` or leaves it alone
  (`ServiceUsesHcmClient`), so `HcmInv` carries over.
- **`StatusFollowsLog`**, **`EventsDoNotContradict`** (`EventLog_proofs`). Of
  all steps only six write a table (`StepCases`); the three decisions share one
  shape (`Decides`). The invariant `LogInv` puts the two properties together
  and adds that a request that does not exist has no events: without that a new
  one could begin with a decision already logged. The argument is
  `DecisionIsNew`: a decision is made on `PENDING` or `APPROVED`, so the status
  is the one the events tell, and no decision it excludes has been logged.
- **`BookingsAreDisjoint`** (`EventLog_proofs`): only a create adds an active
  request (`ActiveOnlyShrink`), and it looks for overlaps in the same
  transaction.
- **`BalancesFollowLog`** (`EventLog_proofs`): a decision moves its request
  from one sum to another (`DecisionMoves`, from `TotalAdd` and `TotalRemove`),
  and the statement moves the same days between the columns. `LedgerInv` adds
  that there are finitely many requests, which the sums need; `LogInv` gives
  the status the sums go by. **`DaysConserved`** follows from the types and the
  four statements.
- **`Implements`** (`EventLog_proofs`): one lemma per action of `LeaveBook`. A
  decided entry is never one that is lost, since the status it was decided on
  is not `SYNC_FAILED`.
- **`TrailsFollowEvents`** (`EventLog_proofs`): the events of a request and the
  entries of its trail are two sets of positions, and an entry is compared with
  the event that has as many before it (`Place`). `TrailInv` adds that the sets
  are of one size, which makes the comparison total, and that the last entry
  ends in the status that the events tell: the next entry goes on from there,
  since a decision writes the status it read. `PlaceOfLast` says that what is
  appended comes last and leaves the other places alone.
- **`OneDecision`**, **`OneRequestPerKey`**, **`ApprovalsAreInHcm`**
  (`ServiceApi_proofs`). A good answer comes from a cached
  key or a transaction that commits (`ReplyCases`). `OneDecision` follows from
  `DecisionIsNew`; `OneRequestPerKey` from the only statement that writes a key,
  which inserts one there is no row for; `ApprovalsAreInHcm` needs `OrdersOK`: an
  approval that has reached its transaction has been served, and a call that has
  not arrived has ordered nothing.
- **`DriftExplained`** (`ServiceApi_proofs`), an action property: a step that
  serves a message moves days in the HCM and one call's share of them
  (`HcmDays`), a commit moves days of the row and one call's share of those
  (`HereDays`). It says nothing unless a call counts for one request throughout
  (`ServedStays`): a call that has asked the HCM works on a row that exists, and
  has asked for the days of that row's command (`WorkInv`); only one call's
  transaction decides a request (`WonOnce`), and an approval that has reached it
  has been served (`OrdersOK`). The sums are over finite sets, since only
  finitely many calls have arrived.
- **`RightsHold`**, **`ApiIsService`** (`ServiceApi_proofs`). The controllers
  test rights before the handler starts; `ApiInv` says that they still hold
  while it runs, for any claims a token makes. That a request keeps its row and
  its command (`RowsKept`) makes the owner found before the handler's own reads
  the owner at its commit, and a running handler keeps working on what it was
  started for (`WorkKept`). Since `ApiIsService` shows every behaviour of the
  API to be one of `TimeOffService`, all theorems above hold behind it.
- **`ApiTypes`**, **`AnswersRespected`**, **`ReportsExplain`**
  (`ServiceApi_proofs`), one invariant for the three. `TracesOK` follows an
  exchange from the door to its answer: what its sender had been told when it
  began still holds (`Holds`; a fact told is a fact about rows and entries that
  are never taken away), the handler that runs for it belongs to it and has not
  answered, and an answer that has been given respects what was told
  (`AnsweredOK`). That somebody told "OK" decided the request needs `WonOnce`,
  that the second decision cannot be told "OK" too needs `LogInv`, and a cached
  answer needs that its request has been recorded (`RecordedOK`, `CachedOK`). For
  the report, `FailuresOK`: a row is FAILED only once a drift event has been
  written, in the same transaction; the events are read after the rows and are
  never removed, and a page has room for one.
- **`ResultsTrue`**, **`ErrorsEarned`** (`HcmExchange_proofs`). Both speak of
  methods that have ended. `ExchangeInv` carries them back to the reply on its
  way: its body is true of a state in `seen` (`TrueOf`), an error status is one
  the endpoint gives (`ErrorOf`), and a method that waits has seen the present
  state of the HCM (`Watches`), which is what serving its message adds. That the
  reply belongs to the last attempt needs `MessageOK`: a message of the current
  attempt is on the wire only as long as there is no reply.
- **`ImplementsClient`** (`HcmExchange_proofs`): a step of `applyLeave` is one
  step of `HcmClient` or none (the status that arrives before its body), and
  those of the other three methods are none, the `fullSync` excepted that is
  served: it replaces the HCM's rows, which `ImplementsHcmClient` allows for.
  A reply counts as the answer from the moment the HCM sends it, and waiting for
  its body is still waiting, so that a connection that breaks between status and
  body is an attempt that fails.
- **`SyncTypeCorrect`**, **`OneStep`**, **`ReportIsComplete`**,
  **`SyncIsIdempotent`** (`BalanceSync_proofs`). `Progress` is the loop
  invariant: the rows visited are as the one step makes them, the others as they
  were, and the report counts the rows visited. `Settled` says of the posts after
  the first that they find what the one before left. A corpus may name a row
  twice; that `find` gives the total the one step goes by is `FoundItem`, which
  needs that a set of positions has a least one (`LeastOf`).
- **`ReadyWhenUp`** (`Startup_proofs`). `StartInv` adds how far a loop has come
  (`SyncedUpTo`, `SeededUpTo`) and what is known of the table it is at (`Known`):
  it is there with all indexes but those found missing, or an alteration has
  dropped it and it is not complete again. Others may create a table or an index
  between two statements of this process, and a migration in development may take
  one away, which puts the table into `dropped`; only the statement that completes
  it takes it out again.
- **`ReadsAreTrue`**, **`WritersAreAlone`**, **`AtomicCorrect`**
  (`SqliteTransactions_proofs`). The invariant relates locks to what has been
  read and written: whoever has read holds at least SHARED, whoever has written
  at least RESERVED, and there is one of those. A commit requires that nobody
  else has read, so it changes nothing under anybody, and it is the instant at
  which the transaction happens.
- **`DeliveredAtMostOnce`**, **`DeliveredInOrder`** (`OutboxWorker_proofs`), for
  any number of workers. The invariant says of a worker's batch that it holds no
  event twice and none that this worker has handled, and that every pending
  event older than one of the batch is in it before that one.

Only model-checked:

- Liveness, which is outside what the prover handles: `EveryCallAnswered`,
  `EveryTransactionEnds`, `EveryMethodEnds`, `NeverLeftPending`,
  `AloneComesThrough`.
- The three sentences that the code violates, which have counterexamples.
- What `Validation` computes of each value: `Number()` and the five validations
  are case distinctions over the posted values, and the proofs of `BalanceSync`
  expand them where they need them.

## Not modelled

- PostgreSQL (`config.js:31-40`), on which a transaction would not be one step.
- The audit log by correlation id, the counters of the mock HCM's state route,
  CORS, Swagger and the logger: they read, or configure.
- A restart of the mock HCM, which forgets what it applied.
- Fractions of a day finer than one half and the rounding of REAL columns.
- Repository methods without a caller: `cleanupExpired`, `markFailed` of the keys,
  `markForSync`, `markSynced`, `findPendingSync` and some finders. `getBalance`
  and `fullSync` of the HCM client have none either and are modelled in
  `HcmExchange` all the same; corpora of `fullSync` are those of rows the HCM has.
- Handlers and worker on one outbox as one module: the handlers never look at an
  event again, and the worker's `Insert` allows every order in which they write.

## Plan

Done: every module above, the runs, and a theorem for each property of the
passing runs that is not a liveness property.

What is left, in this order:

1. What does hold of the three sentences that the code violates: a decided
   request keeps its status unless an approval of it that failed at the HCM is
   under way, and an event stays PUBLISHED only if the worker that had published
   it died or its statement failed.
2. `HcmExchange` under the handlers: `ImplementsClient` is stated for the
   module's own arguments; composed with `TimeOffService`, an HCM call that
   reports success was true when its answer was sent.
3. `SqliteTransactions` with `INSERT` and the unique index of the keys, so that
   the loser of two duplicates fails in the model of the locks too.
4. The safety half of the liveness properties as invariants: what a running
   handler waits for exists.
