# A TLA+ model of the multi-tenant payment gateway

This directory holds TLA+ specifications of the gateway's write side, its event
pipeline, its third-party side (webhooks, consumers, rate limit, export) and the two
programs that use it through its own API, the TLC configurations that check them on
small instances, and proofs for every instance: of the write side with its ledger and
events, the outbox, the pipeline, the read side, the third-party side, the seed endpoint and
the smoke test.
Paths below are relative to the repository.

## 1. The system

| Part | State it keeps | Operations | Talks to |
| --- | --- | --- | --- |
| **Write side**, `services/payment-core-service` (FastAPI, one uvicorn process, asyncpg pool) | core-db: one schema per tenant with `customers`, `payments`, `refunds`, `ledger_entries`; `public.merchants` | create/update merchant; create/update/delete customer; create/update payment; authorize, capture, fail, settle; create and process refund | writes an outbox row in the same transaction |
| **Outbox publisher**, `payment-core-service/src/tasks/outbox_task.py` (Celery worker with beat) | `public.domain_events` (`pending`, `published`) | `publish_pending_events`, queued every 2 s, also while an earlier run is still busy | core-db, topic `payments.events` keyed by `merchant_id` |
| **DB-sync consumer**, `connect-service/src/consumers/db_sync_consumer.py` (one coroutine) | group offset; read-db: `processed_events`, `consumer_dead_letter`, tenant read schemas | claim, create schema, apply, dead-letter, commit offset | topic, read-db |
| **Read projections**, `connect-service/src/services/sync_service.py` | read-db tables and aggregates | one handler per event type | called by DB-sync |
| **Webhook delivery**, `tp_webhook_*.py` | `tp_webhook_events`, `tp_dead_letter_queue`, endpoints | dispatch, retry, move to and retry from the dead letter queue | topic, third-party URLs, Celery |
| **Consumers and OAuth**, `oauth_service.py`, `consumer_management.py`, `utils/auth.py` | `third_party_consumers`, tokens, Redis cache | register, update, suspend, revoke, issue and check tokens | core-db, Redis |
| **Rate limiter**, `rate_limiter.py` | a sorted set per consumer in Redis | check, status, reset | Redis |
| **Bulk export**, `bulk_service.py`, `utils/cursor.py` | the client's cursor, schema caches | pages ordered by `(updated_at, id)` | core-db replica |
| **Analytics, merchant dashboard** | none | read-only queries | read-db |
| **Platform monitor**, `platform-monitor/src/{main,checker}.py` | its toggle, the latest report | health checks, a smoke test that makes and removes a merchant of its own | every service, both databases |
| **Seed proxy**, `payment-core-service/src/routers/seed_proxy.py` | what one run has counted | merchants, customers, payments, transitions, refunds, a few requests at a time with retries | write side, through its API |
| **Scripts, front ends** | none of their own | API calls | write side |

What is hard about it: requests are database transactions at READ COMMITTED that
interleave wherever they await; events are stamped before their transaction
commits; task runs overlap; messages are duplicated and lost; consumers stop
between any two awaits; and every promise the documentation makes ("zero event
loss", "order within each merchant", "safe to replay") is a promise about several
of these processes at once. `PROJECT.json` lists the hazards at their lines, each
with the properties that watch it.

What makes each part correct:

* write side: refunds never exceed the charge, the status follows the machine, a
  payment keeps its customer, ledger and outbox tell the same story as the tables,
  a request happens as a whole or not at all;
* publisher: nothing uncommitted is sent, every committed event is, an event comes
  after the event that caused it;
* DB-sync: every event is applied at most once, none is passed over, what fails
  is kept as a dead letter;
* webhooks: no message is passed over once the group has an offset but at an
  exception, and a delivery reported as delivered or dead is one or the other;
* consumers: a suspended consumer gets in for the life of a cached copy at most;
* limiter and export: no span of the shortest window applied admits more than the
  highest limit; a finished export has every row but those that appeared behind its cursor;
* seed client and smoke test: they end, and what they report is so.

## 2. The modules

| Module | Models |
| --- | --- |
| `PaymentLifecycle` | **abstract**: the tables of one tenant, one atomic step per request |
| `PaymentCore` | the write side: requests as transactions, statement by statement |
| `PaymentCoreProperties` | its properties, the mapping to `PaymentLifecycle`, and the inductive invariant `IInv` |
| `PaymentCoreProofs`, `PaymentRecordsProofs` | theorems and their proofs: the rows; ledger, events and sums (invariants `RecordsInv`, `ReservedInv`) |
| `FiniteSums` | lemmas about sums of amounts over finite sets of rows |
| `Outbox` | outbox rows, task runs, producer, topic |
| `OutboxProperties` | their properties, and the inductive invariant `OutboxInv` |
| `OutboxProofs` | theorems about the outbox and their proofs (`LossesCounted`, `CopiesCounted`, `OrderInv`) |
| `DbSync` | the consumer coroutine and the read database |
| `EventFeed` | **abstract**: an event is committed, then decided once, after its cause (`AnyOrderSpec`: in any order) |
| `EventPipeline` | `Outbox` and `DbSync` side by side on one topic; end-to-end properties and the mapping to `EventFeed` |
| `EventPipelineProofs` | theorems about the consumer and the refinement, and their proofs (`ConsumerInv`, `FiledInv`, `HistoryInv`) |
| `ReadModel` | the handlers of `sync_service` and their tables, fed by `PaymentLifecycle` |
| `ReadModelProperties` | their properties |
| `ReadModelProofs` | theorems about the read tables and their proofs (`ReadInv`, `ReplicaInv`) |
| `ConsumerAccess` | consumers, their copies in Redis, tokens, access to merchants, and the requests that read them |
| `RateLimiter`, `BulkExport` | what such a request meets next: the sliding window, a page of an export |
| `Webhooks`, `WebhookTasks` | endpoints and the Kafka consumer; the Celery tasks for retries and dead letters |
| `ThirdParty` | the five above side by side, and their properties |
| `ThirdPartyProofs` | theorems about copies, the limiter, the export, webhooks and tasks, and their proofs (`AccessInv`, `RateInv`, `ExportInv`, `HookInv`) |
| `SeedClient`, `SmokeProbe` | the seed endpoint as a client of `PaymentLifecycle`; the monitor's smoke test beside publisher and consumer |
| `Clients` | both, and their properties |
| `ClientsProofs` | theorems about the smoke test and the seeding, and their proofs (`ProbeInv`, `SeedInv`, `ProcessedInv`) |
| `Budgets` | how much of each activity one behaviour holds |
| `MCPaymentCore`, `MCOutbox`, `MCEventPipeline`, `MCReadModel`, `MCThirdParty`, `MCClients` | model values, symmetry and mixes of activities for TLC |

Operators named `<Definition>_<Bug>` are faulty variants of a definition (a missing
`FOR UPDATE`, a foreign key left out, an offset committed too early). No
specification uses them; replacing the definition by the variant makes TLC report
the property that `PROJECT.json` pairs with it.

### PaymentCore

`tx[w]` is the transaction open on pooled connection `w`: the request (`op`), how far it has
come (`step`), the ids and amounts its statements have read, and the ledger and outbox rows
it will leave. A request that has its connection and waits for the row lock of its `SELECT
... FOR UPDATE` (`payment_service.py:80`, `refund_service.py:17,98`) or of its `UPDATE` is
at step `lock`, a state of its own. A request is cut only where another one can get in
between: **before a statement that reads committed data or waits for a lock**. Statements
that only touch rows the transaction has already locked or created are merged with the one
before.

| Code | Actions |
| --- | --- |
| `create_customer` | `CreateCustomer`, `InsertCustomer`, `Commit` |
| `update_customer`, `delete_customer` | `FindCustomer` (no lock), `UpdateCustomerRow` or `DeleteCustomerRow`, `Commit` |
| `create_payment` | `CreatePayment` (looks the customer up), `InsertPayment` (foreign key), `InsertPaymentLedger`, `Commit` |
| `transition_payment` | `TransitionPayment`, `LockForTransition` (`FOR UPDATE` granted, and the check), `WriteTransition`, `Commit` |
| `update_payment` | `UpdatePayment`, `LockForUpdate` (the `UPDATE` itself), `WriteUpdate`, `Commit` |
| `create_refund` | `CreateRefund`, `LockForRefund` (with `MayRefund`), `WriteRefund`, `Commit` |
| `process_refund` | `ProcessRefund`, `LockForProcess`, `WriteProcess`, `Commit` |
| exception, crash, lost connection, cancelled request | `Abort`, and the roll-back branches of the statements |

Row locks are not variables: who holds which one follows from the open
transactions (`LocksPayment`, `LocksRefund`, `LocksCustomer`, `SharesCustomer`). The
last is the `FOR KEY SHARE` lock of the foreign key `payments.customer_ref`, which
conflicts with a `DELETE` and not with an `UPDATE` of other columns. PostgreSQL's
behaviour (READ COMMITTED, row locks, foreign keys, atomic commit) is taken as its
documentation gives it. `clock` is the service's clock: `emit_event` and the ledger
rows take it before the commit. It is one clock because the service is one
process, and it is taken to be strictly increasing. Names, currencies, methods,
descriptions and metadata are left out, amounts are natural numbers (cents).
`updated_at` and the ledger's `balance_after` are left out with the columns nothing here reads.

A request that is refused under its lock (`ValueError`) rolls back in the Lock action. One
that finds nothing under its id changes nothing, waits for nothing and has no action.
Constants: `Workers`, `Customers`, `Payments`, `Refunds`, `Amounts` are any sets
(`AmountsAssumption`: positive, as `condecimal(gt=0)` in `models/schemas.py`;
`NoneAssumption`: `None` is no id; `IdsAssumption`: no id names two things). **Bound:**
`MaxClock`, the number of events that are stamped before requests stop (`Room`).

### Outbox

A row is named by the order of its `created_at`: `Emit` takes the next number, the row
commits or aborts later (`EndRequest`), so rows become visible in any order. `cause[e]`
records a committed event of the same tenant whose effect the request saw; a tenant's first
event, `merchant.created`, has none. `batch[k]` is what run `k` of the task has fetched and
locked, `buffer[k]` what its producer has not delivered yet. `Fetch` is the `SELECT ... FOR
UPDATE SKIP LOCKED LIMIT`; `Send` and `LoseSend` the producer, in order per partition and in
any order between partitions (`LoseSend`: the exception is swallowed, or the delivery fails
and the future is not looked at); `MarkPublished` the `UPDATE` and commit after `flush`;
`FailRun` an exception or a dead worker anywhere, which unlocks the rows and keeps what was
delivered; `producer.close()` in the `finally` may still deliver what was buffered, in
order. `overlapped` is history: some run has fetched while another was at work. `OneAtATime`
says that this has not happened yet, and that no send has failed yet. A topic partition is
modelled per tenant: tenants that share one of the six partitions are ordered more strongly
than the model has it. **Bounds:** `MaxEvents`, `MaxFailures`, `MaxLost`.

### DbSync and EventPipeline

`DbSync` has one action per await of `start_db_sync_consumer`: `Poll`, `Claim`
(`try_claim_event`), `EnsureSchema` and `CreateTables` (the schema and its tables are
committed by separate statements), `SyncEvent`, `DeadLetter`, `CommitOffset` (which commits
the position of every partition). `StepFails` is an exception inside the `try` block.
`Restart` is a process that dies and is started again (`restart: unless-stopped`): the
position goes back to the committed offsets. `Stop` is an exception that reaches the outer
handler, and leads to step `stuck`: the handler stops the consumer object and the outer loop
calls `start()` on it again (`db_sync_consumer.py:28`), which aiokafka 0.11 refuses with an
assertion, every five seconds. The statement that raised may have been carried out
(`Unanswered`). The process does not exit, so compose does nothing; `Redeploy` is somebody
who restarts it, outside the repository and under no fairness. A handler of `sync_service`
is one statement or one transaction, so it is one step; here it appends to `applied`. An
event other than `merchant.created` may find its tenant's tables missing and raise. The
branch for a malformed `event_id` is left out, `emit_event` writes none. **Bounds:**
`MaxRestarts`, `MaxErrors`.

`EventPipeline` conjoins both on the variable `topic`; a step of the whole is a step
of one of them. It implements `EventFeed` (`Feed == INSTANCE EventFeed WITH fate <- ...`) by
the mapping `fateOf`: an event is `applied` when the
read database has it, `dropped` when it was claimed and is no longer in hand,
`committed` while its row is visible, and `unborn` otherwise. With overlapping runs or failed
sends it implements `EventFeed!AnyOrderSpec`, the same without the order.

### ReadModel

The write side is an instance of `PaymentLifecycle`, which `PaymentCore` is proved to
implement: each step appends the event its request emits to `feed`. The events arrive in
order and once, as `EventFeed` promises, or not at all (`Drop`: a dead letter, or a claim
lost in a restart). Each handler is one operator under its own name, prefix underscore
included. A read table is a function on the keys of its rows, so that an `UPDATE` of a
missing row changes nothing, as in SQL. `born` is the day of `created_at`, `today` the
clock; a refund's revenue goes to the refund's day. An event names its row; of its payload
only the customer's name can change later, so only that is carried along, and the merchant's
and a payment's editable columns as one value each (`merchant`, `text`): their last update
is the one that counts, and the feed may hold two. The metadata is a text that goes through
`json.dumps` and is encoded once more by the connection's `jsonb` codec: `Dumps(text)`, a
string and not the object (`sync_service.py:136,187`,
`connect-service/src/database.py:17,33`). `booked` is history: the refunds that found a row
of `daily_revenue` on their day. Left out: other columns nothing depends on, and
`success_rate`. **Bounds:** `MaxDay`, `MaxLag` (events the consumer is behind),
`MaxDropped`, `MaxEdits` (updates of the merchant, customers and payments), `Prices`
(amounts of payments; refunds take any of `Amounts`); the lives of payments and refunds are
finite by themselves.

### ThirdParty

A request of a consumer is a coroutine, `req[r]`, with one action per await. Its way:
`BeginRequest` (the token is validated before the first await), `LookupHit` or
`LookupMiss`/`FetchRow`/`Store` (`get_cached_consumer`), `CheckAccess`, the same lookup
again for the limits, `CheckRateLimit`, and the page (`ExportPage`) or the list. The
administrator's `UpdateConsumer` commits the row and deletes the copy one await later
(`Invalidate`); in between, and in any order with it, others read, fetch and store.
`Fail` is an await that raises or a client that leaves.

* `ConsumerAccess`: `offSince` and `missed`, and the mark `late` of a copy, are history
  for the properties. Time passes in `Tick`; no await lasts longer than `MaxDelay`. That is
  an assumption and no fact of the code: the pool has a timeout, the Redis clients have none
  (`oauth_service.py:30`).
* `RateLimiter`: the pipeline is one atomic step, as in Redis (`transaction=True`, the
  default of `pipeline()`); the time it uses was read one await before. Limit and window are
  the consumer's own (`Limits`, `Windows`, of either sign, since `PUT` checks neither),
  changed by `ChangeLimit` and `ChangeWindow` and read from the cached copy
  (`rate_limiter.py:51`); a status page prunes with the window it has read (`ShowStatus`).
  History: `granted` counts the requests let in by the reading of the clock they were
  counted with, however old; `most` and `least` are the highest limit and the shortest
  window applied so far.
* `BulkExport`: one table per behaviour, of the four. A row is stamped, and appears on the
  replica at any later moment: commit and replay are one delay. Two changes come without a
  new stamp (`ChangeUnstamped`): a refund's on its payment, and the status of an event that
  is marked published (`outbox_task.py:74`). An inactive merchant has no export
  (`RefuseExport`). A page is one query, modelled as the set of rows with fewer than
  `PageSize + 1` (and `PageSize`) rows before them in the order `After`. The client walks
  with the cursor and page size of its first request and no filters.
* `Webhooks`: the consumer's thread takes a message, reads the endpoints, and for each one
  checks access, posts and inserts the delivery row. It is stopped between any two awaits
  (`HookStops`) and starts from the committed offset (`Join`), or from the end of the topic
  without one (`auto_offset_reset="latest"`). The timer commits offsets between messages
  only (`AutoCommit`), because the client library does so when it is asked for the next
  message, on the same thread. The dispatch goes by the list of endpoints it has fetched, so
  one that is deleted meanwhile is posted to all the same. `ThreadHasPool` says whether the
  thread's connections belong to its own event loop. **In this code it is FALSE**: the pool
  is made on the main loop (`main.py:28`), the thread has a loop of its own
  (`tp_webhook_consumer.py:76-84`), every message raises, and nothing is delivered (run
  `webhook_loop`). The run `third_party` has it TRUE, so that there is something to say
  about what comes behind; the theorems cover both. Endpoints answer as they like.
  Signatures, payloads and event names are left out.
* `WebhookTasks`: tasks on several Celery processes, acknowledged when taken (Celery's
  default), so `TaskDies` loses the task. Each task makes and closes an event loop while its
  process keeps the first one's pool, so only the first task of a process gets anywhere and
  every later one raises (`Takes`, `pooled`; `tp_webhook_retry_task.py:34-39`). `Enqueue` is
  external, somebody at Celery's command line: nothing in the repository queues the first
  retry of a delivery. Delays are left out, a queued task may run at any time.

**Bounds:** `Workloads`, the mixes of activities one behaviour may hold (`Budgets`),
`Horizon`, `Deliveries`, `MaxLetters`; one merchant's messages.

### Clients

`SeedClient` makes its requests to `PaymentLifecycle`, which the write side implements
(`PaymentCoreProofs!Refinement`). `slot[t]` is one of the `MAX_CONCURRENCY` places of the
semaphore with the requests its job has yet to make. A request is served and answered
(`Succeeded`), refused (`Refused`: for its state, or an error of the server), or not
answered (`Unanswered`); then it goes to `late`, numbered, since the same request may be
lost twice, and may be served at any later moment, or never. After the last try a refusal
ends the job and an exception the whole run (`AbortWith`). One merchant stands for all of
them, since phases of different merchants only follow each other; the jobs of a phase are
taken in order; the customer a payment is for is the first known one.

`SmokeProbe` follows `run_e2e_smoke` request by request, then `_cleanup_smoke` statement
by statement, each of which commits by itself. Beside it the publisher locks,
sends and marks the merchant's events as a batch, or rolls back; the consumer
makes the schema and the row in the read database, or loses the message. A
`DELETE` of locked events waits, and the foreign key of `domain_events` refuses to
delete a merchant that still has events. Polling is one look at some moment
before the last. `After` lists the order of the steps.

**Bounds:** `Workloads` again; `Runs`; the ids `SeedCustomers`, `SeedPayments` and
`SeedRefunds`, more than the run can use up; `MAX_RETRIES`, `MinRows`, `Need` and `RefundEvery` are
parameters whose values in the code (3, 1000, 100 to 500, 3) are out of reach.
`told` is what the report counts, by request; `told["process"]`, its `refunds_processed`, is counted
whatever the answer was, as in `seed_proxy.py:1115-1120`. The list of merchants that
the seeding begins with may be refused or go unanswered too (`ListFails`).

## 3. The runs

| Run | Instance | Shows |
| --- | --- | --- |
| `payment_core_safe` | 2 workers, 1 customer, 2 payments, 2 refunds, amounts 1 and 2, 7 events, symmetry; 704 000 states | `IInv`, `TypeOK`, `RefundsWithinCharge`, `RefundsReserved`, `LedgerComplete`, `OutboxTellsStatus`, `PaymentsKeepCustomer`, `OutboxCausal` |
| `payment_core_live` | 2 workers, 1 payment, 6 events, no symmetry; 54 000 states | `ImplementsLifecycle`, `TransactionsFinish` |
| `outbox` | 2 runs, 2 tenants, 3 events, batch of 2, 2 failed runs, 1 failed send; 415 000 states | `OutboxInv` (with `OutboxTypeOK`), `OnlyCommittedSent`, `LostOnlyByFailedSends`, `CopiesFromFailures`, `CommittedArePublished` |
| `outbox_loss` | 1 run, 1 failed send | **violated**: `ZeroEventLoss` |
| `outbox_overlap` | 2 runs, no failure | **violated**: `CausalOrder` |
| `pipeline_safe` | 1 run, 2 tenants, 3 events, 1 failed run, 1 restart or stop, 1 error, symmetry; 1.2 million states | `PipelineTypeOK`, `CausalOrder`, `AppliedOnce`, `NothingSkipped`, `OneLossPerRestart`, `DeadLettersExplained`, `AppliedAndFiled`, `ImplementsFeed` |
| `pipeline_live` | 1 tenant, 2 restarts or stops; 356 000 states | `CommittedAreDecided` |
| `read_model` | 1 customer, 2 names, 2 payments, 1 refund, 2 days, lag 2, 1 event dropped, 2 texts, 2 edits, symmetry; 3.0 million states | `ReadTypeOK`, `ReplicaConverges`, `NeverAhead`, `NamesAgree`, `AggregatesAddUp` |
| `third_party` | 1 consumer, 1 merchant, 2 endpoints, 2 requests and 2 tasks at a time, limits 0 and 2, windows 0, 2 and 3, TTL 2, 2 rows in pages of 1, 13 mixes; 491 000 states | `StaleOnlyByRace`, `WindowBound`, `ExportComplete`, `SkippedOnlyWithoutOffset`, `DeadLetterOrDelivered`, `AdmittedWithinTtl` |
| `clients` | 2 requests at a time, 2 tries, 2 rows of a kind, 2 smoke tests, 4 mixes; 226 000 states | `SeedAccounted`, `CleanReportTrue`, `SeedEnds`, `ProbeEnds` |
| `pipeline_stuck` | 1 event, 1 exception that stops the consumer | **violated**: `ReadSideCatchesUp` |
| `webhook_loop` | as `third_party`, with `ThreadHasPool = FALSE` and 1 message | **violated**: `FiredEventsLogged` |

Why the bounds are enough to be interesting. On the write side a race needs two
transactions, and the longest life of a payment (customer, payment, authorize,
capture, two refunds, one processed) needs seven events; two refunds with amounts 1
and 2 reach the refusal of the second. In the outbox two runs, three rows and a
batch of two leave a row behind for the next run, let a row commit after a younger
one was published, and let both runs hold rows of one tenant. In the pipeline a
failed run duplicates a batch, a restart redelivers it, and three events are
enough for a tenant's creation and two that depend on it. A schema left half made by the
restart sends later events to the dead letters, and the one error may hit any step.

On the third-party side two requests are a race, and two updates a race with an
invalidation; three ticks outlast a copy (`TTL` 2) and a window, four requests exceed a
limit of 2 and arrive with readings of the clock one tick old, three meet an update of limit
and window; three pages of one row walk past two rows while three writes move them; two
stops, or a stop and a task that dies, meet every step of a delivery; two queued retries run
into each other, and `MaxRetries` 2 reaches the dead letters, though a process has one task
in it. The mixes are checked apart: copies against time, updates against each other,
requests against the window, exports against writes, endpoints against deliveries,
administration against deliveries, retries against retries and against death. What they
never combine (an export and a retry, say) shares no state. With the seed client one lost
answer and one refusal on two tries reach every branch of `_retry_request`; with the smoke
test one of each trouble and two batches reach every step of the cleanup with an event
pending, locked or published. `read_model` has one edit more than the consumer needs to see
an update after an update.

Deadlock is not checked because every model's workload ends at its bound.

### The violated runs

They state what a document of the repository says and show that the code does
something else; each is quoted in `PROJECT.json` under `findings`.

1. `ZeroEventLoss`: a row whose send failed is marked published.
2. `CausalOrder` with two overlapping runs: `SKIP LOCKED` lets the second one overtake
   the first. The other pipeline runs have one run at a time, where the order holds.
3. `ReadSideCatchesUp`: one exception outside the inner `try` block stops the consumer for
   good, since aiokafka does not start a stopped consumer again, and the process goes on
   without one.
4. `FiredEventsLogged`: the webhook consumer's thread uses the main loop's pool; every
   message raises, and no delivery is made or logged.

### What holds instead of what the documents say

Where the code falls short of a document in other ways, the models have what the code does, and a
property that holds says exactly how far it goes:

| Document | Code | Stated by |
| --- | --- | --- |
| "INSERT into processed_events" after the sync, "safe to replay" (`ARCHITECTURE.md:616`, `1226`) | the claim commits first (`db_sync_consumer.py:51`): a restart in between loses the event, and its redelivery is skipped | `OneLossPerRestart`: one event for each restart or stop at most |
| metadata as `JSONB` (`ARCHITECTURE.md:1087`) | a string, encoded twice (`sync_service.py:136,187`) | `ReplicaConverges`: `Dumps(text[p])` |
| the read side only lags (`ARCHITECTURE.md:1227`); `settled` can be chosen in the dashboard (`PaymentsPage.jsx:49`) | no handler for `payment.settled` (`sync_service.py:328`) | `ReplicaConverges`: `Shown` has captured for settled |
| a refund adjusts the revenue (`ARCHITECTURE.md:1148`, `1241`) | of a day that has a payment already; on other days the refund is in no day's revenue (`sync_service.py:298`) | `AggregatesAddUp`: a day's `refund_amount` is the sum of its `booked` refunds, exactly |
| the status page is "non-mutating of valid entries" (`rate_limiter.py:109`) | it prunes with a window read an await before, from a cached copy; after a `PUT` that lengthens the window it takes out entries still in it | `WindowBound` goes by the shortest window applied |
| "will retry" (`tp_webhook_service.py:255`), six attempts, then the dead letter queue (`ARCHITECTURE.md:1245`) | nothing queues the first retry; a chain that was queued by hand ends with the first task on a process that has had one | `DeadLetterOrDelivered`: a delivery that says "delivered" or "dlq" is; none has to come so far |
| `refunds_processed` (`seed_proxy.py:747`) | counts refunds whose processing was refused to the last try as well (`seed_proxy.py:1115-1120`) | `SeedAccounted`: each was created; all that are processed are counted, if every request was answered |
| `balance_after`, "Running balance" (`ARCHITECTURE.md:497`) | a capture's entry leaves the capture out, the next entry's sum takes it in (`payment_service.py:123`) | none: the column is left out, no handler reads it back |

### Fairness

* `PaymentCore`: strong fairness of each worker's next statement. A statement that
  waits for a row lock is enabled again and again as the lock changes hands, and
  PostgreSQL queues lock waiters, so it is not passed over for ever. New requests and
  aborts are under no obligation.
* `Outbox`: weak fairness of fetching, delivering and marking for each run, and of
  ending a request transaction (`command_timeout=60` and crashes end the others). Beat
  queues a run every two seconds, and failures are bounded. `EventPipeline` drops
  the last, an open row owes nothing to anyone.
* `DbSync`: weak fairness of the coroutine's next await. A dead process is started again by
  compose (`restart: unless-stopped`); a stopped consumer object is not (`Stop`), and nobody
  is obliged to `Redeploy`. So `CommittedAreDecided` is conditional on `[]<>(step #
  "stuck")`, that somebody does as often as it takes. Without the condition the promise is
  `ReadSideCatchesUp`, which is violated.
* `ThirdParty`: none. The runs check no liveness there, since a chain of retries has no end
  the code could promise (see the table above).
* `Clients`: weak fairness of the seed client and of each smoke test: every request
  has a timeout (30 s, 20 s), every poll a last look, every connection 5 s. Weak
  fairness of the publisher's transaction once it holds locked events, as in
  `Outbox`; without it a `DELETE` of those events could wait for ever. Nobody is
  obliged to publish or to sync, hence the probe must not wait for that.

### What the properties of the third-party side and the clients say

* `AdmittedWithinTtl`: a suspended consumer is admitted for less than the cache's lifetime
  plus one slow await. `StaleOnlyByRace`: a copy that differs from its row was
  stored after the row had changed (a reader that missed the cache overtaken by the
  update and its deletion), or the deletion is still to come, or has failed. So the
  copy can be stale for the whole TTL, and the run reaches that.
* `WindowBound`: no span as long as the shortest window ever applied to the consumer, less
  `MaxDelay`, has more requests let in than the highest limit applied to it. Requests are
  placed by the reading of the clock they were counted with, which may be `MaxDelay` old
  when they are; that is what the span loses. Limit and window may change at any time, and
  be read from stale copies.
* `ExportComplete`: what a walk can miss is exactly what appears behind its cursor:
  a row stamped early and committed late, or `amount_refunded`, which changes without a
  new `updated_at`.
* `SkippedOnlyWithoutOffset`: a message is passed over only by a first start without an
  offset, or by an exception the loop logs and drops; with a pool of the thread's own, no
  more of them than exceptions of the database. Without one (this code) that is all of them,
  see `webhook_loop`.
* `DeadLetterOrDelivered`: the log's "delivered" was acknowledged. Behind "dlq" is a
  letter, or an acknowledgement: two tasks on one delivery can bury a message that
  the other one delivers, and a letter that was sent and deleted leaves "dlq" behind.
* `SeedAccounted`: every row a run counts exists, each payment in the state it was counted
  under, and rows beyond those and the earlier ones are bounded by lost answers: each retry
  after a lost answer may create a second row, nothing else does. Of the refunds counted as
  processed see the table above.
* `CleanReportTrue`: "ok" means that the merchant, its schema and its events are gone from
  the core database. In the read database they are gone if the report said
  `read_db_synced`; otherwise the consumer may bring them back after the cleanup.
* `SeedEnds`, `ProbeEnds`: both come to an end whatever is refused, lost or locked.

A remark on code that no run is about: `manual_e2e_run` says "Allow manual trigger
regardless of global _is_running toggle" (`platform-monitor/src/main.py:148`), while the
`_job_e2e` it starts returns at once when the toggle is off (`main.py:70`). `SmokeProbe`
has what the code does.

## 4. The proofs

Every safety invariant and action property of the passing runs is a theorem, for all
values of the constants that satisfy the assumptions of the modules. The refinements are
theorems as well. What is left to TLC is liveness (end of this section).

| Module | Theorem | States |
| --- | --- | --- |
| `PaymentCoreProofs` | `InvariantHolds` | `Spec => []IInv` |
| | `TypeCorrect` | `Spec => []TypeOK` |
| | `RefundsNeverExceedCharge` | `Spec => []RefundsWithinCharge` |
| | `PaymentsNeverOrphaned` | `Spec => []PaymentsKeepCustomer` |
| | `Refinement` | `Spec => ImplementsLifecycle` |
| `PaymentRecordsProofs` | `RecordsInvariantHolds` | `Spec => []RecordsInv` |
| | `OutboxRebuildsTables` | `Spec => []OutboxTellsStatus` |
| | `EventsFollowCauses` | `Spec => []OutboxCausal` |
| | `LedgerHasEveryEntry` | `Spec => []LedgerComplete` |
| | `RefundsAddUp` | `Spec => []RefundsReserved` |
| `OutboxProofs` | `OutboxInvariantHolds` | `OutboxSpec => []OutboxInv` |
| | `OutboxTypeCorrect` | `OutboxSpec => []OutboxTypeOK` |
| | `NothingUncommittedSent` | `OutboxSpec => []OnlyCommittedSent` |
| | `NoLossWithoutFailedSends` | `OutboxSpec => []ZeroEventLoss`, if `MaxLost = 0` |
| | `LossesAreFailedSends` | `OutboxSpec => []LostOnlyByFailedSends` |
| | `DuplicatesAreFailedRuns` | `OutboxSpec => []CopiesFromFailures` |
| | `TopicInCausalOrder` | `OutboxSpec => [](OneAtATime => CausalOrder)` |
| `EventPipelineProofs` | `ConsumerInvariantHolds` | `PipelineSpec => []ConsumerInv` |
| | `PipelineTypeCorrect` | `PipelineSpec => []PipelineTypeOK` |
| | `NeverAppliedTwice` | `PipelineSpec => []AppliedOnce` |
| | `NoMessageSkipped` | `PipelineSpec => []NothingSkipped` |
| | `RestartsCostOneEach` | `PipelineSpec => []OneLossPerRestart` |
| | `FiledOnlyByErrors` | `PipelineSpec => []AppliedAndFiled` |
| | `PipelineInvariantHolds` | `PipelineSpec => []PipelineInv` |
| | `DeadLettersHaveErrors` | `PipelineSpec => [](OneAtATime => DeadLettersExplained)` |
| | `PipelineDecidesOnce` | `PipelineSpec => ImplementsAnyOrderFeed` |
| | `PipelineImplementsFeed` | `PipelineSpec /\ []OneAtATime => ImplementsFeed` |
| `ReadModelProofs` | `ReadInvariantHolds` | `ReadSpec => [](ReadInv /\ ReplicaInv)` |
| | `ReadTypeCorrect` | `ReadSpec => []ReadTypeOK` |
| | `ReadSideNeverAhead` | `ReadSpec => []NeverAhead` |
| | `CopiedNamesAgree` | `ReadSpec => []NamesAgree` |
| | `TotalsOfTheRows` | `ReadSpec => []AggregatesAddUp` |
| | `ReadSideConverges` | `ReadSpec => []ReplicaConverges` |
| `ThirdPartyProofs` | `AccessInvariantHolds` | `ThirdPartySpec => []AccessInv` |
| | `StaleCopiesExplained` | `ThirdPartySpec => []StaleOnlyByRace` |
| | `AdmissionEndsWithTtl` | `ThirdPartySpec => AdmittedWithinTtl` |
| | `RateInvariantHolds` | `ThirdPartySpec => []RateInv` |
| | `NoWindowOverrun` | `ThirdPartySpec => []WindowBound` |
| | `ExportInvariantHolds` | `ThirdPartySpec => []ExportInv` |
| | `ExportMissesNoneAhead` | `ThirdPartySpec => []ExportComplete` |
| | `HookInvariantHolds` | `ThirdPartySpec => []HookInv` |
| | `SkipsNeedNoOffset` | `ThirdPartySpec => []SkippedOnlyWithoutOffset` |
| | `LogTellsTheTruth` | `ThirdPartySpec => []DeadLetterOrDelivered` |
| `ClientsProofs` | `ProbeInvariantHolds` | `ClientsSpec => []ProbeInv` |
| | `CleanReportsAreTrue` | `ClientsSpec => []CleanReportTrue` |
| | `SeedInvariantHolds` | `ClientsSpec => []SeedInv` |
| | `SeedingCountsTrue` | `ClientsSpec => []SeedAccounted` |

`IInv` and `OutboxInv`, which runs check too, stand in the properties module of their
component. The other inductive invariants stand in the module of their proofs, in front of
the lemmas about them, each part with the reason for it. TLC can check those as well: in a
module that extends the component's MC module and its proofs module, with the run's cfg and
the invariant in place of the run's properties. That is how each was tried before it was
proved.

### Assumptions

Each is named in the module that declares the constants, and TLC evaluates it in the
component's runs.

* `PaymentCore`: amounts are positive (`condecimal(gt=0)` in `models/schemas.py`), `None` is
  no id, and no id names two things (`IdsAssumption`: `uuid7` gives each out once).
* `Outbox`: a batch holds at least one row, the bounds are natural numbers, `None` is no
  merchant. `EventPipeline`: `None` is no event, the bounds are natural numbers.
* `ReadModel`: ids as in `PaymentCore`, amounts and bounds are natural numbers and
  there is at least one day.
* `ConsumerAccess`, `RateLimiter`, `BulkExport`, `Webhooks`: times are positive, ids of rows
  and deliveries are numbers, and `None` is none of the records that share a table with it
  (`NoRowAssumption`, `NoDeliveryAssumption`) and no cursor (`NoCursorAssumption`). Limits
  and windows are integers of either sign, and one of the windows is the longest, as they
  are values of an INTEGER column (`LimitsAssumption`). `ThreadHasPool` is TRUE or FALSE
  (`PoolAssumption`).
* `SeedClient`: at least one try, and a price that leaves something to refund; ids are
  positive numbers, and the tasks are finitely many, as the semaphore's places are
  (`NumbersAssumption`).

Only `NoLossWithoutFailedSends` assumes more, and says so: that no send fails. Three
theorems about order have `OneAtATime` in what they state: up to the first failed send or
the first overlap of two runs the topic is in order and dead letters are errors, and a
behaviour in which neither ever happens implements `EventFeed` with its order. The code
excludes neither (beat does not wait for a run to end), and past that moment the order is
lost (run `outbox_overlap`), or the cause missing altogether (run `outbox_loss`). What is
left then is `PipelineDecidesOnce`, which assumes nothing, like all other theorems about
outbox and consumer. The runs `pipeline_safe` and `pipeline_live` have one run at a time and
no failed send, any number of crashed runs apart.

### The write side

Neither `RefundsWithinCharge` nor `PaymentsKeepCustomer` is inductive: a `Commit` adds
what the transaction carries, and only the transaction's past says that it fits.
`IInv` puts that past into the state. `ReadsHold(tx[w])` says that whatever `w` has
checked still holds: the target of a transition is legal *now*, the refund fits *now*,
the customer of an inserted payment is live *now*. That stays true because of
`Compatible`: two open transactions never hold the same payment or refund lock, a
customer being deleted is not key-shared by another, and `uuid7` never gives out an id
twice. `BlankUntilCreated` covers rows that do not exist yet. `InitInvariant` and
`NextInvariant` establish it, one lemma per action for the types (`TypeOf...`) and one
for the rest (`Consistent...`). `CommitRefines` and `NextRefines` show that a commit is a
step of `PaymentLifecycle` and everything else a stutter; they need the invariant,
because the abstract step is guarded by what the transaction read earlier.

Ledger and outbox need a second invariant, `RecordsInv`, inductive next to `IInv`.
`LedgerSound` and `OutboxSound` tie every committed entry and event to a row and every row
to its own. `PendingSound` says what an open transaction holds back: nothing before its
last statement, then exactly the entry and the event of its request, and the events
that must come before are committed with smaller stamps (`CauseCommitted`). This is why the
status can be replayed by `created_at` although the stamp precedes the commit: the row
lock is held from the read to the commit, so no other event of that row can be stamped in
between. `OneWriter` says the same for customers. A statement disturbs only
`PendingSound` (`RecordsStatement`); a commit is split by what it adds (`CommitLedger`,
`CommitStatus`, `CommitTellsPayment`, `CommitTellsRefund`, `CommitReports`, `CommitCausal`).

`RefundsReserved` is about a sum over a set of rows. `FiniteSums` has what is needed:
the empty sum, a row more, sums of rows with equal amounts. The library defines the sum
by recursion over the set, and an induction over data is out of the prover's reach;
the lemmas use a smallest counterexample instead. If some set of rows had no sum, or two,
there would be a subset-minimal one (`MinimalSubset`, from the well-foundedness of strict
subset on finite sets), and taking one row out of it contradicts its minimality.

### The outbox and the pipeline

`OnlyCommittedSent` leans on `BatchesSound`: what a producer holds is part of its run's
batch, the batch is pending, and no other run has any of it, so a row cannot change under a
producer. `ZeroEventLoss` is false in general (run `outbox_loss`). `NothingLostYet` carries
it as long as no send has failed. The two counts are proved with `LeftProducer(e)`: marked
published, or held by a live run that has sent it. `LossesCounted` allows one event that
left its producer without reaching the topic per failed send, `CopiesCounted` one copy per
failed run, and one more from the moment `LeftProducer(e)`; a failed run takes that one back
and is counted. `OrderInv` says that a run that takes the oldest rows has taken the cause
with its effect, or an earlier run has published it (`BatchesClosed`); a second run breaks
precisely this, so it is said for as long as `OneAtATime` (`OnceOneAtATime`: it never comes
back).

`ConsumerInv` holds however bad the topic is: the message in hand is the one at the
position, what the position has passed is claimed or in hand, effects come after
claims (`ClaimsComeFirst`), and what was given up are restarts (`RestartsCounted`).
`NeverAppliedTwice` follows from the claims, so duplicates of any origin are harmless.
`FiledInv` counts the applied events that are dead letters, or about to be, against the
errors: an event is claimed once, so a message in the middle of its steps is not filed yet
(`NotFiledYet`), and only an exception after `sync_event`, the failed commit of its offset,
sends an applied one there.

`HistoryInv` adds what a topic in order gives, again as long as `OneAtATime`: a tenant's
first message is `merchant.created` (`OneOnboarding`), it is claimed before any other, and
nothing else of the tenant is claimed while the schema is being made (`OnboardedFirst`). So
a missing table is never met with a working schema, and a dead letter there has an error of
its own. `OutboxRefines` and `SyncRefines` map each step to a step of `EventFeed` or a
stutter; `Claim` and `SyncEvent` need `HandInOrder`: the cause of the message in hand is
claimed already.

### The read side

`ReadInv` holds whatever is dropped. The feed is in order (`FeedInOrder`: no two events in
it where the second is `TooLate` after the first), and so are the feed and the rows
(`RowsInOrder`: an event still to come `CanCome` on top of what the rows show). From this
follow `NeverAhead` and `NamesAgree`: a handler that copies the name finds it as the last
`customer.updated` left it, since the copies are updated with the row. `ReplicaInv` is for
as long as nothing was dropped: `RowsComplete` (each row of the write side is there, or its
creation is coming), `ValuesComplete` (each value is there, or said by the last event that
speaks of it, in the form the handlers give it: metadata dumped, captured for settled),
`TotalsReady` (the totals' rows that a handler is going to add to exist). An empty feed then
leaves nothing but equality (`NothingMissing`).

`AggregatesAddUp` is inductive with these two: the handlers add to totals, the property sums
over rows. The proof has one lemma for each kind of change and not for each handler:
`EditsDoNotCount` (names, texts), `NewBuyer`, `NewPayment`, `NewSuccess`, `NewFailure`,
`NewReturn`; each says which sums and counts move by how much, by `SumWithRow` of
`FiniteSums`. Where a total depends on guards of the code, the proof depends on them:
a capture booked on the day of the event, a deletion without its cascade or a refund that
leaves the net revenue alone makes the leaf of its lemma fail.

### Third parties

`AccessInv` keeps, for each coroutine that holds a row on its way to the cache, how old the
await is and what that row may be (`RequestSound`): if it shows an active consumer who is not,
the await began before the change. So a copy made from it ends within `TTL` and one
await of the change (`CopiesExpire`), and a copy that differs from the row has one of the
three reasons of `StaleOnlyByRace` (`CopiesExplained`, expired copies included). The steps of
webhooks, tasks, limiter and export leave all this alone (`ServingKeeps`, `TasksKeepAside`).

`HookInv` covers consumer and tasks at once, since both write `delivery` and `acked`:
committed offsets cover what was handled (`OffsetsCover`), messages are given up one at each
exception (`GivenUpCounted`), a task works on a delivery that exists, and what it is about
to write about it was acknowledged or buried first (`TaskSound`). That rows are never
removed and acknowledgements never taken back (`Lasting`, `KnowledgeLasts`) keeps it true of
a task while others move.

`RateInv` relates the sorted set of a consumer to the requests that were let in:
`GrantsRemembered` says that each is still in the set, under the reading of the clock it was
counted with, as long as the shortest window applied so far (`least`) has it, and that the
set does not expire before. No request or status page prunes with a shorter one, or it
becomes `least` itself. So a count that is below the limit counts all that a span holds, and
one more stays within the highest limit, `most`. A reading is at most `MaxDelay` old, so a
request counted late comes into a span that is over only where the span's length, less
`MaxDelay`, has not run out. The proof works on sums over an interval of times, with
`SumOfFewer` and `SumWithOneMore` of `FiniteSums`.

`ExportInv` is `ExportComplete` of a walk under way: a row whose place the cursor has passed
was given out in the version it shows, or came (or changed) behind the cursor
(`PassedAccounted`). A page moves the cursor from one place to another, and the rows between
them are those of the page. That needs the order of `(updated_at, id)` to be strict and
total on the rows shown (`KeysOrdered`), which holds because an id occurs once; and that the
rows with fewer than `n` before them are closed downwards (`Ranks`), so that no row is
between the last of a page and the next one. The faulty variant, which takes the cursor from
the extra row, breaks that leaf.

### The smoke test and the seeding

`ProbeInv` follows one run through its statements: `StaysDeleted` says that what is behind a
run stays deleted, since no late request can find the schema and no batch the events, and
that what the report saw in the read database was consumed and cannot come again
(`SyncedOnce`). `KnowsItsMerchant` excludes the run whose merchant is created after it gave up.

`SeedInv` has to say why a payment counted as authorized is authorized and not captured,
although a request that captures it may have gone unanswered. `OneTaskMoves`: a payment is
moved by one task, so all that is late on it was sent by that task before its present
request (`UpTo`), and a payment is counted only with the last request of its plan. Nothing a
payment's late requests ask for then leads on from its status (`CountedAtTheEnd`, from
`NothingFollows`: a plan goes through the moves of the state machine in their order, and no
move of it applies twice). `NotYetMoved` starts this off: the payments that step 4 takes up
have been moved by nobody. `RowsAccounted` is the count: rows, and requests that may still
make one, are no more than twice what was there, what was told, and what was lost. A late
request that is served turns from a possible row into a row; a success adds a row and counts
it, and the row was not counted before because its id is new (`SucceededCounts`); giving up
tasks adds as many late requests as losses (`GivenUpCount`, `LostAccounted`). `ProcessedInv`
follows the refunds: a task that processes one has been told of its creation, and a refund
is processed by a request that is answered, and counted, or by one that is late, and lost.

### Only model-checked

* Liveness (`TransactionsFinish`, `CommittedArePublished`, `CommittedAreDecided`, `SeedEnds`,
  `ProbeEnds`): the proof system has no support for `ENABLED`, hence for fairness.
* The violated properties, which have no proof to look for (`CausalOrder` is proved up to
  the first overlap).

## 5. Not modelled, and the plan

Left out:

* analytics, the merchant dashboard service, the lists and lookups of every
  service: read-only queries that keep no state and order nothing;
* front ends, infrastructure, `scripts/seed_data.py` (the seed proxy's job over again
  from a shell): presentation and configuration. What the models take from the
  configuration is named where they take it: one uvicorn process per service, a
  Celery worker with beat, `restart: unless-stopped`, six partitions keyed by merchant;
* hashing, signing, scopes, formats: functions of one request;
* the caches of schema names and merchant uuids (`get_merchant_schema`,
  `bulk_service`): the cached value of a merchant never changes;
* the audit log of the bulk API, which only analytics reads;
* `check_oauth_rate_limit`: defined, called from nowhere;
* the monitor's health and pipeline checks, and its history in Redis.

What could come next: the parts of `seed_proxy` and of the monitor left out above; the
replay of dead letters, once the repository has a procedure for it (`AppliedAndFiled`
bounds what it would apply twice); the time between attempts in `WebhookTasks`.
