# TLA+ models of python-api-base

Specifications of the parts of `python-api-base` in which the order of events
matters: message publishing, consumption and retrying, sagas, background tasks,
idempotent requests and orders, graceful shutdown, Kafka transactions, circuit
breaking, and a cache over a failing Redis. Every definition is translated from the Python source (paths below are relative to
`src/src/infrastructure/`); `PROJECT.json` maps each definition to its lines.

## 1. The system

A FastAPI application in layers: `core` (entities, results, configuration,
dependency injection), `domain`, `application` (use cases, CQRS buses, mappers),
`infrastructure` (everything that keeps state or talks to another system) and
`interface` (REST, GraphQL, gRPC, middleware). One process runs one asyncio event
loop: a task runs until it awaits something that suspends, and the state that
tasks share is plain Python objects. What is hard is therefore what happens at
an `await`: another task runs, the await raises, or the task is cancelled there.
`CancelledError` is not an `Exception`, so no `except Exception` sees it.

### Inventory

| Component | State | Operations | Hard behaviour | What makes it correct |
|---|---|---|---|---|
| Transactional outbox, `messaging/outbox/` | messages with status, retry counter, next retry; processed keys; polling task | save, get_pending, publish, mark, dead letters, redrive, cleanup, delete, start, stop | publishers race; publish_fn raises before or after the send; callbacks raise; cancellation | what counts as published was sent; nothing stuck; counters and statuses agree |
| Inbox, `messaging/inbox.py` | entries by id, ids by key, status | receive, process, cleanup | redelivery during the handler, other ids under one key, cancellation, forgetting | at most one effect for an admission, one handler per key |
| Outbox, broker, inbox | both | both | loss, duplication, reordering across services | an event has its effect, once while remembered |
| Saga, `db/saga/` | step status, result, history | execute, compensate, callbacks | a failing compensation, timeouts, raising callbacks, steps that another call resets | honest results, reverse order |
| In-memory task queue, `tasks/` | task objects, priority queue | enqueue, process, cancel, retry | sleep before a retry, cancellation, stale entries that end the loop | no task lost or doubled, attempts bounded, no task left behind for an unknown reason |
| Retry queue, `messaging/retry_queue.py` | queue, DLQ, message objects | enqueue, process, requeue | dequeue does not claim; hooks raise inside the try block | no message forgotten |
| Transactional Kafka producer, `kafka/transaction.py` | transaction flag | transaction(): begin, send, commit, abort | overlapping contexts, cancellation | a transaction commits what its context sent; the producer stays usable |
| Idempotency, `idempotency/` | records in Redis | look up, execute, store, delete | check-then-act, unreadable Redis, a second call after a failure | one execution per key; replays tell the truth |
| Placing an order, `application/examples/order/use_cases/place_order.py` | the steps of one execution | reserve, pay, create, notify, refund, release | calls that raise after their effect; raising compensations | what failed is rolled back |
| Shutdown, `lifecycle/shutdown.py` | state, in-flight count, hooks | request start and finish, drain, hooks | uncounted requests, a list that changes under its loop | hooks after the drain or its timeout, none left out |
| Circuit breaker, retry, timeout, bulkhead, `resilience/` | state, counters, permits, semaphore | admit, record, acquire, release, retry | late results, cancelled probes, a wait that ends as its permit arrives | limits hold; recovery is possible |
| Redis client and item cache, `redis/`, `cache/providers/memory.py`, `application/examples/item/use_cases/use_case.py` | breaker over Redis, two copies of an item, the database | get, set, delete, fill, invalidate | fallback in memory while Redis fails, a fill that crosses an invalidation | stale only for a known reason |
| Event store, `db/event_sourcing/` | streams, snapshots | save, load, snapshot | optimistic concurrency, conflicting copies | versions without gaps or doubles |
| Others | | | | listed in `PROJECT.json` with the reason why they are left out |

How they interact: the application stores an outbox message with its change; a
publisher hands `to_event_dict()` to `publish_fn`; a consumer hands the event to
`InboxService` under the message's id and key; its handler may start a saga or
enqueue a task. An HTTP request passes the shutdown middleware, then the
idempotency middleware, and ends in a use case. A retry queue's handler may
forward a message to Kafka. A use case reads through `CacheService` and the Redis
client, which asks its circuit breaker and falls back to memory. Components share objects by reference (a message object is in the
repository and in a publisher's batch at the same time; the step objects of a
registered saga belong to all its executions), call each other directly and
report through callbacks. `PROJECT.json` lists, under "hazards", the lines where
these interactions bite and the properties that would show it.

## 2. The modules

| Module | Models | State in the model and in the code |
|---|---|---|
| `Outbox` | `outbox_repository.py`, `outbox_publisher.py`, `outbox_message.py` | `stored` = `_messages` in insertion order, `processed` = `_processed_keys`, `status`/`retries`/`due` = fields of the message objects, `batch` = the rest of a `publish_pending` loop, `inFlight` = tasks suspended in `publish_fn`, `running` = polling tasks |
| `DedupWindow` | nothing: the abstract promise of an inbox | `window` remembered keys, `open` admissions without outcome, `effects` |
| `Inbox` | `inbox.py` | `entries`, `byKey` = the two dictionaries, `entryStatus` = status of each entry object, `handling` = calls suspended in the handler |
| `Pipeline` | `Outbox` and `Inbox` joined by an external broker | the union of both; the broker is `delivered` read as "has been taken" |
| `Saga` | `orchestrator.py`, `manager.py`, `steps.py`, `enums.py` | `pc`, `at` = where each `execute` is suspended, `result` = `SagaResult.status`, `stepStatus`, `started` = `status` and `started_at` of the shared `SagaStep` objects, `overtaken` = calls whose step another call reset (*history*), `history` = `_history` |
| `TaskQueue` | `tasks/in_memory.py`, `tasks/task.py` | `queue` = `_queue`, `status`/`attempt` = task fields, `pc`/`job` = where a worker's `process_all` is suspended and with what; a worker that is in none is `off` |
| `CircuitBreaker` | `resilience/circuit_breaker.py` | `state`, `failures`, `successes`, `halfOpenCalls` = the fields, `elapsed` = the test of `_check_timeout`, `inCall` = calls suspended in `func` |
| `Resilience` | `CircuitBreaker` around `retry_pattern.py`, `timeout.py`, `bulkhead.py` | `place`, `attempt` = where a call is suspended and in which attempt, `current` = `_current_concurrent`, `free`, `waiters`, `granted` = the asyncio semaphore (external) |
| `Shutdown` | `lifecycle/shutdown.py` | `state`, `inFlight`, `event`, `hooks` = the handler's fields, `loop`, `pos` = the list `_run_hooks` walks and how far |
| `Idempotency` | `idempotency/handler.py`, `middleware.py` | `at` = how far a request is, `record` = what Redis holds per key |
| `PlaceOrder` | `place_order.py` | `step` = the call an execution waits for; `held`, `charged`, `created` = the external services |
| `Service` | the three before, as one service | the union; `cancels` = cancelled requests |
| `RetryQueue` | `messaging/retry_queue.py` | `queue`, `dlq` = the two lists, `status`, `retries`, `due` = fields of the message objects, `pc`, `batch` = where a worker is |
| `KafkaTransaction` | `kafka/transaction.py` | `inTransaction` = `_in_transaction`, `context` = where each task is in `transaction()`, `kafka`, `pending`, `committed` = aiokafka and the broker (external) |
| `Relay` | `RetryQueue` and `KafkaTransaction` joined by an external handler | the union of both |
| `RedisClient` | `redis/connection.py`, `operations.py`, `circuit_breaker.py`, `cache/providers/memory.py`, for one key | `circuit`, `failures`, `halfOpenCalls` = the breaker, `copy` = the value in Redis (external) and in the fallback, `command`, `acted` = commands under way |
| `ItemCache` | `ItemExampleUseCase` over `CacheService` and `RedisClient` | `version`, `deleted` = the database (external), `pc`, `seen` = the calls of the use case |
| `Pipeline_proofs` | theorems about `Outbox` and `Pipeline` | |
| `Resilience_proofs` | theorems about `CircuitBreaker` and `Resilience` | |
| `Inbox_proofs`, `Saga_proofs`, `TaskQueue_proofs`, `Service_proofs`, `Relay_proofs`, `ItemCache_proofs` | theorems about these modules and the parts they join | |
| `MC*` | values for TLC | |

Three of the compositions are not wired in the repository. It mounts neither HTTP middleware
in an application of its own: `Service` stacks them as their docstrings say,
over the order use case. `Relay` assumes a handler that forwards to Kafka, the
use each of its two parts is written for. `Resilience` is the `ResilientClient`
of `docs/layers/infrastructure/resilience.md`.

An action is what a task does between two suspensions. The in-memory
repositories are `async` but never suspend, so e.g. `mark_processing` and `update`
before `publish_fn` are one step (`BeginPublish`), and everything after it
another (`Published`, `PublishRaises`, `PublishedCallbackRaises`). The outbox lets
other tasks run before each message of a batch as well, as any publish_fn that
suspends does. Time is abstract: `due` says that
`next_retry_at` has passed, a cutoff splits the finished entries anywhere, a
timeout is a failure that may leave the effect behind. Variables marked
*history* in the modules record what happened outside the program (what the
broker took, which handler completed) or earlier, for the properties only.

Operators marked "Wrong variant" are not part of the specifications: each is a
plausible bug in the definition that follows it. With the definition replaced by
the variant, TLC reports the property `PROJECT.json` names beside it, which
shows that the property can fail.

## 3. What the runs show

| Run | Instance | Question and answer |
|---|---|---|
| `outbox` | 2 messages (one with a key, the older one stored in any order), 1 publisher, 1 caller of `publish_one`, batch 2, 2 retries, all faults, each operator call once, a cancellation of the caller among them | Do statuses tell the truth under races, failures, redrive, delete, cleanup, stop and cancellation? Yes: six properties. |
| `outbox_stop` | 1 publisher, no faults, one stop | Is delivery at least once, as `OutboxMessage` says? No: see findings. |
| `inbox` | 3 copies of a message, another one under its key, an unrelated one; one raise, one cancellation | Is the inbox a deduplication window, with one handler per key? Yes. |
| `pipeline` | 2 events under one key, 2 copies of each, batch 1, honest failures, a raising metrics callback, a redrive, a raising and a cancelled handler | Does a stored event have its effect, once while it is remembered? Yes, unless one side visibly gave up. |
| `saga` | 4 steps, two with compensations, two with timeouts, all callbacks, 2 concurrent calls, 1 cancelled | Are results honest, compensations downwards, failures reported, calls finite? Yes; but a call whose step the other one reset ends FAILED with nothing compensated, which `ResultIsHonest` has to except. |
| `tasks` | 3 jobs of two priorities (one without a handler), 2 workers that call `process_all` at any time, 2 attempts, one retry per job, one cancel, one worker cancelled | Is a job ever lost, doubled without a retry, started too often, or left behind by `process_all`? No, but for a stale entry, which ends a `process_all`. |
| `resilience` | 3 layered calls over 2 permits, 1 direct call; 1 failure, 2 successes, 3 probes, 2 attempts, 1 cancelled call | Can late outcomes, time limits or a cancellation as a permit arrives leave breaker or bulkhead inconsistent, or the breaker stuck? No, unless more probes are lost than it can spare. |
| `resilience_open` | 3 layered calls, no cancellation | Does the composed breaker open on failures, as the documentation says? No: see findings. |
| `service` | 2 requests under one key (one through the middleware, one direct; equal or different content), 2 hooks, Redis faults, lost records, service faults, cancelled requests, one kind of trouble per behaviour | Are orders rolled back, payments single, replays true, and do hooks wait and all run? Yes, except where the property names why the code cannot: overlapping requests, a second call by the middleware, a call that failed without telling. |
| `relay` | 2 messages, 2 workers, batch 2, 1 retry, 2 troubles among a requeue, a raising hook, a stopped worker, a send or commit that raises | Is a message ever forgotten, or completed without a commit, or the producer unusable? No, unless a worker was cancelled at that point or two tasks shared a transaction. |
| `cache` | 2 readers, 1 writer, 2 versions, breaker of 2 failures and 1 probe, 4 troubles among failing commands, an expiry and cancelled calls | When is a cached item stale, and can the Redis breaker wait for a probe that does not exist? For four reasons only, which `StaleIsExplained` lists; and only when every probe was cancelled. |
| `cache_probes` | the same | Are at most `half_open_max_calls` calls let through while HALF_OPEN, as the breaker's docstring says? No: see findings. |

**Bounds.** A race in these components needs two actors and one shared object;
two messages make the order of a batch and a shared key matter, and a third
actor or object repeats the pattern. Two retries are the least that has a FAILED
status between PENDING and DEAD_LETTER, and four saga steps the least that has a
step without a compensation between two with one. The operator calls (`Budget`, `MaxRetries`
of the task queue, `MaxCancels`, `MaxStops`, `MaxFailures`) are bounded because
each call may be repeated for ever; the bound is a guard of the action, named in
the module. One call of each is enough for each pair to interleave.
`MaxSendFaults` counts sends and commits that raise. The theorems below drop
every bound. `MaxHistory` is 1 instead of 1000. The breaker's failure counter stops at
its threshold, beyond which the code never tells its values apart. In
`resilience` two permits let one be free while a call that was granted the other
has not run yet, and the third call arrives; the fourth may be left over from an earlier
period. One failure opens the breaker; one lost probe of three
still leaves the two successes that close it, so recovery is
demanded in every period. `service` allows one kind of trouble at a time
(`MaxFaultKinds`), but that as often as its bound allows, since each exception of
its properties names a single cause. Two requests under one key are
enough for a replay, a conflict and an overlap. In `cache` two failures open the
breaker and two troubles more are a failing and a cancelled probe, or a
cancelled call and an expiry; two readers and a writer let a fill cross an
invalidation while another reader sees the result. `ConfigAssumption` (at least as many probes as successes are needed) is not
checked by the code but holds for its defaults; without it the probes of a period
cannot close the breaker.

**CHECK_DEADLOCK FALSE** is set where everything may really be settled, with nothing
left to do. `tasks`, `resilience` and `cache`, whose calls may keep coming, are checked for
deadlock.

**Fairness** is what the event loop gives: a task that can run does run. Besides,
awaited functions (publish_fn, handlers, actions, callbacks) return or raise,
clocks advance, a stopped publisher is started again and the broker delivers
what it took; and calls keep coming to a circuit breaker. Nothing in the repository
calls `process_all` of the task queue in a loop, so its fairness says only that a call under
way goes on; that calls keep coming is a premise inside `EventuallyAtRest`.
Nothing is assumed of operators, of cancellation or of success: a
publish_fn may fail each time. `Spec` has no fairness and is used wherever only
safety is checked, except in `saga`, `tasks` and `resilience`, which check both under their
fair specification.

**Findings**
1. A publish in progress that is cancelled leaves its message PROCESSING for
   ever, where no later poll finds it: `stop()` does so (`outbox_stop`), and so does
   cancelling a task that awaits `publish_one`. `ProcessingIsOwned` shows that there is no
   other way.
2. A breaker around `Retry` or `Timeout`, as the documentation composes them, never
   opens, and a timeout is never retried (`resilience_open`): both return an `Err`
   where the documentation's version raises. With no layered calls the
   property holds.
3. The Redis breaker lets `half_open_max_calls + 1` calls through while HALF_OPEN
   (`cache_probes`), though its docstring calls the parameter the "Max calls allowed in
   half-open state" (`redis/circuit_breaker.py`, line 41): the call that ends OPEN is not
   counted. `ProbesAccounted` says what the counter does count, and holds.

Three more disagreements have no run of their own, because a property of a passing run
describes them:
- A saga that is called twice at once may roll nothing back. `Saga` says "if any step fails,
  automatically compensates (rolls back) completed steps" (`db/saga/orchestrator.py`, lines
  55-57). Call 1 completes step 1 and is in step 2 when call 2 starts and resets all steps,
  `started_at` included; call 1 then fails to compute a duration and ends FAILED, and no
  compensation of step 1 is tried. Without the exception `e \in overtaken`, TLC refutes
  `ResultIsHonest` with this trace.
- `process_all`, "Process all pending tasks." (`tasks/in_memory.py`, line 237), ends at a stale
  entry: `dequeue` returns None for it as for an empty queue (lines 108-112), so a
  cancelled job hides the PENDING ones behind it. `LeftPendingIsExplained` says that nothing
  else does.
- `cancel_task` promises "True if cancelled" (`tasks/protocols.py`, line 113), but a job that
  was retried by hand while a worker slept before its own retry, and then cancelled, becomes
  PENDING again when that worker wakes up (`in_memory.py`, line 226). `TerminalIsFinal`
  excepts such a job; `OneHolder` and `AttemptsBounded` bound what the retry can do: one more
  copy and one more attempt for each.

What else the properties of passing runs have to except, and so do not catch, is known
behaviour as well, named where it occurs: a FAILED inbox entry is never processed again (`EndToEnd`);
requests under one key that overlap both run the operation, and so does the
middleware when anything fails after the first call (`ChargedOnce`); an uncounted
request that finishes during the drain is taken for a counted one
(`DrainedBeforeHooks`); a cancelled task leaves the producer's flag set
(`FlagHasOwner`); a cancelled probe's permit is not given back (`NeverStuck`,
`ProbesAccounted`).

## 4. What is proved

Every invariant that a passing run checks is a theorem too, and so are the action properties
and the refinement of `DedupWindow`. The theorems hold for every set of messages, workers,
requests, steps, calls and keys, and for every bound, from the named assumptions of the
module a theorem is about: sizes are naturals, sets of calls are finite, a function maps
messages to keys and the like. None of them restricts what the code may be given, except
`ConfigAssumption` (section 3) and `SameIdSameKey` (a message id comes with one key). Few of
the safety properties are inductive as they stand; what each needs is below.

**Outbox** (`Pipeline_proofs`, first part). `TypeCorrect`, and from `Invariance`
`NoEventWrittenOff`, `ProcessingOwned`, `RetriesAgree`, `KeysRecorded` (proved only:
no run checks it by itself) and the action properties `PublishedFinal` and `ParkedStays`. `Inv` joins the type invariant with
`PublishedWasHandedOff`, `PublishedKeysRecorded`, `ProcessingIsOwned` and
`RetriesMatchStatus`. They are needed together. A duplicate is marked published without a
send, which is right only because every recorded key was sent; a keyed message that is
PUBLISHED is not sent again only because its key is recorded; and ownership of PROCESSING
needs `inFlight` to hold only tasks with a message. The step lemma is split by conjunct and
each of these by action; steps that touch no message are dispatched once (`QuietFrame`).
`DeliveredOnce` is proved for one publisher (`OnePublisher`: one task, failures of
publish_fn are honest, no `stop`, no cancelled caller and no `delete`; with any of these the
code does deliver a keyed event twice). `OnceInv` says that the message in publish_fn is still in the
repository, is PROCESSING and has a new key, so that `mark_processed` records the key of
whatever was sent.

**Inbox** (`Inbox_proofs`). `InboxTypes`, `IndexesAgreeAlways`, `OneHandlerAlways`, and
`InboxImplementsDedup`: the inbox implements `DedupWindow`, step by step. The two
dictionaries are kept together by hand, so `Inv` says both directions: a stored entry is
where its id says and its key leads to it (`EntriesIndexed`), a known key leads to an entry
of that key (`KeysLead`), and an entry without its outcome is stored (`UnsettledStored`),
i.e. nothing replaces it.

**Pipeline** (`Pipeline_proofs`, second part). Each step of the pipeline is a step of one
side while the other stands still (`PipelineSteps`), so `SidesKeepTheirs` and
`PipelineRemembers` follow from the theorems of the sides; those of the inbox are
instantiated with the pipeline's deliveries, after its assumptions are proved
(`InboxAssumptions`). `EffectsBacked` needs more: what is delivered was taken, an effect
leaves a PROCESSED entry of its key, and a second effect an entry that is no longer stored.
The last holds because a key leads to the entry in process (`OthersForgotten`).

**Saga** (`Saga_proofs`). `SagaTypes`, `HonestResults`, `FailuresReported`,
`UndoneInReverse` and the action property `NeverUpAgain`, for sagas of any length. The
invariant says of each place where an execution waits which steps have acted, were tried and
were undone, relative to its index, and of a call in an action that `started_at` of its step
is set unless another call's reset is on record (`Clocked`). `NextToUndo` and
`LastStep` say what the loops over steps with compensations find next.

**Task queue** (`TaskQueue_proofs`). `QueueTypes`, `NoJobIsLost`, the action properties
`ResultsAreFinal` and `PendingExplained`, `OnePlaceEach` and `StartsBounded`. Finality rests
on `FreshHeld`: a job nobody retried by hand has one worker at most, whose place its status
tells. `OnePlaceEach` and `StartsBounded` count: `Room` bounds a job's entries and
holders, together with the starts it has left, by `max_attempts` and its manual retries; `Sizes`,
`PutCounts` and `PopCounts` give the cardinalities.

**Circuit breaker and layers** (`Resilience_proofs`). `BreakerTypes`,
`LetsThroughOnEvidence` and `ProbeLimit`. `ProbesBounded` does not say that a probe in use
took a permit; `PermitsTaken` does, and is inductive. The layered system implements
`CircuitBreaker` (`LayersImplementBreaker`): each step of a call in its layers is the
admission, the success or the cancellation of a call of the breaker, or no step of it;
`LayersKeepEvidence` and `LayersKeepProbeLimit` follow. `PermitsStayInStep`: counter and
semaphore agree in every state between steps. The invariant relates places to queue and
permits: who waits is queued once or has been granted a permit, and somebody queues beside a
free permit only while a granted waiter has not run yet: asyncio lets a call queue behind a
granted waiter although a permit is free, and the waiter passes the permit on when it runs
(`WakeUpNext`). With one permit this cannot occur, which is why `resilience` has two.

**Service** (`Service_proofs`).
- `OrdersRolledBack`, from `OrderInvariance`. `RolledBack` speaks of executions that are
  over; `LeftAt` says of each call of the use case what may be left behind when it is
  awaited, which is inductive.
- `HooksWait`, from `CountInv`: until an uncounted request has finished, the in-flight
  counter is the number of counted requests in the application; the drain's event is set
  only when it is zero, and it then stays zero.
- `ShutdownRunsHooks`, from `HookInv`: while the loop is at an index, every hook that was
  there when it began is in the list it walks, and those up to the index have started. A
  hook added before the index moves the others up, so that one runs again and none is
  skipped; `remove_hook` leaves the loop its list. `InsertedAt` and `RemovedAt` say what the
  library's operators on sequences do.
- `ReplaysBacked` and `PaymentsOnce`, from `KeyInvariance`. `Executed` relates a request's
  place in the middleware to that of its execution, `Stored` and `Replayed` say that a
  record or an answer belongs to an execution that ended, and `Once` that under a key
  nothing excuses, one request at a time runs the operation and a payment that stands has
  led to a record. `OrderInv` is needed with it: a payment of an execution that ended in
  `Err` has been refunded only because of `LeftAt`.

**Retry queue and Kafka** (`Relay_proofs`). `NothingForgotten`, from `QueueInv`: a message
without an outcome is listed, and PENDING or in the hands of a worker; workers may share a
message object, so what one does with its status has to leave that true for the other. The
proof reads lists by index, and `InOrderIsOnto` says that numbering a finite set in order
misses none of it, which is what the batch and the removal rest on. `RelayedIsCommitted`,
from `ProducerInv`: `Backed` says how far the transaction of a task that never met another
in the context has got with what the task sends, `Met` that the history remembers those that
did meet, and `InHandler` that only a worker in its handler is in the context, with the
message it has in hand.

**Cache** (`ItemCache_proofs`). `StalenessExplained` and `ProbesAreAccounted`, from
`CacheInvariance`: each call waits where its command belongs, the half-open counter is
the number of probes, lost ones included, less one, and Redis holds a copy about to be
deleted only until the delete arrives.

**Only model-checked**: every liveness property (`EventuallySettled`, `EndToEnd`,
`EventuallyEnds`, `EventuallyAtRest`, `NeverStuck`), since liveness under fairness and
ENABLED are out of the prover's reach. The three findings are counterexamples and stay with
TLC.

## 5. What is not modelled

- `clear()` of repositories and queues (test fixtures), logging, statistics,
  registries; registration of sagas and handlers, which precedes the run.
- Outbox: a publisher without `publish_fn`, the default, which marks messages PUBLISHED and
  records their keys with nothing sent (`outbox_publisher.py`, line 188). There is no broker
  then that a status could be true of.
- Task queue: enqueueing the same object twice; `max_tasks` is a choice to end after each job.
- Shutdown: `setup_signals`, and a lifespan that ends while a signal's shutdown is
  under way: its own call returns at once (`lifecycle/shutdown.py`, line 351), and
  the server may end the process before the hooks have run.
- Kafka: `start`, `stop`, the state kept for reports, an abort that raises, and fatal
  errors after which aiokafka refuses every further call.
- Redis: batches, patterns, connect and close, `reset`, values that do not decode;
  tags and statistics of the memory provider.
- `RedisCacheWithJitter` and rate limiting; the fallback decorator and
  `execute_safe` of `resilience/`, and `retryable_exceptions` narrower than the default.
- `EventStore`: no call of it suspends. What remains are copies of an aggregate
  saved without an expected version.
- `stop()` of the outbox is one step; between its cancellation and its end, a `start()`
  may slip in.

Persistent repositories are only named by the code as a recommendation, so there is no
crash recovery to model: state is lost with the process. Other components with status
`not_modelled` in `PROJECT.json` are left out for the reason given there. Most of
the repository is of that kind: thin adapters to external systems, data
classes, mappers and sequential library code, in which nothing interleaves.

## 6. Plan

Done, in this order: `Outbox`, `DedupWindow`, `Inbox`, `Pipeline`,
`Saga`, `TaskQueue`, `CircuitBreaker`; then `Shutdown`,
`Idempotency`, `PlaceOrder` and `Service`, `RetryQueue`,
`KafkaTransaction` and `Relay`, `RedisClient` and `ItemCache`, `Resilience`; then the
proofs of all of them.

Left:

1. `EventStore` (`db/event_sourcing/`), against an append-only log; the outbox's `stop()`
   split at its `await`; the pools of `RedisCacheWithJitter`.
2. Liveness of the retry queue: a message that keeps failing ends among the dead letters.
3. Proofs: more action properties (an order that is rolled back stays so, a
   message among the dead letters leaves them by a requeue only), and what the exceptions in
   `ChargedOnce` and `KeyDeliveredOnce` cost: that each named cause alone is enough.
