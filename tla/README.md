# Financial Event Ledger in TLA+

These modules model the two services of the event ledger, the Event Gateway and
the Account Service, check them with TLC and prove theorems about them with
TLAPS. Paths are relative to the repository; line numbers refer to the Python
source. `PROJECT.json` maps every definition to the lines it translates.

## The system

```
client -> rate limiter -> EventService.submit -> client + breaker -> AccountService.apply
                              |      ^                 ^                    |
                              v      |                 |                    v
                    events, pending_deliveries <- fallback worker   accounts, transactions
```

| Component | State | Operations | What is hard |
|---|---|---|---|
| Account Service (`account-service/app/services/account_service.py`) | tables `accounts`, `transactions`, `audit_records`; a session per request | `POST /accounts/{id}/transactions`: look up the event, look up the account, stage the rows, commit; on an IntegrityError roll back and look again | the handler is synchronous, so requests run in threads at once; a SELECT takes no lock; callers give up and retry |
| Event submission (`event-gateway/app/services/event_service.py`) | tables `events`, `audit_records` | `POST /events`: compare with a known event, store as PENDING, deliver, save the outcome, audit it | several commits per request, an await between them, a kill or an exception anywhere |
| Client and breaker (`event-gateway/app/clients/account_service.py`) | failure count and `opened_at`, shared by every task of the process | `_request`, `allow`, `success`, `failure` | attempts outlive their caller; `allow` is asked once per call; some exceptions are not expected |
| Fallback queue and worker (`services/async_fallback.py`, `repositories/delivery_queue.py`) | table `pending_deliveries`; one worker task | `enqueue`, `process_once`, `_process_event`, `run` | rows are loaded before an await and saved after it; the batch is abandoned on an exception; restarts |
| Rate limiter (`core/rate_limit.py`, `main.py:124-159`) | a log of admission times per client address | `check`, `reset` | boundaries of the window, rounding of Retry-After |
| Worker lifecycle (`main.py:57-84`) | the task and its stop event | startup, shutdown | a bounded wait, then a cancellation wherever the worker awaits; kills |
| Tracing (`core/tracing.py`) | a context variable per task, a column of each delivery | `trace_context`, `tracing_middleware` | several tasks set it and await in between |
| Queries (`repositories/events.py`, `repositories/accounts.py`, GET routes) | none | pages of events, an account with its recent transactions | reads in several statements or requests while rows arrive in any order; amounts stored as floats |
| Telemetry, logging, metrics, health, configuration, validation | none that the ledger depends on | | see "Not modelled" |

The services share no database and talk by HTTP only. The Gateway calls
`POST /accounts/{id}/transactions` from request handlers and from the worker,
and `GET /accounts/{id}/balance` on behalf of clients; all calls go through one
client object and so one breaker.

### What makes each component correct

* Account Service: an event takes effect at most once and, once confirmed, for
  good; balances equal the recorded transactions; currencies never mix; the
  audit trail agrees with the ledger; a conflict is a real one.
* Gateway: APPLIED means recorded and FAILED means not recorded; an event waits
  in the queue exactly while it is QUEUED; statuses move along the documented
  arrows; answers given to clients are kept; everything is eventually settled,
  and where a failure ends that, the client was told.
* Client and breaker: a circuit that refuses lets nothing out but the retries of
  calls that began before it opened.
* Queue and worker: what was accepted is kept until it is answered; failing
  deliveries take turns; retries thin out and go on; each attempt carries the
  trace id of its submission.
* Queries: paging to the end misses nothing that was there; a balance is never
  ahead of the transactions shown with it; amounts come back as they were sent.
* Rate limiter: never more than the limit within a window, never a refusal
  below it, a Retry-After that is exact.

## Modules

| Module | Models | Proved or checked by |
|---|---|---|
| `LedgerData` | the event body, both rows made of it, `same_transaction`, `same_event` | used by both services |
| `Ledger` | what the Account Service promises, abstractly: a request takes effect in one step or not at all | implemented by `AccountService` |
| `EventLifecycle` | what both services promise about one event, abstractly | implemented by `EventGateway` |
| `AccountService` | the Account Service | `MCAccountService`, `AccountService_proofs`, `AccountAudit_proofs` |
| `LedgerBalances` | what a balance of the Account Service is made of | `MCAccountService`, `AccountAudit_proofs` |
| `EventGateway` | the Gateway composed with the Account Service | `MCEventGateway`, `EventGateway_proofs` |
| `CircuitBreaker` | the client and its breaker, in time, for any set of callers | `CircuitBreaker_proofs`, and as part of the next |
| `FallbackQueue` | queue, worker, startup and shutdown, and trace ids, in time, over that client | `MCFallbackQueue`, `FallbackQueue_proofs` |
| `Queries` | what clients read back, and how amounts are stored | `MCQueries`, `Queries_proofs` |
| `RateLimiter` | the limiter | `MCRateLimiter`, `RateLimiter_proofs` |
| `Arithmetic_proofs` | nothing: sums, powers of two and induction over the naturals | used by the proofs about balances, delays and amounts |

`EventGateway` EXTENDS `AccountService`, which EXTENDS `LedgerData`: the
composition runs the actions of the Account Service itself and adds who calls
it, how answers travel and which faults happen. `FallbackQueue` EXTENDS
`CircuitBreaker` in the same way: each of its actions is one of the breaker's
together with what the caller does. The Gateway is thus modelled from two sides:
`EventGateway` has every row, commit and fault but no clock (the circuit is
closed, open or past its recovery time, a delivery is due or not, and any due
one may be next); `FallbackQueue` has the clock, the order and the delays, and
of the Account Service only which events it has answered.

### Refinements

`AccountService!ImplementsLedger` maps the tables and threads to `Ledger`: the
transactions table is what is recorded, and a thread that is reading, staging or
resolving is one open request. Only the commit is a step of the ledger; the
look-ups, the second look after a refused commit and a failed refresh stutter or
answer. The balance is not part of what is promised, since `account_lost_update`
shows it is not kept.

`EventGateway!ImplementsLifecycle` maps PENDING and QUEUED to one open phase and
the transactions table to the ledger of `EventLifecycle`. Of the many ways an
event can reach the Account Service (an attempt, its retry, the queue, an
attempt nobody waits for) only the first that commits is a step. The
specification lets an event enter the ledger after it was shown as FAILED:
`docs/design.md` names that trade-off.

### How the Account Service corresponds

One record of `thread` is one request in the thread pool. `Receive` starts it,
each database call of `apply()` is an action of its own, and steps of other
threads come between them:

| Action | Code |
|---|---|
| `RejectMismatch` | `account_service.py:38-40` |
| `LookupTransaction` (with `AnswerExisting`) | 42-50 |
| `LookupAccount` | 52-59; `thread[t].seen` is the row that `account` holds from here on |
| `Commit` | 61-89: the staged rows reach the database together, `autoflush=False` |
| `CommitRefused`, `Resolve` | 90-98 |
| `CommitUnconfirmed` | a failing refresh at 88-89, after the commit |
| `DatabaseError` | any other SQLAlchemyError: `core/errors.py:39-42` answers 503 |
| `Restart` | the container: sessions are lost, the database is on a volume |

The commit writes the balance computed from `seen`, as SQLAlchemy's
`UPDATE accounts SET balance = ?` does. The order in which SQLite notices a
second key is not visible. The audit table is a set: records written twice with
the same contents are one. The account ids of the URL and of the body are
independent in `Receive`, so the mismatch is reachable. The Gateway puts the id
of the body into the URL as it is (`clients/account_service.py:44`), and any
string of 1 to 128 characters is one (`schemas/events.py:11`): an id with `/`, `?`
or `%` would reach another route or another account. `EventGateway!Send` hands
the id over unchanged, so `AccountIds` stands for ids that need no escaping. The
500 of `core/errors.py:44-47`, for an exception of the handler that is not a
SQLAlchemyError, is left out. The client would not retry it (only 502, 503 and 504)
and the Gateway would save FAILED, so what is said of FAILED events assumes that the
Account Service raises no such exception.

### How the Gateway corresponds

The Gateway is one process and one event loop (`docker-compose.yml:28-32`), its
database calls do not yield, so tasks interleave only at awaits; a kill may come
between any two commits. A record of `call` is one task: a request handler or
the worker.

| Action | Code |
|---|---|
| `Submit` | `event_service.py:48-103` up to the commit of the event |
| `BeginDelivery` | the commit of EVENT_STORED, then `breaker.allow()` |
| `Send`, `ConnectFails`, `TimesOut`, `ResponseArrives` | one attempt of `_request`, `clients/account_service.py:32-42` |
| `Applied`, `Rejected`, `RequestUnavailable`, `WorkerUnavailable` | how the two callers of the client go on |
| `LogOutcome` | the audit record that has a commit of its own |
| `Poll`, `TakeNext`, `BatchDone` | `process_once` and `_process_event` up to its await |
| `ConnectionLost` | ReadError and RemoteProtocolError, which `_request` does not catch |
| `GatewayDatabaseError`, `OutcomeUnsaved`, `UnavailableUnsaved` | a failing commit of the Gateway: the handler ends, or `run()` abandons the batch |
| `BalanceAnswered`, `BalanceAttemptFails` | balance reads, through their effect on the breaker |
| `ServiceRestarts`, `GatewayRestarts` | a kill of either process |
| `RecoveryElapses`, `BackoffElapses` | time: `recovery_seconds` have passed, `next_attempt_at` is reached |

An attempt that its caller gives up on keeps its thread of the Account Service
and may still commit. The breaker has two phases when `opened_at` is set, before
and after the recovery time, and counts failures up to the threshold. A delivery
is due or not. Two branches of `TakeNext` for missing rows (a delivery gone, an
event gone) are the code's and no state reaches them: one worker alone deletes
deliveries and nothing deletes events.

### How the client and the breaker correspond

`Begin` is `allow()` and the first attempt; `AttemptFails` and `Succeeds` are the
two ends of an attempt that `_request` knows (`clients/account_service.py:36-43`);
`SendAgain` ends the sleep of line 42; `Breaks` is any other exception, or the
cancellation of the task, which reaches neither `success` nor `failure`. Attempts
and sleeps last any time. Several calls are in flight at once, and after the
recovery time any number of them may begin, as in the code. The count of failures
stops at the threshold, where a further one makes no difference. `sent` is a
history variable: the attempts of each caller since the circuit began to refuse.

### How the queue corresponds

| Action | Code |
|---|---|
| `Submit`, `SubmitWhileOpen`, `RequestSucceeds`, `RequestFails`, `RequestBreaks` | `event_service.py:86-234`, as far as the queue, the breaker and the trace id are concerned |
| `ReadBalance` | `routes_accounts.py:5-9` |
| `Poll` (with `DueBatches`), `BatchDone`, `WaitEnds`, `Stop` | `async_fallback.py:66-79` and the loop of `run`, 173-188 |
| `Take`, `TakeWhileOpen`, `DeliveryFails`, `DeliverySucceeds` | `_process_event`, 81-171; an open circuit counts as a failed attempt |
| `BatchBreaks` | an exception that `_process_event` does not expect, or a failing commit: 178 |
| `Backoff`, `Reschedule` | 59-64 and 96-124 |
| `Startup`, `Shutdown`, `CancelWorker`, `Exit`, `Kill` | `main.py:57-84`, and the end of the process |
| `SetContext`, `Leave`, `Carry` | `core/tracing.py:28-51` and the header of `clients/account_service.py:35` |

What runs between two awaits takes no time (`TimePasses` waits for the worker to
await something); while the process stops, time does not pass the limit of the
wait. `queuedAt`, `answered` and `passed` are history variables: when an event was
queued, which events the Account Service has answered for good, and which
deliveries failed while another was due. The trace id of a submission is named by
its event, and the default `-` is `NoEvent`.

`attempt_count` grows when the circuit is open although nothing was sent, so an
outage pushes every queued event to the longest delay. A delivery waits
`MaxBackoff` plus the jitter at most: the jitter is added after the cap.

### How the queries correspond

`Page` and `Recent` are the two SELECTs: a row is on a page, or among the recent
ones, by its place in the order (`Rank`, `RankBack`), and a listing is the set of
its rows, since no client looks at the order within one. `ReadPage` is one
`GET /events` of a client that goes on until a page is not full; `GetAccount` has
a step for each statement of the handler, since SQLite holds no snapshot across
the two. Events are recorded and applied in any order, one at a time
(`AccountService` shows what concurrent ones do to a balance). `FloatOf` is the
nearest float of `MantissaBits` bits read back with the decimals of the column,
which is what SQLAlchemy's `Numeric` does on SQLite.

### How the rate limiter corresponds

Time is counted in ticks, `Second` of them to a second, so that `math.ceil` has
something to round. `Check` is one call of `check` under its lock; `Expired` is
how far the loop pops; `admitted` is a history variable, every admission since
the process started. `Reset` stands for `reset()` and for a restart.

## Runs

| Run | Instance | Shows |
|---|---|---|
| `account_retries` | 3 threads, 2 accounts, 2 events and a second body for one eventId | retries at once, reused ids, failures and restarts: applied once, confirmed means recorded, audit = ledger |
| `account_shared` | 2 threads, 3 events on one account, one also in another currency | what survives the lost update: one opening, one currency, a connected balance trail, no event counted twice, the promises of `Ledger`; and that no balance is wrong without two audited changes that start from the same one |
| `gateway_replays` | 2 clients, 2 service threads, one eventId with two bodies, 3 faults, with and without the fallback | stored before sent, conflicts are real, answers kept; `EventLifecycle` is implemented, also when an attempt nobody waits for commits after FAILED |
| `gateway_rejections` | 2 events in two currencies on one account, one attempt a call, 2 faults, with and without the fallback | status, queue, audit and ledger agree, also when the worker is told no; and an event is let go of, unsettled or unaudited, only by a kill or by an exception whose client is told |
| `gateway_drains` | 2 events in two currencies, one thread, fairness | the queue empties once faults end |
| `fallback_queue` | 2 events, the worker and one request, 2 attempts, threshold 2, recovery 2 s, batches of 1, delays of 1, 2 and 3 s with jitter, a clock up to 3 s | what is kept, in which order and when it is retried, with which trace id, and what the breaker lets through |
| `queries` | 3 events with 2 clock readings and 3 amounts, pages of 1 and 2, recent limit 2, floats of 8 bits | paging, account views and stored amounts |
| `rate_limiter` | limit 2, window 5 ticks, 2 ticks a second, 13 ticks | the limit, justified refusals, exact Retry-After |

Four runs expect a violation; each shows that the code differs from what the
documentation says (see "Findings").

### Bounds

* Threads: two are enough for a race of two steps; the third of
  `account_retries` lets a retry overtake a winner and a loser at once.
* Amounts are distinct powers of two, so a sum determines which events are in it.
* `MaxFaults` bounds timeouts, refused connections, database errors and
  restarts together; a broken connection follows `ServiceRestarts` and spends no
  fault of its own. With `MaxAttempts` 2 (`gateway_replays`, three faults) a call
  is exhausted, the circuit opens, an event is queued and one more fault meets
  the worker. With `MaxAttempts` 1 (`gateway_rejections`, `gateway_drains`) one
  fault queues an event and the second is left for the worker: an attempt that
  outlives it, a commit that fails, a kill.
* `gateway_drains` has one thread of the Account Service, since an orphan
  attempt only holds a thread up until it is done.
* `fallback_queue`: batches of one make the order of due deliveries matter with
  two events. With two attempts a call and a threshold of two, one failing call
  opens the circuit while another is in flight. Within `MaxTime` 3 the circuit
  opens, refuses, recovers after 2 seconds and opens again, a delivery fails up to
  three times and meets the cap of the delay, and a shutdown waits its 2 seconds.
  The cap of the exponent, 16 in the code, never binds there: as in the code,
  `MaxBackoff` is met first. That it keeps the delays from shrinking or growing
  when it does bind is in `RetrySchedule`, for every `MaxExponent`, and in no run.
  One request at a time runs beside the worker: two calls in flight are enough for
  a late success or failure.
* `queries`: three events make two pages and a list of recent transactions that
  is full. With 8 bits and one decimal, 0.1 and 9.4 have no exact float, sums below
  100 units are exact, and 150.1 is not and reads back as 150, so the property
  meets both sides of its limit.
* `MaxTime` and `MaxAdmissions` (`MCRateLimiter`) stop the clock after more than
  two windows, in which a log fills, empties in part and fills again. They are a
  state constraint; the module itself is unbounded.
* Symmetry is used for threads and requests only, and never in a run with a
  liveness property.

### Fairness

`FairSpec` assumes weak fairness of every task of the event loop, of the worker,
of each thread of the Account Service, of the recovery time of the circuit and of
the backoff of each delivery. The event loop runs ready callbacks in turn, the
operating system schedules threads, and the last two are clocks. No fairness is
assumed of clients or of faults, and faults are finite: the liveness properties
speak of what happens once they end.

## Findings

| Run | What happens | What is said |
|---|---|---|
| `account_lost_update` | two events of one account at once, the balance keeps one | `README.md:51`: the final balance is independent of arrival order |
| `account_first_race` | two new events open one account at once, one is refused as a conflict | `README.md:38`: a new eventId is applied and answered 201 |
| `gateway_offset_retry` | a retry after a lost response turns an applied event with an offset into FAILED | `README.md:88`: safely handles an event applied before a timeout |
| `gateway_stuck` | a kill, or a broken connection, leaves an event PENDING for good | `docs/design.md:26`: the Gateway marks the event APPLIED or FAILED |

The comparison behind `gateway_offset_retry` (`account_service.py:27` and its twin
`event_service.py:34`) refuses every identical retry of a body with an offset,
with or without a lost response.

The races combine: a spurious conflict of `account_first_race` makes the Gateway
save FAILED while an earlier attempt of the same event may still be recorded.
`gateway_rejections` therefore uses two currencies on one account, where the
second event is refused for good and the two properties about FAILED and
recorded events can be told from that race.

Differences met while modelling that have no run of their own:

* An identical retry of an event with `metadata: {}` is refused, since the stored
  object reads back as None (`event_service.py:35`; `README.md:39`: identical
  payloads are answered 200). `LedgerData!OrNone` models it.
* Amounts beyond 15 significant digits change in the database (`db/models.py:27`:
  123456789012345.6789 reads back as ....6719), so that an identical retry is refused
  and balances drift; `README.md:25` says NUMERIC is used instead of floating point.
  `Queries` covers both sides of that limit.
* Recent transactions are listed newest first (`repositories/accounts.py:10`) while
  `README.md:54` gives ascending order for event and transaction queries; and both
  sort by the local clock reading, the offset being dropped.
* An exception no handler expects is answered outside the middleware, so this 500
  carries no X-Trace-ID, while the comment at `main.py:162` speaks of every response.

## Proofs

Every safety property of the passing runs, invariant or step, and both refinements
are theorems, for every number of threads, requests, events and accounts, every set
of commands and every setting. Assumed of the constants: commands passed the schema
(`CommandsAssumption`); null values are not rows (`NullsAssumption`,
`DecisionAssumption`, `GatewayNullsAssumption`); settings are positive where the
code needs them to be (`GatewayAssumption`, `BreakerAssumption`, `QueueAssumption`,
`LimiterAssumption`); and `QueriesAssumption`, explained below. Seven theorems have
a hypothesis of their own. Each marks a difference between the code and its
documentation, or a setting without which the property is false:

| Theorem | Hypothesis | Without it |
|---|---|---|
| `BalanceExactAlone`, `BalanceExactPerEvent` | one thread; or no two events share an account | `account_lost_update` |
| `ConflictSafe` | no two events share an account; UTC timestamps | `account_first_race`; `account_service.py:27` |
| `GatewayConflictSafe` | UTC timestamps; no metadata `{}` | an identical retry is refused (`event_service.py:34-35`) |
| `FailuresRefused` | UTC timestamps | `gateway_offset_retry`: a conflict with the event's own transaction |
| `FailedNotRecorded` | also: no two events share account and currency | a refused loser of `account_first_race` may be recorded by an earlier attempt |
| `TurnsTaken` | `MaxBackoff > 0` | a failed delivery that may be due again at once stays first in the order |

Each hypothesis holds in the run that checks the same property, retries and reused
eventIds included: two bodies under one eventId are one event.

### The Account Service

`AccountService_proofs`. The properties are not inductive: nothing in
`CurrencyConsistent` says that the row a thread read is still the row of the
table. `IInv` adds that a busy thread has a command and, past the first step, a
path equal to its account (`BusyThreads`), and that an account a thread has seen
still exists with the same currency (`SeenAccountExists`). Three facts carry the
rest: accounts never disappear and never change currency (`AccountsKept`), only
a commit touches the ledger and it writes the transaction together with its
audit record (`StepKinds`, `CommitFacts`), and a success is answered either by
that commit or after reading the row (`AnswersGiven`).

The same module proves `LedgerImplemented`: every behaviour of the Account Service
is one of `Ledger` under the mapping. The initial states map to the initial state;
each action of a thread maps to a step of its client or to a stutter
(`HandlerStep`), a restart to a crash. `IInv` is what it needs: the look-up of the
account keeps a commit within the account's currency, and the key of the
transactions table keeps an event from being recorded twice.

`AccountAudit_proofs` reads the ledger off the audit trail, in three layers of
invariant:

* `TrailInv`: one audited opening of each account, and every balance a thread is
  about to build on is one where an audited change ended (`SeenInTrail`). Hence
  `OpenedByOneEvent` and `TrailConnected`.
* `RaceInv` names what a race leaves behind. A thread that builds on an old balance
  either starts from where another change started already, or will when it commits
  (`SeenIsCurrent`); one whose commit was refused lost one of the two keys: its
  event is recorded, or it had read that there is no account and there is one
  (`RefusedForAKey`). Hence `ConflictsExplained`, about the step that answers
  EVENT_ID_CONFLICT: the recorded transaction differs from the request, or the
  thread is in its second look after a refused commit, had found no account, and
  the account has been opened by another event while its own is recorded nowhere.
  A request that found its account is refused only for a transaction that
  differs. And `BalanceSafe`: each commit moves its balance by the amount it
  records, as long as no two audited changes start from one balance.
* `SumInv` adds the sums: `LostUpdatesAudited`, and `CountedOnce`, for which every
  balance a thread has seen must be a sum of recorded transactions as well.

`LostUpdateIsAudited`, its theorem and `BalanceSafe` go one way only. A lost update
leaves two audited changes that start from one balance, but so does a balance that
comes back to an earlier value: credit 1, debit 1, credit 1, one after the other,
leaves two changes that start at 0. Once that has happened on an account the three
say nothing more about it.

The two cases in which balances are exact rest on other arguments. With a single
thread, the balance it read is still the balance of the account when it commits
(`SeenIsBalance`), so that the commit adds its amount to the sum, whatever values
recur. With many threads and one event for each account, the only change is the
one that records it, however many retries race, so no two changes exist to start
from one balance.

### The Gateway

`EventGateway_proofs`. `GInv` holds of the composition whatever fails:

* every thread, with or without a caller, works on a stored event with the contents
  stored (`AttemptsCarryStored`), which makes late attempts harmless;
* a request that still delivers has a PENDING event, the worker a QUEUED one, and
  no two requests deliver one event (`RequestFits`, `WorkerFits`,
  `OneRequestPerEvent`): rows loaded before an await are still right after it;
* a thread has one caller, and works on what that caller sent (`Connections`), so
  an answer is about the event it is taken for;
* the queue is finite, so that the worker's batch exists.

Every action then is one of five kinds (`Kinds`: an event is accepted, queued,
settled by a request, settled by the worker, or no status changes), and the
properties are proved of the kinds. Hence `GatewayTypeCorrect`, `LedgerKnown`,
`AppliedIsRecorded`, `QueueIsTrue`, `AuditIsTrue`, `AnswersKept`, `StatusSafe` and
`LifecycleImplemented`, in which a commit in the Account Service is the step that
enters an event into the ledger and all other ways to it stutter.

`AuditIsTrue` says that no record contradicts a status, and not that there is one.
What becomes of an event whose record, or whose request, is lost is
`OnlyErrorsLetGo`. An event is in hand (`InHand`) while a request delivers it, while
it is queued, while the request that settled it is about to write the record, or
once the record is there. A step after which it no longer is comes from an exception
that ends its request, whose client is answered with an error, or from a kill.
Nothing a worker does, and no timeout, late answer or restart of the Account
Service, does that. It is proved action by action (`LetGoStep`): most steps leave
the event and its trail alone, and a task that settles one goes on to audit it in
the same commit or at its next step (`OutcomeInHand`).

`AccountServiceBehind` shows that every step of the composition is a step of the
Account Service or leaves it alone. All theorems of the previous section therefore
hold behind the Gateway, `LedgerBehindGateway` among them, and so does `RaceInv`.
From that follows how an event becomes FAILED with the fallback enabled
(`FailuresRefused`). The step that makes it so is taken by the task that waits for a
thread which has worked on this event and refused it, because the account is kept in
another currency or with EVENT_ID_CONFLICT; and the Account Service answers that
only to a delivery that has just lost the race to open its account, since what it
compares with a recorded transaction is what the Gateway stored. No timeout,
exhausted call, open circuit, restart or answer to something else is such a step.
`RefusalInv` adds to `GInv` and `RaceInv` that a refusal keeps its reason and that
the URL names the account of the event. When that refusal cannot be followed by an
acceptance, the event is not in the ledger (`FailedNotRecorded`).

### Breaker and queue

`CircuitBreaker_proofs`. Neither property is inductive: that whatever is in flight
began before the circuit opened follows from a call beginning only when `allow`
returns, so that a circuit that refuses was not yet open then; and the number of
attempts sent under a refusing circuit is bounded by the attempts the call has
made. Theorems: `BreakerTypeCorrect`, `OpeningSafe`, `LoadBounded`, for any number
of callers and any settings.

`FallbackQueue_proofs`. The actions of the queue are built from those of
`CircuitBreaker`, so that its theorems hold here (`QueueOpeningSafe`,
`QueueLoadBounded`); the lemma for that, `QueueUsesBreaker`, says how the modules are
put together and nothing about the code. `QueueKeeps` needs
that the row of the delivery in progress is there when it ends, and `QueueTraces`
that each task's context names the event it works on and each row the event it
belongs to; `QInv` says so.

`TurnsTaken` needs more of the worker: that the rest of its batch is due, without
repetition, and headed by what is in flight (`WorkerInv`); that one request at most
works on an event, and none once it is queued (`SubmittedOnce`); and that a delivery
which others have passed sorts before them, in the queue and in the batch in hand
(`PassedIsNext`).

`RetriesSpaced` is the step: a failure counts once and puts the delivery off by the
delay for its number. `RetrySchedule` adds these up from the time the event was
queued, with a sum over the failures so far.

### Limiter and queries

`RateLimiter_proofs`. The log is the tail of the admissions, what it has dropped
is at least a window old, and it holds at most `Limit` entries. A new admission
into a log that is not full therefore comes a window after the admission `Limit`
places before it (`RateLimited`, `MemoryBounded`). The loop is the `CHOOSE` of
`Expired`; that such a prefix exists is proved from the well-ordering of the
naturals. A refusal is remembered with the log that caused it: nothing but the client's next
check touches that log, so its oldest entry says when there is room again
(`DecisionInv`; `RefusalsJust`, `RetryAfterExact`).

`Queries_proofs`. `PagingComplete`: an event never moves to an earlier place, so
what was present and lies before the offset has been seen (`PagingInv`). That a page
that is not full is the last one needs that the places below the number of rows are
all taken (`PlacesTaken`). `ViewConsistent`: commits between the two statements only
add to the second. `AmountsExact`: a number of at most `ExactDigits` digits differs
from its float by at most half the spacing of the floats around it, which is less
than half a unit of the scale, so that rounding finds it again (`SpacingFacts`,
`RoundedTo`, `FloatIsExact`); a balance is such a number after each step because the
sum of the sizes bounds it. `QueriesAssumption` asks that the digits fit into the
mantissa with a bit to spare, as 15 digits do into 53 bits, and that no amount is
beyond the numbers `Spacing` knows.

### Arithmetic

`Arithmetic_proofs` has the lemmas these need and the library does not give in a form
that can be used: induction as a statement about sets of naturals (from the least
element of a set), sums over finite sets in any order (`SumFunction` is a fold), and
powers of two, which are not defined by a recursion the provers can unfold and are
obtained as the numbers of subsets of a set.

### Only model-checked

`QueueDrains` (liveness under fairness is beyond the prover). It has no counterpart
among the theorems. The runs with an expected violation have none either, except for
the hypotheses above.

## Not modelled, and the plan

Not modelled: telemetry, logging, metrics, health, configuration, validation of
bodies and the format of errors (no effect on the ledger or on delivery), tests,
scripts and deployment files. Of the queries, the audit listings and reads of one
row. Three branches that no state of one process with one worker reaches: the
IntegrityError of `event_service.py:104-127`, the missing rows of
`async_fallback.py:86-91`, and the second enqueue of `delivery_queue.py:31-36`.

In this order:

1. The breaker of `EventGateway`, which has no clock, as what `CircuitBreaker`
   becomes when its clock is forgotten: a refinement between the two views.
2. Two Gateway processes over one database, should the deployment ever allow it:
   the three branches above would then have actions, and `OneRequestPerEvent` would
   rest on the primary key of `events` rather than on the event loop.
