# Order saga: TLA+ models, checks and proofs

This directory specifies the order-processing saga of this repository (`services/coordinator`,
`packages/shared`, the worker services) in TLA+, checks it with TLC on small instances and proves part of
it with TLAPS for instances of any size.

## 1. The system and what is hard about it

| Component | State it keeps | Operations |
|---|---|---|
| `saga` schema (`db/01-saga.sql`, `repository.ts`, `queries.ts`) | `saga_orders`: status, lease owner, lease expiry, CSV flags; `saga_steps`: one row per order and step; `saga_step_attempts`: an audit log | `claimBatch`, `renewLease`, `setOrderStatus`, `initSteps`, `markStepRunning`, `markStepResult`, `getSucceededForwardSteps`, `claimForRetry`, `markShipped`; read-only lists |
| Coordinator (`worker.ts`, `saga.ts`, `api.ts`), any number of instances | in memory: the claimed batch, the phase of each saga, the four parallel calls, a heartbeat timer | claim loop, forward phase, compensation, recovery, manual retry, graceful stop |
| Calls (`http.ts`, `retry.ts`, `errors.ts`) | attempt counter | timeout per attempt, classification, backoff, one audit row per try |
| Worker services (`order`, `inventory`, `payment`, `shipping`; `service.ts`, `idempotency.ts`, `cache.ts`) | the domain table, `idempotency_records`, a Redis cache of completed results | a do-step and an undo-step each, both through `runIdempotent` |
| Inventory ledger (`inventory/index.ts`, `seed.ts`) | available and reserved quantity, reservations | reserve, release, reseed |
| Transactions (`db.ts`, `runIdempotent`) | row locks, the attempt counter of `withTransaction` | commit, rollback, repetition after a deadlock |
| Ingest (`ingest.ts`) | a batch buffer, `rowsRead`, `rowsInserted` | streaming CSV load, `INSERT IGNORE`; any number of loads of one file |
| Process life (`worker.ts`, `coordinator/index.ts`) | `running`, `inFlight`, the cursor of `mapWithConcurrency` | poll, stop, exit |
| Notification service (`notifier.ts`, `notification/index.ts`) | one row per notified order; in memory: the ids listed and claimed | page through shipped orders, claim, send, reclaim stale claims |
| Web UI, logger, env, CLI wrappers, CI | none of the saga's | display, configuration |

Coordinators share nothing but the database. A claim is a short transaction that stamps a lease; the saga
itself runs for seconds outside of any lock, calling four services in parallel over HTTP. So what is hard
is: who drives an order when a coordinator crashes, stalls or wakes up late; calls whose outcome is
unknown; state read in one statement and used in a later one; rollbacks interrupted half-way and resumed
from the rows alone; a person's button racing the claim loop; at the services, duplicate requests racing
one another and a stale claim being taken over; in the inventory, two transactions that lock the same rows
in opposite orders; at the edges of the system, loads that overlap claims, a shutdown that races a claim,
and notifiers that page through a list while it grows.

## 2. Modules

| Module | Models | Role |
|---|---|---|
| `SagaTypes` | `types.ts` | steps, their pairing, statuses |
| `SagaStore` | `repository.ts`, `queries.ts`, `01-saga.sql` | each SQL statement as one atomic operator |
| `StepService` | the promise of the four services | requests in flight, completed records, effects |
| `SagaEngine` | `saga.ts`, `worker.ts`, `api.ts` | composes the two: the state machine of all coordinators |
| `OrderLifecycle` | nothing but statuses, effects and what is known of them | the abstract specification |
| `SagaProperties` | - | invariants, action properties, liveness, refinement mapping |
| `IdempotentStep` | `idempotency.ts`, `registerStep`, `cache.ts`, the handlers' guards | concurrent requests at one service; implements `StepService` |
| `StepCall` | `executeStep`, `http.ts`, `retry.ts`, `errors.ts`, `recordAttempt` | one call down to its tries, against `IdempotentStep`; its steps are steps of `SagaEngine` |
| `Inventory` | what orders ask for and what stock there is | constants of the next two |
| `Stockroom` | nothing but counters and reservations | the abstract specification of the inventory service |
| `InventoryLedger` | both handlers of `inventory/index.ts` inside `runIdempotent`'s transaction, `seed.ts` | statements and row locks; implements `Stockroom` |
| `OrderTable` | `saga_orders` as ingest and claim loops share it, with the row locks of a claim | operators for the next three |
| `Ingest` | `ingest.ts`, `cli/ingest.ts` | loads of a file, several at once |
| `WorkerLoop` | `worker.ts`, `claimBatch` statement by statement, `withTransaction`, the retry route of `api.ts`, `coordinator/index.ts` | claim loops, slots, manual retries beside them, shutdown |
| `Dispatch` | nothing but who holds which order and which runs are under way | the abstract specification of an order's way to a worker, and of its leases from then on |
| `Intake` | - | composes `Ingest` and `WorkerLoop`; implements `Dispatch` |
| `Outbox` | nothing but what is shipped and what is notified | the abstract specification of the notification service |
| `Notifier` | `notifier.ts`, `notification/index.ts`, `listOrders` | the job in any number of processes; implements `Outbox` |
| `MCSaga`, `MCStep`, `MCCall`, `MCIntake`, `MCLedger`, `MCNotifier` | - | small instances for TLC |
| `SagaProofs`, `PromptProofs`, `LifecycleProofs`, `StepProofs`, `StockroomProofs`, `LedgerProofs`, `IntakeProofs`, `NotifierProofs` | - | theorems and TLAPS proofs |

How they fit together. `SagaEngine` EXTENDS `SagaStore` and `StepService` and is the whole system seen
from the coordinator. Four refinements hold it in place: upwards, `SagaEngine` implements
`OrderLifecycle` (`Implements`) if coordinators keep their leases, and what it does to status and lease
are steps of `Dispatch` whether they keep them or not (`PassedOn`); downwards, the assumption it makes of
the services is what `IdempotentStep` implements (`KeepsPromise`), and the single steps it makes of a call
with retries are what `StepCall` does (`MakesEngineSteps`).

Around that core stand three compositions, each with an abstract specification of its own. `Intake` is the
way of an order from the file into a worker's hands: it opens up what `SagaEngine` takes for one atomic
step, the claim (`Claim` there is `Select`, `Stamp` and the cursor here), and takes for one step what
`SagaEngine` opens up, the saga (`Finish`, `Throws`). Its `OrderTable` is therefore coarser than
`SagaStore` in what it knows of a status and finer in when a row is locked. `InventoryLedger` opens up the
domain row of one service, which `IdempotentStep` treats as one guarded write, and assumes nothing of the
idempotency records: requests come repeatedly, late and at the same time. `Notifier` starts where an order
becomes SHIPPED.

### State and code

| In the model | In the code |
|---|---|
| `status`, `leaseOwner`, `lease` | `saga_orders.status`, `lease_owner`, `lease_expires_at` (NULL, ahead of or past `NOW(3)`) |
| `row[o][st]` | `saga_steps.status`, `"ABSENT"` before `initSteps` |
| `failAt`, `compFailAt` | the CSV columns, chosen in every combination by `StoreInit` |
| `pc[t]`, `leg[t]` | how far `runSaga`, `compensate` or `retryCompensation` of a task is, and the branches of `runConcurrently` |
| `up` | processes that have not crashed; a restart is another member of `Instance` (its id is new) |
| `posted`, `record`, `effect` | requests that may still arrive; COMPLETED records; the domain row |
| `claim`, `stale`, `cache`, `domain` | one row of `idempotency_records` per step, its age, the Redis entry, the domain row |
| `phase`, `attempt`, `verdict`, `log`, `attempts` (`StepCall`) | `executeStep`, the loop of `withRetry`, `saga_step_attempts`, `saga_steps.attempts` |
| `available`, `reserved`, `reservation` | `inventory.available_qty`, `reserved_qty`, `reservations.status`, with uncommitted changes in them |
| `skuLock`, `orderLock`, `lock` | InnoDB's row locks, held until COMMIT or ROLLBACK |
| `phase`, `order` (`InventoryLedger`) | the next statement of a connection and the `orderId` of its request |
| `source`, `reading`, `read`, `flushed`, `inserted` | `source_batch`; where `ingestOrders` stands, `rowsRead`, the rows already flushed (the rest is `batch`), `rowsInserted` |
| `life`, `phase`, `attempt`, `todo`, `doing`, `retrying`, `signal` | the process; the loop of `startWorker`; `attempt` of `withTransaction`; the items before the cursor and in the slots; the retry requests being served; what `stop()` found at work |
| `atWork` (`Dispatch`) | `doing`, `todo` and `retrying` of `Intake`; the busy tasks of `SagaEngine` |
| `note`, `owner`, `stale`, `attempts` (`Notifier`) | `notifications.status`, `claimed_by`, age of `claimed_at`, `attempts` |
| `page`, `total`, `seen`, `mine` | locals of `fetchShippedOrderIds` and `runNotificationJob` |

Each SQL statement is one atomic operator of `SagaStore`, fences included: a fenced UPDATE by somebody who
is not the owner is a step that changes no order, because no caller looks at the result. Each statement or
await of `runSaga`, `executeStep` and `runIdempotent` is an action of its own, so that other processes run
in between. Histories that the code does not keep (`asked`, `done`, `posted`) are only written and only
read by properties and by the services. So are `writtenOff` (units that were set aside when a SKU was
reseeded), `known` (what was SHIPPED when paging began), `raced` (an order shipped between a COUNT and its
page) and `spoilt` (a statement of `executeStep`'s own failed).

### What is abstracted

- Time is the answer to the two questions the SQL asks: has the lease passed, is the claim older than 60
  s. `Slow` (phases a live coordinator may outlast its lease in) and `Stalls` (may a live handler outlast
  the staleness limit) say who may be late. With the default settings (TTL 60 s, heartbeat 20 s, three
  tries of 3 s, 50 orders per batch and 25 at a time) a queued order and a manual retry normally finish
  within the TTL: `Slow = {}` is the usual day, the runs with a non-empty `Slow` are the long pause, the
  frozen container, the database that hangs.
- In `SagaEngine` a call is one send and one verdict. `StepCall` has the tries. There an error is of one of
  four kinds: `transient` (409, 429, 5xx, a network error whose code `errors.ts` lists), `timeout`, `rule`
  (any other 4xx) and `unknown` (any other network error, an answer that is not JSON, most SQL errors).
  Only the first two are tried again; which of `Broken` a lost connection or a broken answer is, is chosen
  freely.
- `OrderTable`'s ENDED is PLACED, CANCELLED and NEEDS_ATTENTION alike, so `Retry` may come for any ended
  order: more than `claimForRetry` lets through. Retries are asked for by `Asked`, as often as one likes.
- Tasks per instance and order: one worker task and one retry task. Two retries of one order by one
  instance at once are excluded by `claimForRetry` unless the lease lapsed in between.
- `compensate`'s `initSteps` and SKIPPED updates are one action; nothing the code reads in between is
  changed by anybody but a zombie writing rows, and nothing is claimed of rows beside zombies except what
  `zombies` checks.
- A request, once sent, may arrive at any later time or never: `posted` is never emptied.
- In `SagaEngine` and `IdempotentStep` all four services are alike: an insert guarded by a unique key, an
  undo guarded by the row's status. Quantities are in `InventoryLedger`; amounts decide nothing.
- An order's quantity and SKU never change after ingestion (no statement of the repository writes them),
  so a request's `qty` is `Qty[o]`, and so is its reservation's. Every order asks for a SKU that exists;
  one that does not is refused like one that is sold out.
- Orders of `OrderTable` and `Notifier` are numbered by `saga_orders.id`. Loads of one file, which is what
  `ingest` is for, number them in the order of their first row, whoever inserts it.
- `Fetch` reads a page in one step with the answer's test; the COUNT before it is a step of its own, as it
  is a statement of its own in `listOrders`.
- `reclaimStale`'s LIMIT has no ORDER BY: any rows, but as many as there are (`Limited`).

## 3. Runs

| Run | Bounds | States, time | Shows |
|---|---|---|---|
| `recovery` | 3 instances of which 2 may crash, 1 order, 2 services, every fault | 181 k, 40 s | one driver at a time, nothing half placed or half cancelled, rows frozen without a lease, no way back from a rollback, `OrderLifecycle` implemented, every saga runs out of work, and whatever is taken up is settled |
| `zombies` | 2 instances that may outlast their lease anywhere | 1.1 M, 70 s | no orphaned order, no row that says SUCCEEDED falsely, no undo before its do; a settled order moves by a person's hand only, hands change only over a lapsed lease, and only a run of the holder's renews or ends |
| `acceptance` | 3 instances, 2 may crash, every combination of CSV flags | 6 k | an order ends exactly as its flags foretell |
| `twins` | 3 requests at once, both steps, deaths and lost replies | 272 k, 50 s | nothing is done twice; work, record and cache agree; the promise is kept; a dead process's claim does not block its step |
| `calls` | 3 tries, 3 requests, every fault of the service and the network, errors that are retried and that are not, the coordinator's own statements fail | 932 k, 80 s | the audit trail is complete, no early giving up but on an error that is not retried, SUCCEEDED means recorded, the call makes steps of `SagaEngine` and ends |
| `intake` | 2 loads of a file of 3 rows and 2 orders, buffer of 2; 2 workers, batch of 2, 1 slot, 2 tries of a claim; one of each may die, one worker is stopped; any number of retries of one order at the process that is stopped | 789 k, 3 min | every order arrives once, has one holder at a time, is ended by nobody else, and ended again after a retry; counts are true; a stopped process leaves nothing of its loop's half done |
| `stock` | 3 connections, 2 orders for 2 and 1 of 2 units of one SKU, any number of requests, reseeding at any time | 22 k, 10 s | counters and reservations agree, nothing is oversold, transactions are indivisible and end, and every ring of waiting connections is broken by a pair |
| `notices` | 2 processes, one may die; 2 orders, pages of 1 | 56 k, 10 s | one notification per order, none missed |
| `paging` | 1 process, 4 orders, pages of 1 | 71 k, 3 s | no order is skipped, though others ship between the pages |

Three more runs end in a counterexample on purpose:

| Run | The code says | What happens |
|---|---|---|
| `late_charge` | CANCELLED is "cleanly undone" (`01-saga.sql:38`) | a call times out, its step is recorded FAILED, the service charges all the same, and compensation refunds only SUCCEEDED steps |
| `placed_undone` | an instance that lost its lease can "abandon the order" (`repository.ts:118`) | nobody looks at the `false`: a late coordinator compensates an order its successor placed |
| `forgotten` | "There is no window where the money moved but we forgot" (`idempotency.ts:147`) | a stalled handler that fails deletes its successor's claim, and the UPDATE to COMPLETED hits no row |

The models show a few smaller disagreements, for which no run is kept. The first two are seen by checking
`UnleasedRowsFrozen` with `Slow = {"driving"}` and `OneDriver` with `Slow = {"retrying"}`:

- "a zombie worker ... updates zero rows" (`01-saga.sql:49`) is true of `saga_orders` only;
  `markStepRunning`, `markStepResult` and `initSteps` are not fenced.
- The heartbeat is to prevent "the exact double-execution" (`repository.ts:112`), but `retryCompensation`
  starts none, so a retry longer than the TTL is overtaken by a worker.
- "Rows that already SUCCEEDED are left alone" (`repository.ts:166`), but `compensate` calls every needed
  undo again (`ArmUndo`), and a call that fails overwrites SUCCEEDED by FAILED.
- "One row per individual try" (`repository.ts:221`), but the INSERT for a success sits inside the `try`
  of `withRetry`: when it works and yet reports an error, the try is audited again as FAILED
  (`AuditFails`).
- "you can reseed between bulk runs without drift" (`inventory/seed.ts:7`) holds once every reservation is
  released or final. A reservation that is live when its SKU is reseeded and released afterwards (a flagged
  order is retried, an interrupted rollback resumed) takes `reserved_qty` below zero and `available_qty`
  above the file's value. No property flags that: `ReservedBacked` and `NeverOversold` are stated short of
  what reseeds wrote off (`writtenOff`), which is by how much they would fail.
- `stop()` is to "wait for in-flight orders to finish" (`worker.ts:49`), but a claim under way when it is
  called is not in `inFlight`: the process exits past the batch it then gets, which waits for its lease to
  lapse. `StopDrains` excludes that one case and `EveryOrderEnds` shows that nothing is lost.
- "let in-flight orders reach a terminal state" (`coordinator/index.ts:36`) is true of the loop's orders.
  A manual retry runs in its route, which `shutdown` does not wait for: `server.close()` is not awaited,
  `inFlight` does not hold the retry, and `pool.end()` and `process.exit(0)` cut it in the middle of its
  compensation (`Exit` clears `retrying`). The order stays COMPENSATING under a lease that nobody renews and
  is finished by whoever claims it then (`EveryOrderEnds`). The same goes for a load of a file that was
  started through the API: to the table it is a load that died.
- "NOT retrying a transient blip cancels an order that would have succeeded" (`errors.ts:6`) is what happens
  to a blip the classification has no name for: an answer cut short after its header, or an error code
  outside `RETRYABLE_NETWORK_CODES`, ends the call on its first try (`Broken`, `Heard`). The tests ask for
  it (`test/unit/errors.test.ts:64`), so `NoGivingUpEarly` excludes it by name.
- An order that ships between the COUNT and the SELECT of the notifier's last page pushes the oldest order
  of the run off it. `NoneSkipped` excludes that case, and `NeverMissed` shows that a later run makes up
  for it.

Why the bounds are enough. Orders share nothing but the claim query and the slots of an instance, so one
order shows what instances do to one another; what a batch does to its members is in `intake`, with two
orders in a batch and one slot, so that one of them waits. Two services are needed for one step to fail
while another succeeds. Two instances give an owner and a successor, the third a successor of the
successor. Three requests give a working handler, a stalled one and a late-comer; slots are reused, so any
number may come one after another. `done` and the notifier's `attempts` are counted to 2, one more than is
allowed. The file of `intake` repeats an order within a buffer and across loads, its last row is flushed
alone, and two loads give one that dies and one that comes again. In `stock` the stock suffices for either
order, not for both; two connections make a deadlock and the third runs into it; a variant with an order
for a second SKU (418 k states) shows nothing more. In `paging` four orders on pages of one let orders ship
before a listing, between two of its pages and between a COUNT and its page, of ids above, between and below
those already seen; a second process would change nothing, since a listing reads `saga_orders` only. In
`intake` the order that is retried is one of two in a batch with one slot, at the worker that is stopped,
so its retry meets the loop, the other worker's claims, the stop and, after its lease lapses, a second
driver. The theorems below remove these bounds from safety; section 4 lists what stays with TLC.

No run uses symmetry. Deadlock is checked where the system never stops
(`twins`, `forgotten`, `stock`, `notices`, `paging`, `intake`) and not where it is done when its orders or
its call are done.

### Fairness

`FairSpec` assumes weak fairness of every task's own progress (the event loop runs, and each call ends by
its time limits, which `CallEnds` shows); strong fairness of the claim of each order (the poll loop
selects oldest first and comes back after every batch); weak fairness of the passing of a lease nobody
renews; and that an outage of the coordinator's own database ends. Nothing is assumed of requests,
heartbeats, people or crashes. `HealthySpec` adds that a service executes what it is sent, for the run
without faults. For `IdempotentStep`: handlers go on, a claim nobody works under grows old, faults end;
requests are not assumed, `NeverBlocked` speaks only of steps asked for again and again. For `StepCall`:
the coordinator's event loop and timers, and nothing of the service.

`FairIntake`: loaders and loops that are up go on; a lease nobody attends runs out; and from some point on
nothing costs an order time any more: no `runSaga` throws, no COMMIT goes unheard, no attended lease
lapses, and no claim fails that would have found something (a claim that fails with nothing to claim looks
the same as an empty one, so it is allowed for ever). One loader and one worker are not `Mortal`.
Nothing is assumed of retries: they may hang, throw or be cut, and are then overtaken like any other run.
`FairLedger`: strong fairness of a connection's next statement, since InnoDB grants a row lock in the
order of asking; weak fairness of its deadlock detector, which rolls one of the two back. Nothing is
assumed of requests, of other rollbacks or of reseeding. `FairNotifier`: weak fairness of each process's
job, which the schedule starts again and again; a claim nobody attends grows old; failing statements and
stalls come to an end.

## 4. Proofs

All theorems hold for any number of orders, services, instances and requests.

| Theorems | Assume | Rest on |
|---|---|---|
| `TypeCorrect`, `NoOrphanHolds` | nothing | themselves |
| `ExecutionHolds`, `SucceededMeansExecutedHolds`, `NoUndoBeforeDoHolds` | nothing: any `Slow` | `ExecutionInv` |
| `SettledStaysHolds`, `PassedOnHolds` | nothing: any `Slow` | `TypeOK`, `NoOrphan` |
| `SagaRunsOutHolds` | `Service` is finite, any `Slow` | `TypeOK` |
| `DriverHolds`, `OneDriverHolds` | `Slow = {}` | `DriverInv` |
| `ProgressHolds`, `PlacedMeansDoneHolds`, `CancelledMeansKnownUndoneHolds` | `Slow = {}` | `ProgressInv` |
| `UnleasedRowsFrozenHolds`, `NoTurningBackHolds`, `Refinement` | `Slow = {}` | all of the above |
| `OutcomeHolds`, `OutcomeAsInjectedHolds`, `CleanCancelHolds` | `Slow = {}`, `Faulty = FALSE` | `OutcomeInv`, `DriverInv`, `ExecutionInv`, `ProgressInv` |
| `StepTypeCorrect`, `ChargedOnceHolds`, `OkMeansDoneHolds` | nothing: any `Stalls` | `LedgerInv` of `StepProofs` |
| `PromptHolds`, `AtMostOnceHolds`, `RecordedWorkHolds`, `CacheTruthfulHolds`, `KeepsPromiseHolds` | `Stalls = FALSE` | `ClaimInv`, `RecordInv` of `StepProofs` |
| `CallTyped`, `AuditTellsAllHolds`, `NoGivingUpEarlyHolds`, `TriesRunOutHolds` | nothing: any `MaxAttempts` | `PlaceInv`, `PaperInv` |
| `SucceededOnRecordHolds` | `Stalls = FALSE` | the same, and `PromptHolds` |
| `MakesEngineStepsHolds` | `Stalls = FALSE` | the same, and `StartInv` |
| `StoryTold`, `NoUnitTwice` | `StockAssumption` | `RoomInv` |
| `LedgerTyped`, `LocksHeld`, `TransactionsAtomic`, `StoryToldByTables`, `TablesNeverOversold` | `StockAssumption`, `LedgerAssumption` | `LockInv`, and `StockroomProofs` through the refinement |
| `RingsArePairsHolds` | `StockAssumption`, `LedgerAssumption` | `LockInv` |
| `NotifierTyped`, `SendInvHolds`, `SentOnce`, `ListsWhatWasShipped` | `NotifierAssumption` | `SendInv`, `PagingInv` |
| `IntakeTyped`, `IntakeDispatches`, `CountsHold`, `CompleteIsComplete`, `StopsDrained` | the `ASSUME`s of `OrderTable`, `Ingest` and `WorkerLoop` | `ClaimInv`, `LoadInv` of `IntakeProofs` |

The argument for the engine. `ExecutionInv` ties rows, requests, records and effects together: a row says
SUCCEEDED only of something recorded, an undo is sent only for a recorded do-step. It needs nothing about
who drives, so it survives zombies. If coordinators keep their leases, `DriverInv` says that a busy task
owns a live lease and is alone on its order, for a live lease is not claimable and a lapsed one has no
busy owner. Being alone, a driver knows what its legs say of the rows (`LegOf`), and so an order is placed
only with all do-steps recorded and cancelled only with every known one undone (`SettledOf`). With that
every step is a step of `OrderLifecycle` or a stutter. `OneDriver` alone is not inductive: it says nothing
of an expired lease; nor is `PlacedMeansDone`: it says nothing of undos still under way.

What holds beside zombies. Which of two drivers is late makes no difference to `saga_orders`: every
UPDATE of it is fenced on the owner, on an active status or both, so whoever is not the owner any more
changes nothing. That gives `SettledStaysHolds` (only `markShipped` and `claimForRetry` move a settled
order, and each from its own status) and `PassedOnHolds`: read coarsely (pending, in progress, ended) the
engine does to status and lease what `Dispatch` allows. There every run has a name (worker, role, order) in
`atWork`. A run that lost its order may stay in it for as long as it stalls, but `End` and `Renew` ask for a
run of the owner's and `End` takes it out; so an UPDATE by any other run, which in `SagaEngine` is over with
it too, could only be `LetGo`, which leaves the order alone. A fence left out of `setOrderStatus` breaks
`PassedOn`.
`Intake` implements the same `Dispatch` from the other side, by claims made statement by statement; so
what both sides agree on is a specification of its own and not an analogy.

The argument for termination, as far as safety goes. `WorkLeft` counts what a task has yet to do: two
steps for each leg of a phase that is to be called, one for each call under way, and the phases after it.
`SagaRunsOutHolds`: a step of the task makes it smaller unless it begins a run (a claim, a retry), and no
step of anybody else's makes it greater. `StepsToEnd` does the same for a call and its tries
(`TriesRunOutHolds`). Both are what `EverySettles` and `CallEnds` need beside fairness: with them a saga
that does not end is a task that is not scheduled, never one that goes round in circles. They need no
invariant but types, and `Service` to be finite since legs are counted.

The argument for the outcome. If nothing fails but by the CSV's flags, what an order becomes is settled
when it is loaded. `OutcomeAsInjected` is far from inductive: it speaks of ended orders. `OutcomeInv` says
what makes it so on the way there: a leg fails by its flag and by nothing else (`LegsFail`), the step
that is to fail going forward is never requested, an order that rolls back has a flag and every other
do-step known to be done, and one that needs attention has a flag on an undo of those. Across a crash only rows and statuses carry that, which is why
the invariant is stated of orders first and of tasks second. `CleanCancelHolds` is the counterpart of the
run `late_charge`: the comment it refutes is true as long as a failure is never ambiguous.

The argument for a step. Whatever is recorded, cached or answered was done, and the unique domain row
admits one do-step (`LedgerInv`): that needs no clock. If handlers beat the staleness limit, a claim
somebody works under is young and his alone (`ClaimInv`), so a takeover cannot hit it and his DELETE
cannot hit somebody else's; hence work and record always agree (`RecordInv`) and every commit is one
`ExecuteDo` or `ExecuteUndo` of `StepService`.

The argument for a call. `PlaceInv` says that a verdict ok or a row SUCCEEDED means the step was done, and
`DoneStays` that what is done stays done; `PaperInv` says that the log is the sequence of tries so far, and
that a call which stopped before its last try heard a success, a business rule or an unknown error.
Every step of a call is a step of the service or none (`CallIsService`), so what is proved of
`IdempotentStep` holds inside it.

The other direction, from a call to the engine, is `MakesEngineStepsHolds`: every step of `StepCall` is
`SendStep`, `StepSucceeds`, `StepFails` or `StepRejects` of `SagaEngine`, a step of its services, or
changes nothing it sees. A send is visible there only once, however many tries it takes; so `StartInv`
has to say that nothing was requested or done before the first try, nor at all if the flags fail the step.
The services' own steps are mapped as in `KeepsPromiseHolds`, which is where prompt handlers are needed.


The argument for the inventory. `LockInv` says that a connection holds the locks of the rows it changed
and of no other, so the committed state, which is what the tables show once every open transaction is
undone, changes only by a commit of one handler or by a reseed. Every step of `InventoryLedger` is then a
step of `Stockroom` or a stutter, and what is proved of `Stockroom` (units move between two counters and
reservations, counted as sets of units) is true of the committed tables. `ReservedBacked` alone would not
do: it says nothing of the uncommitted half of a transaction. The same `LockInv` tells who waits for whom: a
SKU's row is held by somebody who waits, if he does, for his order's row, and an order's row by somebody
who waits for its SKU. So every ring of waiting connections has a member that waits to insert a reservation,
and the one it waits for is releasing that same order and waits for the SKU the first one holds
(`RingsArePairsHolds`): the one cycle InnoDB's detector has to break, however many connections wait.


The argument for the notifier. A claim is of a shipped order, and SENT means counted once (`SendInv`),
since the UPDATE that sends is fenced on `CLAIMED`, whichever process holds the claim.
For paging (`PagingInv`): a SHIPPED order's place in the list only grows, one place per order that ships,
and what was on an earlier page was seen there, so an order known when paging began is either seen or
beyond the pages read so far.

The argument for the intake, which maps `todo`, `doing` and `retrying` to `atWork`. A worker that is about to stamp has its whole batch locked, so nothing was
claimed or lapsed away in between (`ClaimInv` of `IntakeProofs`); what a load has flushed is in the table,
and its `inserted` counts the rows with its `batchId`, which no later load changes (`LoadInv`). A retry needs
no invariant: its claim finds the order ENDED, its end is fenced on `lease_owner`, and what it does in between
does not touch the row.

What stays with TLC: all liveness (`EverySettles`, `ReachesOutcome`, `NeverBlocked`, `CallEnds`,
`EveryOrderEnds`, `EveryTransactionEnds`, `NeverMissed`), for the prover has no `ENABLED`. Every other
property of a passing run is a theorem. Conversely some theorems are of definitions no run repeats: the
types of the modules other than `SagaEngine`, `OkMeansDone`, `TriesRunOut`, and `ChargedOnce`, which
`AtMostOnce` says better as long as no handler stalls and which alone is left when one does; and
`CancelledMeansUndone`, which one run refutes where `CleanCancelHolds` does not apply.

## 5. Not modelled

- `getOrderDetail`, `getStats`, the other GET routes, the web UI: read only, and nothing acts on what they
  return.
- Configuration, logging, the parsing of a CSV line, validation of a request body, `/health`.
- The connection pool: `withTransaction` gives its connection back in every case (`finally`), and a pool
  that is exhausted only makes callers wait. A connection that dies is a failed statement.
- The Redis client's reconnecting and closing; what `get` and `set` may answer is in `IdempotentStep`.
- An unhandled rejection of the heartbeat ends the process, which is a `Crash`.
- Containers and CI.
- Two claim loops that lock each other's rows cannot deadlock over SKIP LOCKED; `Deadlock` and lock wait
  timeouts are therefore free choices in `WorkerLoop`, not derived from the locks. A claim beside a
  multi-row insert may meet them.
- How long anything takes: backoff, poll interval, schedule. They end, and that is all that is used.
