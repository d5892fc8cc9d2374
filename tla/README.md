# phenoEvents in TLA+

A verification project for the `pheno-events` crate: the durable bus on SQLite, the in-process
bus, the order projection, the schema registry, and what they promise. The modules are
translated from the Rust source; line numbers below are those of `src/bus/mod.rs` unless another file is named.

## 1. Inventory

| component | code | state | operations |
|---|---|---|---|
| SqliteBus | `src/bus/mod.rs` | tables `outbox` and `handled_events`; the worker task of each subscription; `max_retries` per clone | `publish`, `subscribe`, `process_once` (`claim_next`, `already_handled`, `last_seen`, the handler, `mark_handled`, `mark_failed`), `Drop for Subscription`; reads: `status`, `attempts`, `last_error`, `pending_count`, `dlq_count` |
| InMemoryBus | `src/bus/in_memory.rs` | registry of senders, `seen`, `last_seen` under one async mutex; a bounded channel and a task per subscriber | `publish`, `subscribe`, `run_subscriber`, `Drop for Subscription`; read: `subscriber_count` |
| Metrics | `src/observability.rs` | three process-wide atomic counters | incremented by both buses and the projection |
| EventEnvelope | `src/core/envelope.rs` | none | builder, `validate` |
| OrderProjection | `src/projection/mod.rs` | tables `orders`, `order_items`, `projection_checkpoints`; a cached offset | `new`, `apply`, `rebuild_from_offset` |
| SchemaRegistry | `src/schema/registry.rs` | schemas by (type, version) | `register`, `validate` |
| observability crate | `crates/phenoevents-observability` | none of its own | sets up third-party subscribers |

How they interact. Publishers and subscription workers of a SqliteBus meet only in the database:
several processes, and several clones with different `max_retries`, may share one file. A worker
calls user code (the handler) between two database calls and holds nothing but the row's status
while it does. The operator is an actor as well: `docs/ops/RUNBOOK.md` gives SQL statements that
requeue dead letters and force retries, and `mark_failed` expects rows to be deleted under it. In
the InMemoryBus publishers, subscribers and drops meet in the mutex and in the channels, and the
sends come after the mutex is released. The projection reads the outbox by rowid. The registry is
called by nobody else in the crate: whoever owns it calls it with `&mut self`.

What is hard. The claim races with the claims of others; each await point of `process_once` is a
place where the task may be aborted, the process killed or the statement fail, with the handler's
effect already made or not; `mark_failed` is two statements without a transaction; `last_seen` is
read apart from `already_handled`; an id that was acked may be deleted and published again; the
retry budget differs between clones; a handler may never return; the wall clock that orders events
may be set back; the in-process sends interleave and queues fill up; a deleted outbox row gives its
rowid to a later one; schemas come in any order and may be overwritten.
PROJECT.json lists these as hazards, each at its line.

What makes each component correct:

* SqliteBus: an event has one worker at a time; after a handler's Ok nobody is called for it
  again; `acked` means handled; `attempts` counts the calls; the dead letters obey the budget;
  every row is settled in the end, and it is known exactly which rows are not.
* InMemoryBus: every publish reaches each subscriber of that moment once or is refused by a full
  queue; a publisher's events keep their order; `last_seen` is the previous publish; the first
  publish of an id alone is no duplicate; a stuck subscriber harms nobody else.
* OrderProjection: what the checkpoint passes has been applied; at rest the tables are those of the
  log up to the checkpoint; a complete replay restores them; totals are the sums of the items.
* SchemaRegistry: accepted versions stay compatible; old payloads stay valid.

## 2. Plan

| order | module | what | state |
|---|---|---|---|
| 1 | `SqliteBus` | the durable bus | done |
| 2 | `EventLifecycle` | abstract life of one event; `SqliteBus` implements it | done |
| 3 | `SqliteBusProofs` | types, the claim invariant and what it implies | done |
| 4 | `SqliteBusRefinement` | the implementation proved | done |
| 5 | `SqliteBusCountingProofs` | successes against inserts, whatever is deleted; counters against the table | done |
| 6 | `InMemoryBus` | the in-process bus | done |
| 7 | `InMemoryBusProofs` | queue bounds, the `last_seen` chain, duplicates, order, the account of every publish | done |
| 8 | `OrderProjection` | apply, checkpoint, crash, rebuild, deleted rows and rowids that come again; reference: the tables are a fold of the log | done |
| 9 | `OrderProjectionProofs` | the checkpoint passes nothing that was not applied | done |
| 10 | `FoldProofs` | what sums over finite sets and left folds of sequences compute | done |
| 11 | `OrderTablesProofs` | types, totals, tables at the checkpoint, what a rebuild heals | done |
| 12 | `SchemaRegistry` | registration in any order, the additive policy, validation | done |
| 13 | `SchemaRegistryProofs` | types, additive across versions, old payloads, refusals | done |

A composition of the bus with the projection as its handler is not written: nothing in the
repository wires the two. What they share is the outbox, and `OrderProjection` models all that the
bus and an operator do to its rowids. `MC` modules hold the instances and the properties that only
violated runs check.

## 3. SqliteBus

State. `outbox[e]` is the row of event `e` (status `none` when there is none) with `attempts`,
`created` (the stamp of `created_at`) and `wait`, the ticks left until `next_attempt_at`;
`handled_at[e]` is the row of `handled_events`. `worker[w]` is where `process_once` stands and the
locals that outlive an await: the event, `last_seen`, `attempts`, the deadline and the stamp that
were computed before a statement. `publisher[p]` is the same for `publish`. `inserts`, `calls` and
`oks` are history: they are read by properties only.

Actions are the code between two points where another actor may run:

| action | code |
|---|---|
| `PublishBegin`, `PublishInsert`, `PublishAck` | `publish` up to `Utc::now`, the `INSERT OR IGNORE`, counter and return |
| `Subscribe` | `subscribe` |
| `ClaimNext`, `ClaimNone`, `Wake` | `claim_next` with and without a row, the poll interval |
| `AlreadyHandled`, `NotYetHandled` | the two answers of `already_handled` |
| `LastSeen` | `last_seen` and the call of the handler |
| `HandlerOk`, `HandlerErr` | what the handler returns; the clock that `mark_handled` or `mark_failed` reads first |
| `MarkHandled` | the transaction of `mark_handled` |
| `ReadAttempts`, `MarkFailed` | the two statements of `mark_failed` |
| `CountProcessed`, `CountFailed` | the counters |
| `RequeueDlq`, `ForceRetry`, `RemoveRow` | the operator's SQL (external), and the deletion line 205 reckons with (external) |
| `DropSubscription`, `DbError`, `AbandonPublish`, `Crash` | an abort at an await, a failed statement or a row that does not decode, a lost future, the death of the process |
| `Tick` | time passes for all deadlines at once |

Abstractions. SQLite serialises write transactions: a claim that loses the race fails with a busy
error, which is `DbError`, so the claim is one step and `changed == 0` does not arise. What
`ExclusiveClaim` shows is therefore what the status protects after the claim, not the race between
the SELECT and the UPDATE within its transaction. Stamps
(`created_at`, `handled_at`) come from the wall clock: each call gets a later one than before, or,
if the clock was set or another host's is ahead, any of `ClockErrors`; so stamps may be equal or go
back, and which event is oldest or last seen changes. Envelopes are their ids; those `validate`
refuses cause no step. Texts (`last_error`, `updated_at`) are left out, and so is `Ack.duplicate`
(line 334), which tells the caller whether the insert found a row and which nothing in the bus
reads. `metrics` are the counters
of one process and start again at 0 after a crash. The handler is its verdict; the handlers of
`Stuck` workers may never give one.

### Runs

Constants not named are as in the `.cfg`. "Fault" is any of drop, crash and database error.

| run | instance | shows |
|---|---|---|
| `SqliteSafety` | 2 events, 2 workers with budgets 2 and 1, 1 publisher that publishes twice, 1 fault, 1 requeue, a clock that may be set back to 1, deletion of any row that is not `in_progress` | the invariants below and `LifecycleSpec` |
| `SqlitePurge` | 1 event, 3 publishes, deletion of any row | `AckedWasProcessed`, `SuccessPerInsert` when claims are pulled away under the workers |
| `SqliteLive` | 2 events, 2 workers, one of them with a handler that may never return, 1 fault, no operator, fair | what settles, what is stranded, and the counters |
| `SqliteCrash` | 1 event, 1 worker, 1 crash, fair | **violated**: `AtLeastOnce` |

Properties: `ExclusiveClaim`, `NeverCalledAgain`, `AckedWasProcessed`, `CallsAccounted`,
`RetryBudget`, `OwnIdNeverLastSeen`, `SuccessPerInsert`, `OnlyFaultsStrand`, `CountersAgree`
(invariants), `VerdictsFitBudget`, `StrandedIsForever` (step properties), `SettlesOrStrands`
(liveness), `LifecycleSpec` (implementation of `EventLifecycle`). `ClaimInv` is the inductive
invariant of the proofs, checked first.

The retry budget has two properties. `VerdictsFitBudget` is about the step in which a clone gives
an event up: the row becomes `dlq` only if the handler calls made so far, those of other clones
included, have reached the budget of that very clone, and `retrying` only if they have not.
`RetryBudget` is what follows for the event: it is called at most as often as the most generous
clone allows, and once if no clone allows that.

Bounds and why they suffice. Two workers are enough for every race on a row, since a step of the
code involves one row and its holder. Two publishes let two rows compete, or one id be published,
acked, deleted and published again; the third of `SqlitePurge` lets a row be deleted twice under
two workers. One fault at any step, followed by a recovery, is what the design has to survive;
further faults repeat it. Budgets 2 and 1 give a row that dies at once, one that
waits on one clone and dies on the other, and one that fails on the same clone twice.
Budgets of 0 or less act as 1 does: the first failure is the last; the theorems cover them. `Backoff` is one tick: longer waits only delay.
One `ClockErrors` stamp is enough to make the second publish as old as the first, or the second
success as old as the first. No deadlock check is switched off: workers poll for ever.

Fairness (`FairSpec`). Tokio polls every task that is ready: weak fairness of each worker's and
each publisher's steps. Handlers return except those of `Stuck` workers: `SureStep` leaves their
call out, because line 248 awaits the handler without a timeout and nothing bounds it.
`SettlesOrStrands` then says that such a handler holds up its own event only. That takes a second
subscription, which the run has: with a single one a handler that never returns holds up every row. Somebody subscribes
again after a drop or a crash. Time passes. Faults, operators and new publishes are not fair.

### What disagrees with the documents

* `SqliteCrash`: RUNBOOK line 19 says that after a crash events resume automatically. A row claimed
  before the crash stays `in_progress`: `claim_next` (line 119) selects `pending` and `retrying`
  only. `StrandedIsForever` states the same for every fault, `OnlyFaultsStrand` that nothing else
  strands a row.
* RUNBOOK line 17 gives the backoff as `10ms * attempts`; line 214 adds 10 ms always. `HandlerErr`
  has it as the code does: the wait is `Backoff` whatever `attempts` is. No run is spent on it.

## 4. InMemoryBus

State. `subscribers`, `seen` and `last_seen` are `Inner`; `queue[s]` is the channel, `worker[s]` the
task of a subscriber, `publisher[p]` the locals of `publish` between the critical section and its
return. `log` (the order of the critical sections), `joined`, `received` and `refused` are history.

`PublishLock` is the critical section (lines 91-105 of `in_memory.rs`), `TrySend` one `try_send`,
`PublishAck` the return, `Subscribe` registration and task, `Receive` the `recv` and the call of
the handler, `HandlerOk` and `HandlerErr` its answer, `Unsubscribe` the abort by
`Drop for Subscription`. Senders come out of a `HashMap`, so their order is arbitrary.
`run_subscriber` never reaches its last lines: the registry holds a sender for as long as the
worker lives.

| run | instance | shows |
|---|---|---|
| `InMemorySafety` | 2 events, 2 publishers, 2 subscribers, queues of 2, 3 publishes, symmetric | `LastSeenChain`, `DuplicateMeansEarlier`, `PerPublisherFifo`, `AccountedFor` |
| `InMemoryLive` | 1 publisher, 3 publishes, queues of 1, `s1`'s handler may never return | `PublishReturns`, `AcceptedIsHandled` |
| `InMemoryLeak` | 2 events, 2 publishers, 2 subscribers, 1 publish, fair | **violated**: `UnsubscribedLeaves` |

A third publish overflows a queue of two whose subscriber is slow, and lets a duplicate come both
before and after another event. In `InMemoryLive` the first of three publishes keeps the stuck
handler busy, the second fills its queue and the third finds it full; one publisher is enough, since
publishers wait for each other only for the length of a critical section. Deadlock is not checked: a bus without publishes is at rest.
Fairness: publishers and workers are polled, and handlers return except those in `Stuck`.

`InMemoryLeak`: the comment on line 160 says a worker removes itself once its channel is closed, and
line 71 documents the number of registered subscribers. A dropped subscription is never removed.

## 5. OrderProjection

Line numbers are those of `src/projection/mod.rs`. State. `log` is every event ever inserted into
the outbox; `rows[r]` is the position in it of the event that the row with rowid `r` holds, 0
without a row. `tables` holds `orders` and `order_items` (an item as its amount, quantity times
price), `checkpoint` the row of `projection_checkpoints`, and `projector[i]` an `OrderProjection`:
its cached offset and where `apply_at_offset` stands, with the rows it fetched, the row at hand, the
offset it is to be stored under and where the rebuild began. `top` (the largest rowid ever given),
`reused` (rowids given again), `lost` (a row went before its event was applied), `applied`,
`overlapped` and `rewound` are history.

| action | code |
|---|---|
| `Publish` | the insert of the bus, which gets the largest rowid plus one |
| `RemoveRow` | the deletion that `src/bus/mod.rs` line 205 reckons with |
| `New` | `OrderProjection::new`, on tables that exist |
| `Apply`, `Rebuild` | the start of `apply` (offset + 1) and of `rebuild_from_offset` (`fetch_all`) |
| `Reject` | a field that is missing or has another type: the call ends before any statement |
| `ApplyEvent` | `apply_order_event`: one statement, or the transaction of `upsert_item` |
| `Checkpoint` | the upsert of the checkpoint, `self.offset`, the counter, the next row of a rebuild |
| `DbError`, `DropCall`, `DropInCheckpoint`, `Stop` | a failed statement, a dropped future (also after the statement, before `self.offset`), the end of the process |

`outbox.event_id` is the primary key (a text), so rowids are implicit and SQLite gives a new row
one more than the largest there is: after the newest row was deleted, its rowid comes again
(`IsFreeRowid`). `rebuild_from_offset` works on what `fetch_all` returned, so a row may be deleted,
and another inserted, while its snapshot is worked off (`fetched`).

Abstractions. Two projectors are two processes or two clones; all use the name "orders", and so
one checkpoint. Times, the migration statements (`IF NOT EXISTS`) and a row that is not JSON (the call ends as in
`Reject`, without the counter) are left out. A caller of `apply` hands it the rows in order and
each one once, unless `Redelivers`; a caller of `rebuild_from_offset` passes the own offset or one
of `RebuildFrom`.

| run | instance | shows |
|---|---|---|
| `ProjectionResume` | 2 projectors, one order, two items, five events, 3 rows, 1 deletion, 3 calls, 1 fault, rebuilds from 0, symmetric, counters left out of the `VIEW` | `CheckpointCovers`, `TotalUpToDate`, `TablesAtCheckpoint`, `RebuildHeals` |
| `ProjectionRewind` | 1 projector, creation and cancellation, 1 fault, rebuilds from 0 | **violated**: `ReflectsLog` |
| `ProjectionRedelivery` | 1 projector, an event handed to `apply` twice, no fault | **violated**: `CheckpointCovers` |

Three rows hold an order, its item and a change of either, or a malformed row between two good
ones. One deletion opens a gap, or lets the third row have the rowid of the second. Three calls let
two projectors overtake each other and a third step resume; one fault cuts a call at any point, and
a rebuild after it either heals or does not. Orders do not interact, so one is enough; two items
make the sum differ from the last amount. The `VIEW` omits the two counters, which no guard and no
property but their type reads. Deadlock is not checked: a projection that nobody calls is at rest.
All properties are safety, so symmetry is sound. `SkusAssumption` (finitely many skus) is what makes
the sum of the items one; a table has finitely many rows.

What is conditional, and why:

* `CheckpointCovers` excepts rows whose rowid was used before. Such a row may be at or below the
  checkpoint when it is inserted, and then `rowid > offset` (line 70) never finds it; without the
  exception `ProjectionResume` fails. Purging old rows is harmless only while the newest row stays.
* `TotalUpToDate` asks for logs in which an order comes before its items (otherwise its total stays
  0 until the next item, line 225), and, as `TablesAtCheckpoint`, for `Housekept`: rows are deleted
  after their events were applied, and no rowid came again.
* `TablesAtCheckpoint` asks also that projectors take turns and nobody rewound, since a rebuild from
  0 that is cut off shows old rows. The tables may be several events ahead of the checkpoint: an
  event is applied, its checkpoint fails, its row is deleted, and the next event arrives and meets
  the same. Then only the last of these events can still have its row.
* `RebuildHeals` asks that no other projector was up, and for `Unpurged`: every row is there. A
  rebuild from 0 over a purged outbox applies old rows without those that came after them.

### What disagrees with the documents

* `ProjectionRewind`: docs/security/THREAT_MODEL.md line 10 says that the read models reflect
  committed event state. The event is applied in one transaction and the checkpoint stored in
  another (line 97). A rebuild from 0 cut off between the two at its first row puts the old event
  back, while the checkpoint still has its old, higher value: a cancelled order is open again, and
  no restart replays the rest.
* `ProjectionRedelivery`: the test `applying_same_events_is_idempotent` (line 418) and README line 3
  promise idempotence under at-least-once delivery. The tables are idempotent, the offset is not:
  `apply` adds one for each call (line 121), and a later rebuild skips a row.

## 6. SchemaRegistry

Line numbers are those of `src/schema/registry.rs`. State. `schemas[<<t, v>>]` is the map of the
registry, `Unregistered` without an entry. `calls`, `registered_at` (the call that stored a key
last) and `last_call` are history. `register` takes `&mut self`, so a call is one step; `validate`
only reads and is the operator `Validate`.

| operator | code |
|---|---|
| `Register`, `Outcome` | `register`: version 0, the shape, the comparison, the insert that overwrites |
| `Below`, `IsLatestBelow` | `latest_schema_for`: the largest version below, of the same event type |
| `Additive` | `enforce_additive_policy`: every old property stays as it was, nothing more is required |
| `Validates` and its parts | `validate_against_schema`, `validate_type` |
| `Validate` | `validate`, and which error it gives |

Abstractions. A schema is the four keywords that the code reads: `type`, `properties`, `required`,
`additionalProperties`. A property is its type and, in `rest`, everything else it says, since the
policy compares properties as whole JSON values and validation looks at the type only. A JSON value
is its kind, and an object the kinds of its fields. Everything `validate_schema_shape` refuses is
one value, `Misshapen`. Error texts and paths are left out.

| run | instance | shows |
|---|---|---|
| `SchemaPolicy` | 2 event types (symmetric), versions 0, 1, 2, 4, two fields, 8 schemas, 4 calls | `AscendingIsAdditive`, `OldPayloadsPass`, `OnlyBreakingRefused` |
| `SchemaLate` | 1 event type, 2 versions, 3 schemas, 2 calls | **violated**: `FieldTypesKept` |

The schemas are one for each way to change one: a property added, of another type, with another
annotation, required and no longer so, a schema that is closed, one of another type, one that is
refused. Versions 1, 2, 4 leave a gap; four calls fill three versions in any order and overwrite
one, or register under the other type in between. Deadlock is not checked: the calls are bounded.

`AscendingIsAdditive` is conditional on the order of registration because the code is: a schema is
compared with its next lower neighbour at the time of the call, and never with those above it.
`OldPayloadsPass` speaks of payloads whose fields the old schema declares, and of versions that keep
the type of the whole payload, which the policy does not compare.

* `SchemaLate`: RUNBOOK line 49 has `register` refuse a version that changed field types "from a
  previously registered schema", and line 52 tells callers not to overwrite a version. Line 72 looks
  below the new version only: version 2 and then version 1 with another type for the same field are
  both accepted, and so is the same version again.

## 7. Proofs

All theorems are for every value of the constants under the assumptions that the modules declare.

### SqliteBus

Any number of events, workers and publishers, all retry budgets (any integers), every backoff,
clock error, stuck handler and bound:

| theorem | module | property | needs `ClaimsStay` |
|---|---|---|---|
| `TypeCorrect` | `SqliteBusProofs` | `TypeOK` | no |
| `ClaimsConsistent` | `SqliteBusProofs` | `ClaimInv` | yes |
| `ClaimsExclusive` | `SqliteBusProofs` | `ExclusiveClaim` | yes |
| `CalledOnceDone` | `SqliteBusProofs` | `NeverCalledAgain` | yes |
| `AckedProcessed` | `SqliteBusProofs` | `AckedWasProcessed` | no |
| `AttemptsCountCalls` | `SqliteBusProofs` | `CallsAccounted` | yes |
| `BudgetKept` | `SqliteBusProofs` | `RetryBudget` | yes |
| `VerdictsFit` | `SqliteBusProofs` | `VerdictsFitBudget` | yes |
| `LastSeenIsAnother` | `SqliteBusProofs` | `OwnIdNeverLastSeen` | yes |
| `FaultsStrand` | `SqliteBusProofs` | `OnlyFaultsStrand` | no |
| `StrandedForGood` | `SqliteBusProofs` | `StrandedIsForever` | yes |
| `SuccessesInserted` | `SqliteBusCountingProofs` | `SuccessPerInsert` | no |
| `CountersAddUp` | `SqliteBusCountingProofs` | `CountersAgree` | `FiniteBus`, `TableKept` |
| `BusImplementsLifecycle` | `SqliteBusRefinement` | `LifecycleSpec` | yes |

`ClaimsStay` says that operators do not delete rows that are `in_progress`. Without it two workers
may hold one event (delete, publish again, claim), and the argument ends. `FiniteBus` says that
there are finitely many events and workers, `TableKept` that operators neither remove nor requeue
rows: both take attempts out of the table that stay in the counter.

The argument. None of the properties is inductive: that a claim is exclusive needs that every
holder's row is `in_progress`; that nobody is called twice needs that a holder before its call
has a row without a success, and that a row with a success that is not recorded stays
`in_progress`; that `attempts` counts the calls needs that the copy `mark_failed` read is the
row's. `ClaimInv` collects these as `EventInv` (row against history), `HolderInv` (worker against
its row) and `OneHolder`. Its preservation has one lemma per group of actions, and each ends in one
of three frame lemmas: `HeldRow` (a worker and the row it holds or takes), `LetGo` (workers that
give up what they hold) and `FreeRow` (a row nobody holds). Types need two more conjuncts: a worker
has an event exactly at the laden points, and a publisher has one before its insert.

`FaultsStrand` needs less: while no fault struck, a row that became `in_progress` has the worker
that claimed it, whatever operators delete. `StrandedForGood` uses that an `in_progress` row is not
due, so no claim takes it, and that only holders write to it.

`BudgetKept` and `VerdictsFit` use that the calls of a row that waits are its attempts, and those of
an event whose handler failed are one more, which is what its holder read (`HolderInv`): so the
number that the verdict compares with the budget is the number of calls.

`SuccessesInserted` counts tokens, one per insert. A row that waits or is dead has one, a worker
has one from its claim to its handler's verdict, a success keeps one. No step makes a token but an
insert, also when two workers write to one row after a deletion; the sum of the three never exceeds
`inserts`. The sets of workers are shown finite along the way, by induction over the steps.

`AckedProcessed` holds whatever is deleted: whoever comes to `mark_handled` comes from an Ok or from
a row of `handled_events` (`MarkingIsEarned`), and neither is ever taken back.

`CountersAddUp` follows the two pairs through every step. A worker moves to `processed` in the step
that acks its row, which was `in_progress`, and to `failed` in the step that adds one to the
attempts of its row, which are the ones it read (`ClaimInv`, twice); it leaves in the step that
counts. The sum over the table changes in one summand (`SumIncreased`, see below).

For the implementation, `Phase` reads an event's place in the lifecycle from its row, from
`handled_events` and from whether a handler succeeded. `Moves` reduces a step to the phase of one
event, `Stutter` covers the others.

### InMemoryBus

`QueuesBounded` (`TypeOK`, with the capacity of the queues), `LastSeenIsPrevious` (`LastSeenChain`)
and `FirstIsNoDuplicate` (`DuplicateMeansEarlier`), for any number of publishers, subscribers and
publishes and any capacity. `BusInv` adds to the properties that `last_seen` and `seen` sum up the
log, and that what a publisher took out of the critical section, and what is in the queues, agrees
with the log at its own position; both stay true while other publishers append to it (`LogGrows`).

`PublishersInOrder` (`PerPublisherFifo`): the sends of different publishers interleave, so what a
subscriber was sent is not in the order of the log. `FifoInv` adds that what a publisher is about
to send comes after everything of its own that a subscriber was sent, and that the positions of two
publishers at work differ. `Sent` treats the received and the queued as one sequence: `try_send`
appends to it, and `recv` leaves it as it is.

`NothingUnaccounted` (`AccountedFor`): each publish since a subscriber joined is at one place, and the
places together are as many as the publishes, so none is at two. A step moves one publish from one
place to another (`SendAccounts`, `ReceiveAccounts`) or adds one that is on its way to everyone
registered (`LockAccounts`). `AccountInv` adds that the set of publishers with something on its way
is finite, whatever `Publishers` is, that what is on its way was not refused yet, and that a
subscriber still to come has nothing. `PublishersInOrder` provides that two publishers on their way
are at two places.

### OrderProjection

`CheckpointSafe`: `CheckpointCovers` holds for any number of projectors, rows, deletions, calls and
faults, if `CarefulCallers` (no redelivery to `apply`, rebuilds from the own offset or from 0).
`ProjectionRedelivery` shows that the first half is needed; a rebuild from a larger offset skips
rows on purpose. `CheckpointCovers` alone is not inductive: `CoverInv` adds that a projector in the
middle of a call has applied all rows before the one at hand, and at the checkpoint that row too
(`InCall`), and that its snapshot still says what the table holds up to its last row, apart from
deleted rows and rowids that came again (`Agrees`). For the last, offsets stay at most `top`: a new
row below `top` is in `reused`. `OneProjector` is the frame lemma, and each group of actions has a
lemma.

`OrderTablesProofs` is about what the tables hold, for every value of the constants. `TablesTyped`
(`TypeOK`) needs no condition on callers. The others assume `CarefulCallers`.

* `TotalsAddUp` (`TotalUpToDate`). That the total is the sum is not inductive: an item may be
  stored before its order. `Reflects` says of tables and a set of applied events that an order has a
  row if and only if it was created in that set, that all its items come from the set, and the
  total; `ReflectsNext` takes it over one event that finds its order, in whatever order and however
  often events come. That an item finds its order is `CheckpointCovers` again: all rows before the
  one at hand were applied. `Straight` translates rowids to positions while none came again.
* `TablesResume` (`TablesAtCheckpoint`). `Progress(m)`: the first `m` events and no others were
  applied, and the tables are their projection. A projector's row at hand is `m` (applied before,
  checkpoint lost) or `m + 1`, since no row is left between its offset and `m`. A repeat of the last
  event changes nothing (`ApplyOrderEvent` twice), the next one makes `Progress(m + 1)`.
* `RebuildHealsTables` (`RebuildHeals`). A rebuild starts on tables that hold anything from earlier
  calls. `Overlays(t, u, k)`: `t` agrees with `u` on all that the first `k` events set. Row by row
  the rebuild extends this from `k` to `k + 1` against `Projected(k)`. At the end nothing else can be
  left: all that was ever applied is among what the rebuild fetched (`Rebuilds`), so the tables show
  nothing that the projection does not (`TotalInv`), and with the same rows and items the totals are
  the same.

### Sums and folds

`SumFunction` and `FoldLeft` of the community modules are `MapThenFoldSet`, a recursive function on
the subsets of a finite set that takes away one picked element at a time. A theorem about it would
be an induction over finite sets, and the library's induction theorem takes an operator. `FoldProofs`
gets it from a set instead: of the subsets on which a claim fails one is minimal
(`SmallestSubset`), and its rest without the picked element is smaller. This gives that the function exists
(`FoldExists`, by gluing together the folds of smaller sets), that it is unique (`SubsetsAgree`), and what the models need:
a sum changes by what one summand changes (`SumIncreased`), and, in `OrderTablesProofs`, the
projection of `n + 1` events is one event applied to the projection of `n` (`ProjectedSteps`).
`CountingUp` is the same for the numbers up to `N`.

### SchemaRegistry

`RegistryTyped` (`TypeOK`: nothing under version 0, nothing that is misshapen), `OrderMakesAdditive`
(`AscendingIsAdditive`), `OldPayloadsKept` (`OldPayloadsPass`) and `RefusalsJustified`
(`OnlyBreakingRefused`), for all versions, schemas and orders of registration. `Additive` is
transitive, which is why a comparison with the neighbour is enough: a new schema is additive over
the next lower one, and that one, by the invariant, over those below. A version that is stored
beneath others is younger than they are, so no ascending run leads from it to them. That a payload
stays valid is then a fact about two additive schemas (`AdditiveKeepsValid`). `RefusalsJustified`
needs that a set of lower versions that is not empty has a largest one (`LatestExists`).

### Only model-checked

Every invariant and step property of the passing runs is a theorem. What remains with TLC is
liveness, which needs ENABLED and fairness and is out of the prover's reach: `SettlesOrStrands`,
`PublishReturns`, `AcceptedIsHandled`. What a RECURSIVE operator computes is not involved: the models
have none.

## 8. Not modelled

* Reads that change nothing: `status`, `attempts`, `last_error`, `pending_count`, `dlq_count`,
  `subscriber_count`, `offset`.
* `EventEnvelope`'s builder, a pure constructor; `validate` appears as the choice of `Events`.
* Tracing, span contents, JSON encoding, connection pools and their timeouts.
* Amounts beyond SQLite's integers: a product that overflows turns into a float and a sum that
  overflows is an error there (line 271 of `src/projection/mod.rs`). Both are SQLite's conversions.
* The handler's own behaviour beyond its verdict and whether it returns.
* The observability crate and `trace_envelope` / `init_tracing`, which configure third-party
  libraries.
