# Verification of the EV charging event pipeline

TLA+ models of this repository from the simulated chargers to the warehouse,
checked with TLC on small instances, with TLAPS proofs of all the safety properties
that hold, for every value of the constants.

## 1. The system

| Component | Source | State it keeps | Operations |
|---|---|---|---|
| Analytics consumer group | `processor/consumer.go`, `analytics.go`, `dedup.go`, `producer.go` | reader position and batch per worker, committed offsets, dedup keys (Redis), clean and dead-letter topics | fetch, validate, EXISTS, produce clean, produce DLQ, count, SET, commit, close and reopen the reader |
| Realtime consumer group | `consumer.go`, `realtime.go`, `redis_state.go` | batch per worker, committed offsets, one Redis hash per connector | fetch, validate, CAS pipeline, one retry, commit regardless, TTL expiry |
| Registry | `processor/registry.go`, `simulator/registry.go`, `validate.go` | Postgres rows, in-memory snapshot (atomic pointer) | seed transaction, load with retry, refresh, snapshot reads of `Validate` |
| Processor lifecycle | `processor/main.go` | process context, worker goroutines | start, SIGTERM, drain, crash, restart |
| Producer and delay queue | `simulator/producer.go`, `delayqueue.go` | heap, wake channel, timer | `Send`, push, pop, write, cancel |
| Fleet | `simulator/main.go`, `model.go`, `metrics.go`, `config.go` | connector status and session, heartbeat times, session counter and gauge | tick, heartbeat, start, meter, stop, fault, recover, cancel |
| Transform | `processor/transform` | none | flatten |
| Warehouse | `deploy/clickhouse/init` | engine offsets, landing table, revenue rollup | poll, insert, sum, commit, merge |
| Daily jobs | `deploy/airflow/dags` | none of their own | freshness, optimize, delete and re-insert a day, PSI, TTL report |

The simulator seeds Postgres and produces to the raw topic. Two independent
consumer groups read that topic: the analytics group routes every record to the
clean or to the dead-letter topic (ClickHouse ingests both), the realtime group
keeps the current state in Redis. Both validate against the same registry
snapshot, which a refresher replaces while they run.

What is hard here: a rebalance does not wait for the batch a worker has in hand;
every external call can fail after part of it took effect; offsets, dedup keys
and topics are updated in separate steps with a crash possible between any two;
a commit stores the batch's offsets whatever is stored already; the registry is
read and loaded in several steps; the delay queue signals outside its lock; a
session's stop is stamped with a time before the tick that finds it, and ticks
collapse; the rollup is summed before deduplication and overwritten in two
statements beside the stream. The
list, line by line, is in `PROJECT.json` under `hazards`.

What makes each part correct:

- *Analytics*: at-least-once. No record is passed over; a commit and a dedup
  mark come after the durable produce; in quiet operation nothing is produced
  twice; shutdown leaves no produced-but-uncommitted gap; every record is
  eventually routed.
- *Realtime*: the state converges to what the topic says however often records
  are applied; an update is lost only when both attempts failed, and a later one
  repairs the fields it carries; a partition is never blocked.
- *Registry*: a running processor always has a usable roster, no verdict rests on
  tariffs older than its station rows, and the snapshot catches up with Postgres.
- *Delay queue*: no lost wake-up, no early release, one route per event.
- *Fleet*: a connector's events are well nested and leave in timestamp order, a stop
  bills the whole session at the price of the time it carries, readers learn every status, no session outlives the first
  tick after its planned end, the counter is exact.
- *Warehouse and daily jobs*: what is committed is in `events_raw` from then on, the rollup
  never understates, an undisturbed overwrite is exact, ingestion catches up.

## 2. Modules

| Module | Models | Uses |
|---|---|---|
| `ConsumerGroup` | what both groups share: membership, fetching, commits, shutdown, crash, restart | |
| `AnalyticsPath` | `runAnalyticsBatchGroup` and `flush` | extends `ConsumerGroup` |
| `AtLeastOnce` | the abstract promise of the analytics group | implemented by `AnalyticsPath` (`ALO`) |
| `AnalyticsPathProofs` | at-least-once delivery of `AnalyticsPath` | extends it |
| `AnalyticsCalmProofs` | what an undisturbed group promises beyond that | extends `AnalyticsPathProofs` |
| `RealtimePath` | `runRealtimeBatchGroup`, `applyBatch`, the CAS script | extends `ConsumerGroup` |
| `RealtimePathProofs` | theorems about `RealtimePath` | extends it and `SumProofs` |
| `StationRegistry` | seed, load, refresh, the reads of `Validate` | |
| `StationRegistryProofs` | theorems about `StationRegistry` | extends it |
| `DelayQueue` | `Send` and the delay queue | |
| `DelayQueueProofs` | theorems about `DelayQueue` | extends it |
| `Fleet` | `runSimulation`, `stepGroup`, the sessions of `model.go`, `sessionCounter` | |
| `FleetProofs` | theorems about `Fleet` | extends it |
| `Warehouse` | `Flatten`, the Kafka engine, `events_raw`, `revenue_hourly`, the DAG | |
| `SumProofs` | facts about finite sets: sums, largest elements | |
| `WarehouseProofs` | theorems about `Warehouse` | extends it and `SumProofs` |
| `MC...` | the constants of the TLC instances | extend the module they name |

**ConsumerGroup.** `raw` is the topic (a sequence per partition, fixed in a
behaviour: a record not produced yet cannot be told from one not fetched yet),
`committed` the stored offsets, `session`, `assigned`, `pos` and `rejoin` the
standing of each reader with the coordinator, `pc` and `batch` the worker's loop.
The coordinator and the kafka-go reader are outside the repository and are
modelled from how `consumer.go` relies on them: `Rebalance` hands every partition
to some member, from the last commit, without waiting for batches in hand (the
reader rejoins in the background); a commit is made under the reader's current
generation and overwrites the stored offset; a reader whose session expired goes
on with what it has until a heartbeat is refused. A failed flush closes the reader
and opens another one (`CloseReader`, `newReader`). `calm` is a history variable:
it is true until something fails or a rebalance happens while some worker has a
batch in hand. The time-outs of `fillBatch` are not modelled as time: a non-empty
batch may be returned at any moment.

**AnalyticsPath.** Each step of `flush` that something else can fall between is an
action: `ValidateNext` (per message, under the snapshot of that moment),
`SeenBatch`, `WriteCleanBatch`, `WriteDLQBatch` (with the metrics that follow it),
`MarkBatch`, `Commit`; each call that can fail has a second action with the
effects a failure can leave behind (any subset of the batch produced, any subset of
the keys set). An event is its payload; a byte-identical resend is the same event.
Whether an event validates depends only on the snapshot, so `roster` is the set of
events the snapshot accepts.

**RealtimePath.** Scripts run one at a time (`ApplyNext`), so the pipelines of two
workers interleave; a failure may come after any prefix (`ApplyFailsOnce`,
`ApplyGivesUp`). Events are records with type, key, time, status, session and power;
`casScript` and `stateArgs` are the script and its arguments field by field. `soc` is
left out: it is written with every reading, as the power is, but not by a stop that has
none. Apply and commit share 15 s: a Redis that hangs until they are over is two failed
pipelines and a failed commit, three faults in a row.
What the topic says (`Expected`) is defined without the script, field by field: the last
record that carries the field (`Carriers`) among those not older than any before them
(`Counts`).

**StationRegistry.** `TRUNCATE` holds its locks until the seed transaction ends, so the
two queries of `loadRegistry` wait for it, but they are two transactions. `Validate` is
two steps because it loads the snapshot twice. The rules that look only at the event
are its `defect`, placed before the station lookup (`header`), between lookup and
cross-check (`fields`), or after the tariff (`body`). `seeded` records the committed
rosters in their order and `verdict` the last answer of `Validate`.

**DelayQueue.** `push` is two steps (heap under the lock, then the signal), the worker's
loop is two (timer from the heap, then `select`). Time is a bounded counter.

**Fleet.** A station is its place in the roster (ids are made from that place, model.go:295-297,
so they differ), a connector a pair of station and number, and a group the range of stations
that `partition` cuts out. `boot` and `turn` are where the loops of `emitInitialStatuses` and
of a tick have come to; `After` is their increment. A group goroutine alone touches its connectors, so the visit of a connector is
one step (`VisitNext`: one action per case of `stepGroup`), which leaves a list of what
the code then does with shared things, in the code's order: `SendNext` hands an event to
`Send`, `AddInt64` and `SetGauge` are the two halves of `counter.start` and `stop`. `now`
is the tick's reading of the clock; `Advance` may run several times between two ticks of
a group, which is how ticks collapse. `out` is not program state: it is what a reader of
the sent events knows of a connector (last event, last status, open session), enough to
judge the order and the nesting of the whole stream without keeping it. Random draws are
choices from the sets that the constants name, a state of charge is an integer in which
one unit of energy is one unit of charge, and `Taper` is any decreasing positive curve
for the code's linear one. What happens to an event after `Send` is `DelayQueue`'s.

**Warehouse.** A partition's block, any part of what is there to read, goes through `Poll`, `events_mv`, `revenue_hourly_mv`
and `Commit`; a failed push or a restart returns to the last commit, so a block may be in
`events_raw` and not in the rollup, or in both and not committed. The engine is outside
the repository and is modelled from the schema's use of it. `raw` counts the copies of a
row, `Merge` and `optimize_closed_partition` collapse them, `FinalRevenue` is a `FINAL`
read. A row's copies agree in the whole sort key, so `FINAL` and merges see one row. The
five tasks of the DAG run in sequence; `reconcile_revenue` is four steps (bounds, DELETE,
the read of INSERT ... SELECT, its write), and `TaskFails` may end the run before any of
them, which covers a statement that took effect and was reported as failed. `hole` and
`raced` are history variables. What the clean topic may hold, every event at least once,
is what `AtLeastOnce` leaves open: `Produce` writes any event again.

## 3. Runs

| Run | Instance | Result |
|---|---|---|
| `analytics_safety` | 2 workers, 1 partition `<<a, b>>` or `<<a, a>>`, registry snapshots that accept or reject `b`, batch 2, 1 fault | holds |
| `analytics_live` | `<<a, b>>`, 1 fault, fair | holds |
| `counted_once` | `<<a, b>>`, no fault | violated: see findings |
| `realtime_safety` | 3 topics of 3 records, batch 2, 2 faults | holds |
| `realtime_live` | 2 records, 2 faults, fair | holds |
| `self_healing` | `STATUS_CHANGE`, `STATUS_CHANGE`, `METER_UPDATE`, batch 1, 2 faults | violated: see findings |
| `registry` | 3 rosters, 4 events, 3 seeds, 1 failure, fair | holds |
| `one_roster` | as above, 2 seeds | violated: see findings |
| `delay_queue` | 2 senders, 3 events, delays 1 and 2, clock up to 3, 1 failed write, fair | holds |
| `fleet` | 2 stations in 2 groups, a connector each, clock up to 4, sessions of 1, 2 or 4, no rate cap | holds |
| `warehouse` | a stop, an event of the next day, 2 partitions, 1 duplicate, 2 DAG runs, 2 faults, fair | holds |
| `reconcile_exact` | 2 stops and an event of the next day, 1 DAG run, no duplicate, no fault | violated: see findings |

**Bounds.** Two workers are the smallest group in which one can overtake the other;
up to two records in a batch give full, partial and mixed batches and a resend both
inside a batch and across batches (`fillBatch` may return with one). One fault already includes every partial
produce, crash point and lost session, and rebalances, signals and (with the fault
budget) restarts come on top of it; that more faults do not matter for the safety
properties is what the proofs add. The realtime instance needs two faults, since a
loss takes two failed pipelines. Worker symmetry is used in safety runs only. The
delay queue's clock covers both delays after the latest useful push. The fleet's clock
is the shortest in which a session is started, read, ended and its connector used
again; a session may be planned to end within it or beyond it, and the two arrival
charges give stops before and after the battery is full. The `fleet` run has no rate cap
because it asks more: with one, `Send` drops every event after the cancellation, so that
nothing a reader could see happens any more. One duplicate, two runs and two faults are
enough for a run that dies with the day deleted and a second one that repairs it, and for
a block that is summed twice by a repeated push and once more as a resend.

**Fairness.** Weak fairness of each worker's loop (goroutines are scheduled, and flush,
apply and commit run under contexts of 30 s and 15 s), of a reader learning of its
expulsion, of the coordinator completing a rebalance, of the end of a transaction, of
polling and refreshing, of time, of the engine's poll loop. Nothing is assumed of faults, signals, restarts,
seeds or sends. The liveness properties are stated up to a signal or, for
`EventuallyCommitted` and `NeverBlocked`, a disturbance of the group: an undisturbed
group commits everything, while a failed commit of the last batch is made good only
by the next record or generation.

**Findings.** Each of the four violated runs states a sentence of the code or the docs:

1. `counted_once`: a batch redelivered after its metrics were emitted is counted again
   (analytics.go:102-104).
2. `self_healing`: a lost `STATUS_CHANGE` is not repaired by the next `METER_UPDATE`,
   which renews the TTL (ARCHITECTURE.md:235-240). What does hold is `FieldsHeal`: the
   next update repairs the fields it carries itself, and no others.
3. `reconcile_exact`: a day is not recomputed "EXACTLY" (ev_analytics_daily.py:120-122)
   when a block with a stop of that day is between `events_raw` and the rollup, or arrives,
   while the day is being overwritten; the stop is counted twice.
4. `one_roster`: a snapshot is not a "point-in-time view" (processor/registry.go:27) and its
   tariffs are not read "from the same snapshot" as its stations (simulator/registry.go:34-36):
   a seed between the two queries of a load, or a refresh between the two reads of `Validate`,
   makes it judge an event "against two different rosters" (validate.go:66-69). An event of a
   station and a tariff that a seed removed together is dead-lettered as `unknown_tariff`; the
   old roster accepts it and for the new one its station is unknown. What does hold is
   `VerdictsJustified`: the tariffs are never the older half, because stations are queried and
   checked first. An event that all committed rosters judge alike is judged so.

None of them breaks at-least-once delivery or the exact queries. Four observations that
the models make and no run of its own states: the gauge is not always the counter it
"mirrors" (metrics.go:53), because of two concurrent updates the older may be written last
(`AddInt64` and `SetGauge` are two steps; `CounterExact` is about the counter); EXISTS and SET of one id can race on a
rebalance (dedup.go:15-16 says they never do), which is why `DuplicateNeedsDisturbance`
counts a rebalance over a batch in hand as a disturbance; a DAG run
that dies between DELETE and INSERT leaves the day empty until another run, which repairs
it only if the latest event is still of the day after (`hole`); and the CAS
rejects only strictly older events (redis_state.go:19), so where two events of one
connector and millisecond differ in a field they both carry (a reading in the very
millisecond in which the session is then said to have ended, model.go:404-405), a
redelivery may leave either; `ConvergesAtRest` therefore asks that such events agree
(`TiesAgree`), as those of a fault-abort do.

## 4. Proofs

Each proof module rests on an inductive invariant of its component, from which the
theorems follow. A proof that a step keeps it goes action by action; facts about
the operators are lemmas of their own. In all of them the constants are arbitrary, within
the named assumptions of the module that declares them.

**Delivery** (`AnalyticsPathProofs`; `LogsAssumption`, `BoundsAssumption`,
`RostersAssumption`). `TypeCorrect`, `CommitAfterDurable`, `MarkAfterProduce` and
`ReadersSkipNothing` prove `TypeOK`, `NoCommitBeforeDurable`, `MarkedImpliesProduced` and
`NothingSkipped`; `DeliversAtLeastOnce` proves that `AnalyticsPath` implements
`AtLeastOnce`. `NoCommitBeforeDurable` is not inductive: a commit is blind, so it is safe
only because of what holds of the batch being committed. `IndInv` adds, for each worker,
that fetched records exist (`ReadsExist`), what each stage of `flush` has achieved for the
batch (`FlushProgress`: every message judged, every valid event fresh or already clean,
fresh ones produced, rejects dead-lettered), and that below any record a reader has fetched
or holds everything is durable or in the same worker's batch (`NothingSkipped`). The last
part is where closing the reader after a failed flush matters. Topics only grow, so a step
of one worker preserves the others' parts (`Frame`, `HandledGrows`).

**An undisturbed group** (`AnalyticsCalmProofs`, also `KeyedAssumption`: the producer's
hash balancer keys by station, producer.go:42 and :99, so one event is never in two
partitions). `NoDuplicateWhenCalm`, `NoGapAtShutdown`, `CommitsNeverRewind` and `OneWay`
prove `DuplicateNeedsDisturbance`, `NoShutdownGap`, `CommitsMoveForward` and `RoutedOneWay`.
`CalmInv` says that as long as `calm` holds a partition has one reader, whose batch is
exactly what lies between the commit and its position (`CalmGroup`); that an event is
produced at most once and is marked, or about to be (`CalmDedup`); that what is downstream
is committed or in hand (`CalmGap`); and, while no refresh has swapped the snapshot, that
every verdict is that snapshot's (`Verdicts`). Without `KeyedAssumption` two workers could
check and produce the same event at the same time, and `CalmDedup` would be false.

**Realtime** (`RealtimePathProofs`; `LogsAssumption`, `BoundsAssumption`,
`EventsAssumption`, and `StationAssumption`: the records of a station are in one partition,
again because producer.go:42 and :99 key by station). `RealtimeTypeCorrect`;
`LossTakesTwoFailures`, `StateConverges` and `UpdatesHeal` prove `LossNeedsTwoFailures`,
`ConvergesAtRest` and `FieldsHeal`; `UpdatesNeverUndone` says that no step takes a settled
event back. That is the pivot of `IndInv`: an event is settled when the time in the hash is
no older and, if the event counts, each field it carries shows it or a counting record at
least as new (`Reflected`), or when it is lost in an accepted way (`Settled`). Times in the
hash only rise and a field is only overwritten by a record as new, so this is stable, and the
commit-regardless argument has the same shape as for delivery. Redelivery breaks any simpler
invariant: the state is not that of a prefix of the topic. Two parts deal with it. Below a
message in hand everything is settled or earlier in the same batch (`InOrder`), although the
offsets of a batch need not ascend; so a script that passes the CAS is that of a record that
counts (while nothing of the key is lost). And the time in the hash is that of a record
below which everything is settled (`Traced`); so the event of a script that the CAS rejects is
below that record and settled already, or comes after it, older, and does not count. At rest
everything is settled: a field shows a record as new as the last one that carries it, hence
of the same time, and `TiesAgree` makes the two say the same. That there is a last one is `MaxExists` of `SumProofs`.

**Registry** (`StationRegistryProofs`; `SeedsAssumption`, `ArrivingAssumption`).
`RegistryTypeCorrect`; `RosterNeverBlank` and `VerdictsAreJustified` prove
`RunningHasRoster` and `VerdictsJustified`. `RegistryInv` adds that Postgres holds what was
committed last and that the stations of a load, and so of a snapshot, come from a committed
roster, the tariffs from the same or a later one (`FromSeeded`); and that an event between
the two reads of `Validate` has passed the first under a roster not newer than the tariffs
of the snapshot (`JudgingInv`), which a refresh keeps true because the tariffs it brings
are the latest.

**Delay queue** (`DelayQueueProofs`; `BoundsAssumption`, `PlanAssumption`).
`QueueTypeCorrect`; `TimerCoversHeap`, `SendsOneWay` and `NeverReleasedEarly` prove
`NeverOversleeps`, `OneRoute` and `HeldUntilDue`. `QueueInv` adds what a sender has in hand
while it pushes, and that the worker is born by then (`SenderInv`): a push suspends the
timer property until its signal is in, and only `SetTimer`, which has just read the heap,
enters the `select`. `RouteInv` adds that what a sender has left is the rest of its plan,
that an item is held in one place, and that what was popped is due.

**Fleet** (`FleetProofs`; `ConfigAssumption`, `PhysicsAssumption`). `FleetTypeCorrect`;
`StatusesTold`, `CounterIsExact`, `NoneOverdue`, `EventsInTimeOrder`, `SessionsDoNest` and
`StopsBillInFull` prove `StatusAnnounced`, `CounterExact`, `NoOverdueSession`,
`TimesInOrder`, `SessionsNest` and `BilledInFull`, with and without a rate cap. None is
inductive, since between a visit and its last send the connector, the reader and the
counter disagree. `FleetInv` says how: the sends pending for a connector are in time order
up to its horizon (`OrderOK`; a running session may still be stopped with any time after
its last reading), at most one of them is a session event and it fits the session the
reader knows (`NestOK`, `Fits`), a pending status is the connector's (`StatusOK`), and the
counter is the number of sessions it has seen start and not stop (`Counted`), where an
update on its way belongs to the connector whose status comes last (`CountInv`). Billing
rests on `Tally`: a session has charged no more than full power since its start, exactly
that below the taper, and no less than its last reading, and keeps the tariff of its start. The proof first shows that `partition`
gives disjoint ranges that cover the roster (`GroupRanges`, `OneOwner`), then for each kind
of visit that its list of operations fits (`StartOK`, `StopOK`, ..., gathered in
`VisitOK`), then that sends and counter updates keep the rest.

**Warehouse** (`WarehouseProofs`, `SumProofs`; `EventAssumption`, which wants at least one
event because the calendar ends with the last one's day). `WarehouseTypeCorrect`;
`CommittedNeverLost`, `RollupCovers` and `RecomputeRepairs` prove `CommittedRowsLanded`,
`RollupNeverUnderstates` and `ReconcileRepairs`. `WarehouseInv` counts a block as landed
and as summed from its push on, before its commit (`PushedLanded`, `Covered`), says that
what the SELECT has read makes up for the DELETE (`Refilled`), and that an overwrite nobody
disturbs reads what `FINAL` reads (`Undisturbed`). The sums are folds over sets, for which
no induction is available: `SumProofs` takes a smallest subset for which a fact fails and
removes an element.

Only model-checked: liveness (`EventuallyDelivered`, `EventuallyCommitted`, `NeverBlocked`,
`EventuallyCurrent`, `EventuallyReleased`, `EngineCatchesUp`), which needs fairness and
ENABLED.

## 5. Not modelled

- Configuration (defaults and parsing; `Fleet` states the rules of the simulator's
  `LoadConfig` it rests on), metrics exposition and lag gauges: no state after start-up.
- The reports A1-A3, A5, A6 and the dashboards: read-only SQL; A4's revenue is
  `FinalRevenue`. The PSI statistics are numeric; the gate's outcome is a choice.
- The dead-letter tables of ClickHouse (the same engine and one plain insert) and the
  13-month TTL, so that `CommittedRowsLanded` speaks of the rows of these months.
- Rounding and units of meter values, vehicles, coordinates.
- A client that gives up on an INSERT which the server still finishes after the next
  run's DELETE: the code sets no time-outs of its own to model it from.

## 6. Plan

1. Done: the modules of section 2, and the proofs of section 4.
2. Possible: the delay queue, `AtLeastOnce` and `Warehouse` composed into one
   specification, for exact results of the `FINAL` queries end to end.
