----------------------------- MODULE Warehouse -----------------------------
(***************************************************************************)
(* ClickHouse and the daily batch job.  The Kafka engine drains the clean  *)
(* topic into events_raw and, through the view on it, into the rollup      *)
(* revenue_hourly (deploy/clickhouse/init); the manually triggered DAG     *)
(* ev_analytics_daily recomputes one day of the rollup from events_raw.    *)
(*                                                                         *)
(* A row is what Flatten makes of an event.  Time is cut down to days,     *)
(* rollup keys to the day and the peak flag, money to small integers.      *)
(* What the analytics group writes to the clean topic is any event, and    *)
(* some of them more than once (AtLeastOnce).                              *)
(***************************************************************************)
EXTENDS Integers, Sequences, FiniteSetsExt, Functions

CONSTANTS
    Events,         \* nested events: type, day, cost, peak, meter
    NoMeter,        \* an event without meter
    PartitionOf,    \* PartitionOf[e]: the station's partition of the clean topic
    ClosedDays,     \* the days of the previous calendar month
    MaxDuplicates,  \* bound on the rows that the clean topic holds once more
    MaxRuns,        \* bound on the runs of the DAG
    MaxFaults       \* bound on crashes, failed pushes and failed tasks

ASSUME EventAssumption ==
    /\ IsFiniteSet(Events) /\ Events # {}
    /\ \A e \in Events : e.day \in Nat \ {0} /\ e.cost \in Nat /\ e.peak \in BOOLEAN
    /\ Events \subseteq DOMAIN PartitionOf
    /\ MaxDuplicates \in Nat /\ MaxRuns \in Nat /\ MaxFaults \in Nat

Partitions == {PartitionOf[e] : e \in Events}

\* Flatten: the sub-objects become columns, zero where the event has none.
Flatten(e) ==
    [id |-> e, event_type |-> e.type, day |-> e.day, cost_eur |-> e.cost,
     is_peak_priced |-> IF e.peak THEN 1 ELSE 0,
     energy_kwh |-> IF e.meter = NoMeter THEN 0 ELSE e.meter]

Rows == {Flatten(e) : e \in Events}
Cost == [r \in Rows |-> r.cost_eur]

Days == 0 .. Max({e.day : e \in Events})
Keys == Days \X {0, 1}

VARIABLES
    clean,      \* clean[p]: the rows of a partition of the clean topic
    offset,     \* offset[p]: what the Kafka engine has committed
    stage,      \* stage[p]: how far the block in flight has been pushed
    upto,       \* upto[p]: where the block in flight ends
    raw,        \* raw[r]: the copies of a row in events_raw
    revenue,    \* revenue[k]: revenue_eur of a key of revenue_hourly
    task,       \* what the DAG run does next
    target,     \* the day it recomputes
    recomputed, \* what the SELECT of the INSERT has read
    runs,       \* runs triggered
    faults,     \* crashes and failures so far
    hole,       \* history: the days a run deleted and died before re-inserting
    raced       \* history: rows of the target day arrived during the overwrite

queueVars == <<clean, offset, stage, upto>>
tableVars == <<raw, revenue>>
dagVars == <<task, target, recomputed, runs>>
history == <<hole, raced>>
vars == <<queueVars, tableVars, dagVars, faults, history>>

Nothing == [b \in {0, 1} |-> 0]

Init ==
    /\ clean = [p \in Partitions |-> <<>>]
    /\ offset = [p \in Partitions |-> 0]
    /\ stage = [p \in Partitions |-> "idle"]
    /\ upto = [p \in Partitions |-> 0]
    /\ raw = [r \in Rows |-> 0]
    /\ revenue = [k \in Keys |-> 0]
    /\ task = "none"
    /\ target = 0
    /\ recomputed = Nothing
    /\ runs = 0
    /\ faults = 0
    /\ hole = {}
    /\ raced = FALSE

\* How often row r is among the first n of partition p, from m on.
Count(p, r, m, n) == Cardinality({i \in m .. n : clean[p][i] = r})

\* The rows of the block in flight.
InBlock(p, r) == Count(p, r, offset[p] + 1, upto[p])

Stops(d, b) ==
    {r \in Rows : r.event_type = "SESSION_STOP" /\ r.day = d /\ r.is_peak_priced = b}

\* A block that has stops of day d.
Touches(p, d) == \E b \in {0, 1} : \E r \in Stops(d, b) : InBlock(p, r) > 0

Overwriting == task \in {"read", "insert"}
Race(p) == raced' = (raced \/ (Overwriting /\ Touches(p, target)))

----------------------------------------------------------------------------
(* The clean topic and the Kafka engine. *)

Produced(r) == Count(PartitionOf[r.id], r, 1, Len(clean[PartitionOf[r.id]]))

\* The analytics group writes a row, for the first time or once more.
Produce(e) ==
    LET p == PartitionOf[e]
        again(r) == IF Produced(r) > 1 THEN Produced(r) - 1 ELSE 0
    IN /\ Produced(Flatten(e)) > 0 => MapThenSumSet(again, Rows) < MaxDuplicates
       /\ clean' = [clean EXCEPT ![p] = Append(@, Flatten(e))]
       /\ UNCHANGED <<offset, stage, upto, tableVars, dagVars, faults, history>>

\* Mutated: the last row of the topic is left for the next block.
PollShort(p) ==
    /\ stage[p] = "idle"
    /\ stage' = [stage EXCEPT ![p] = "polled"]
    /\ \E end \in offset[p] + 1 .. Len(clean[p]) - 1 : upto' = [upto EXCEPT ![p] = end]
    /\ UNCHANGED <<clean, offset, tableVars, dagVars, faults, history>>

\* Mutated: a row is counted that is not there yet.
PollPast(p) ==
    /\ stage[p] = "idle"
    /\ stage' = [stage EXCEPT ![p] = "polled"]
    /\ \E end \in offset[p] + 1 .. Len(clean[p]) + 1 : upto' = [upto EXCEPT ![p] = end]
    /\ UNCHANGED <<clean, offset, tableVars, dagVars, faults, history>>

\* events_queue takes some of what there is as one block: kafka_max_block_size rows
\* or what has come by the flush interval, on a retry perhaps fewer than before.
Poll(p) ==
    /\ stage[p] = "idle"
    /\ stage' = [stage EXCEPT ![p] = "polled"]
    /\ \E end \in offset[p] + 1 .. Len(clean[p]) : upto' = [upto EXCEPT ![p] = end]
    /\ UNCHANGED <<clean, offset, tableVars, dagVars, faults, history>>

\* events_mv inserts the block into events_raw.
events_mv(p) ==
    /\ stage[p] = "polled"
    /\ raw' = [r \in Rows |-> raw[r] + InBlock(p, r)]
    /\ stage' = [stage EXCEPT ![p] = "landed"]
    /\ Race(p)
    /\ UNCHANGED <<clean, offset, upto, revenue, dagVars, faults, hole>>

\* What a block adds to a key: every row counts, copies too.
BlockRevenue(p, d, b) ==
    SumFunctionOnSet([r \in Rows |-> InBlock(p, r) * Cost[r]], Stops(d, b))

\* revenue_hourly_mv fires on the same block.
revenue_hourly_mv(p) ==
    /\ stage[p] = "landed"
    /\ revenue' = [k \in Keys |-> revenue[k] + BlockRevenue(p, k[1], k[2])]
    /\ stage' = [stage EXCEPT ![p] = "summed"]
    /\ Race(p)
    /\ UNCHANGED <<clean, offset, upto, raw, dagVars, faults, hole>>

\* Mutated: the offsets are committed as soon as the block is taken.
CommitOnPoll(p) ==
    /\ stage[p] # "idle" /\ upto[p] > offset[p]
    /\ offset' = [offset EXCEPT ![p] = upto[p]]
    /\ stage' = [stage EXCEPT ![p] = "idle"]
    /\ UNCHANGED <<clean, upto, tableVars, dagVars, faults, history>>

\* Mutated: the offsets are committed before the views of events_raw have run.
CommitOnLanding(p) ==
    /\ stage[p] \in {"landed", "summed"}
    /\ offset' = [offset EXCEPT ![p] = upto[p]]
    /\ stage' = [stage EXCEPT ![p] = "idle"]
    /\ UNCHANGED <<clean, upto, tableVars, dagVars, faults, history>>

\* The engine commits the block's offsets after all views have it.
Commit(p) ==
    /\ stage[p] = "summed"
    /\ offset' = [offset EXCEPT ![p] = upto[p]]
    /\ stage' = [stage EXCEPT ![p] = "idle"]
    /\ UNCHANGED <<clean, upto, tableVars, dagVars, faults, history>>

\* A background merge replaces the copies of a row by one.  The TTL of 13 months,
\* which merges apply too, is beyond the days modelled.
Merge(r) ==
    /\ raw[r] > 1
    /\ raw' = [raw EXCEPT ![r] = 1]
    /\ UNCHANGED <<queueVars, revenue, dagVars, faults, history>>

Fail == faults < MaxFaults /\ faults' = faults + 1

\* A push fails or the partition is revoked: the block is taken again.
PushFails(p) ==
    /\ stage[p] # "idle"
    /\ Fail
    /\ stage' = [stage EXCEPT ![p] = "idle"]
    /\ upto' = [upto EXCEPT ![p] = offset[p]]
    /\ UNCHANGED <<clean, offset, tableVars, dagVars, history>>

\* The server restarts: no block survives, the tables do.
CrashServer ==
    /\ \E p \in Partitions : stage[p] # "idle"
    /\ Fail
    /\ stage' = [p \in Partitions |-> "idle"]
    /\ upto' = offset
    /\ UNCHANGED <<clean, offset, tableVars, dagVars, history>>

----------------------------------------------------------------------------
(* The DAG ev_analytics_daily: max_active_runs = 1, tasks in sequence. *)

Landed == {r \in Rows : raw[r] > 0}

\* Revenue by the FINAL read of A4 and of the recompute: each row once.
FinalRevenue(d, b) == SumFunctionOnSet(Cost, Stops(d, b) \cap Landed)

Goto(from, to) == task = from /\ task' = to

Trigger ==
    /\ runs < MaxRuns
    /\ Goto("none", "freshness")
    /\ runs' = runs + 1
    /\ UNCHANGED <<queueVars, tableVars, target, recomputed, faults, history>>

\* Fails on an empty table; a stale stream is TaskFails.
freshness_check ==
    /\ Goto("freshness", IF Landed = {} THEN "none" ELSE "optimize")
    /\ UNCHANGED <<queueVars, tableVars, target, recomputed, runs, faults, history>>

\* OPTIMIZE of the previous month; with fewer than two parts nothing changes.
optimize_closed_partition ==
    /\ Goto("optimize", "bounds")
    /\ raw' = [r \in Rows |-> IF r.day \in ClosedDays /\ raw[r] > 1 THEN 1 ELSE raw[r]]
    /\ UNCHANGED <<queueVars, revenue, target, recomputed, runs, faults, history>>

\* The day before the latest event's; an empty table is skipped.
reconcile_bounds ==
    /\ Goto("bounds", IF Landed = {} THEN "gate" ELSE "delete")
    /\ target' = IF Landed = {} THEN target ELSE Max({r.day : r \in Landed}) - 1
    /\ UNCHANGED <<queueVars, tableVars, recomputed, runs, faults, history>>

\* Mutated: the rows of the streaming view are kept.
KeepStreamedRows ==
    /\ Goto("delete", "read")
    /\ raced' = FALSE
    /\ UNCHANGED <<queueVars, tableVars, target, recomputed, runs, faults, hole>>

\* ALTER TABLE ... DELETE of the day, synchronous.
DeleteDay ==
    /\ Goto("delete", "read")
    /\ revenue' = [k \in Keys |-> IF k[1] = target THEN 0 ELSE revenue[k]]
    /\ raced' = FALSE
    /\ UNCHANGED <<queueVars, raw, target, recomputed, runs, faults, hole>>

\* INSERT ... SELECT first reads the day with FINAL ...
SelectFinal ==
    /\ Goto("read", "insert")
    /\ recomputed' = [b \in {0, 1} |-> FinalRevenue(target, b)]
    /\ UNCHANGED <<queueVars, tableVars, target, runs, faults, history>>

\* ... and then adds the rows; SummingMergeTree sums them with what is there.
InsertDay ==
    /\ Goto("insert", "gate")
    /\ revenue' = [k \in Keys |-> revenue[k] + (IF k[1] = target THEN recomputed[k[2]] ELSE 0)]
    /\ recomputed' = Nothing
    /\ hole' = hole \ {target}
    /\ raced' = FALSE
    /\ UNCHANGED <<queueVars, raw, target, runs, faults>>

\* dq_psi_gate and enforce_ttl only read and report.
dq_psi_gate ==
    /\ Goto("gate", "ttl")
    /\ UNCHANGED <<queueVars, tableVars, target, recomputed, runs, faults, history>>

enforce_ttl ==
    /\ Goto("ttl", "none")
    /\ target' = 0
    /\ UNCHANGED <<queueVars, tableVars, recomputed, runs, faults, history>>

\* A task raises, before or after its statement took effect; no task is retried
\* and the rest of the run is not started.
TaskFails ==
    /\ task # "none"
    /\ Fail
    /\ task' = "none"
    /\ target' = 0
    /\ recomputed' = Nothing
    /\ hole' = IF Overwriting THEN hole \cup {target} ELSE hole
    /\ raced' = FALSE
    /\ UNCHANGED <<queueVars, tableVars, runs>>

----------------------------------------------------------------------------
Push(p) == Poll(p) \/ events_mv(p) \/ revenue_hourly_mv(p) \/ Commit(p)

Dag ==
    \/ freshness_check \/ optimize_closed_partition \/ reconcile_bounds
    \/ DeleteDay \/ SelectFinal \/ InsertDay \/ dq_psi_gate \/ enforce_ttl

Next ==
    \/ \E e \in Events : Produce(e)
    \/ \E p \in Partitions : Push(p) \/ PushFails(p)
    \/ \E r \in Rows : Merge(r)
    \/ CrashServer
    \/ Trigger \/ Dag \/ TaskFails

Spec == Init /\ [][Next]_vars

\* The engine keeps polling and pushing.
FairSpec == Spec /\ \A p \in Partitions : WF_vars(Push(p))

----------------------------------------------------------------------------
(* Properties *)

\* Types, and a block in flight lies within the topic after the offset.
TypeOK ==
    /\ \A p \in Partitions :
         /\ clean[p] \in Seq(Rows)
         /\ stage[p] \in {"idle", "polled", "landed", "summed"}
         /\ 0 <= offset[p] /\ offset[p] <= Len(clean[p])
         /\ stage[p] # "idle" => offset[p] < upto[p] /\ upto[p] <= Len(clean[p])
    /\ raw \in [Rows -> Nat]
    /\ revenue \in [Keys -> Nat]
    /\ task \in {"none", "freshness", "optimize", "bounds", "delete", "read", "insert",
                 "gate", "ttl"}
    /\ target \in Days
    /\ recomputed \in [{0, 1} -> Nat]
    /\ hole \subseteq Days /\ raced \in BOOLEAN

\* The rows whose offsets are committed.
Committed == {r \in Rows : Count(PartitionOf[r.id], r, 1, offset[PartitionOf[r.id]]) > 0}

\* A committed row is in events_raw from then on (the table's 13-month TTL is not
\* modelled): whatever crashes between the push and the commit, and whatever merges
\* replace, FINAL reads count it.
CommittedRowsLanded == Committed \subseteq Landed

\* The dashboard's rollup may overstate but never understates: a key holds at least
\* the cost of its committed stops, whatever order the views and the overwrite of the
\* day run in, except while the day is being overwritten or after a run died there.
RollupNeverUnderstates ==
    \A k \in Keys :
        \/ revenue[k] >= SumFunctionOnSet(Cost, Stops(k[1], k[2]) \cap Committed)
        \/ k[1] = target /\ Overwriting
        \/ k[1] \in hole

\* The recompute removes whatever the streaming view counted twice: if no row of the
\* day came in meanwhile, the day is exact when the INSERT is done.
ReconcileRepairs ==
    [][(InsertDay /\ ~raced) =>
         \A b \in {0, 1} : revenue'[<<target, b>>] = FinalRevenue(target, b)]_vars

\* ev_analytics_daily.py: the day's revenue is recomputed "EXACTLY from events_raw
\* FINAL (each event counted once ...)" and revenue_hourly is overwritten for the day.
ReconciledIsExact ==
    [][InsertDay =>
         \A b \in {0, 1} : revenue'[<<target, b>>] = FinalRevenue(target, b)]_vars

\* The engine catches up: in spite of crashes and failed pushes, whatever the clean
\* topic holds is committed, and with CommittedRowsLanded in events_raw, eventually.
EngineCatchesUp ==
    \A p \in Partitions : []<>(offset[p] = Len(clean[p]))
=============================================================================
