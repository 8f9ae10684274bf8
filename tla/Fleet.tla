------------------------------- MODULE Fleet -------------------------------
(***************************************************************************)
(* The simulated charging fleet: runSimulation and stepGroup               *)
(* (simulator/main.go), the sessions of model.go and the shared session    *)
(* counter of metrics.go.                                                  *)
(*                                                                         *)
(* The stations are partitioned over group goroutines.  On a tick a group  *)
(* reads the simulated clock once and visits each of its stations (the     *)
(* heartbeat) and connectors.  A group alone touches its connectors, so a  *)
(* visit is one step; what it shares with the other groups, the sends and  *)
(* the counter, it does afterwards in the code's order, one step each.     *)
(*                                                                         *)
(* Time, energy, charge and money are small integers.  Random draws are    *)
(* choices.  What Send does with an event is DelayQueue's.                 *)
(***************************************************************************)
EXTENDS Integers, Sequences, FiniteSets

CONSTANTS
    StationCount,    \* station_count; a station is its place in the roster
    Outlets,         \* Outlets[s]: how many connectors station s has
    NumCPU,          \* runtime.NumCPU()
    RateCap,         \* target_events_per_sec; 0 means no limiter
    SessionTimes,    \* how long a session may be planned for
    MeterTimes,      \* meterInterval
    IdleTimes,       \* idleGap, and the first idle time
    DownTimes,       \* downtime
    BeatTimes,       \* time between two heartbeats
    FaultRate,       \* fault_rate_per_hour
    Arrivals,        \* state of charge of an arriving vehicle
    Full, TaperAt,   \* a full battery, and where charging slows down
    Fast,            \* the power below TaperAt
    Taper,           \* Taper[soc]: the power from TaperAt on, decreasing but never zero
    Tariffs,         \* tariffCatalog: price per energy off and in the peak window
    PeakTariff,      \* the tariff pickTariff takes only in the peak window
    PeakTimes,       \* the times inside a peak window
    MaxTime          \* bound on the clock

\* The rules of LoadConfig this model rests on.
LoadConfig ==
    /\ StationCount \in Nat \ {0}
    /\ Outlets \in [1 .. StationCount -> Nat \ {0}]
    /\ MeterTimes \subseteq Nat \ {0}
    /\ SessionTimes \subseteq Nat \ {0}
    /\ RateCap \in Nat
    /\ FaultRate \in Nat

ASSUME ConfigAssumption == LoadConfig

ASSUME PhysicsAssumption ==
    /\ MaxTime \in Nat /\ NumCPU \in Nat
    /\ IdleTimes \subseteq Nat /\ DownTimes \subseteq Nat \ {0} /\ BeatTimes \subseteq Nat \ {0}
    /\ Full \in Nat /\ TaperAt \in 0 .. Full /\ Arrivals \subseteq 0 .. TaperAt
    /\ Fast \in Nat \ {0} /\ Taper \in [TaperAt .. Full -> 1 .. Fast]
    /\ \A a, b \in TaperAt .. Full : a <= b => Taper[a] >= Taper[b]
    /\ \A t \in Tariffs : t.base \in Nat /\ t.peak \in Nat

\* partition: contiguous slices of equal size, the last one possibly smaller.
partition(stations, workers) ==
    LET k == IF workers < 1 THEN 1 ELSE IF workers > stations THEN stations ELSE workers
        size == (stations + k - 1) \div k
    IN [i \in 1 .. (stations + size - 1) \div size |->
          [first |-> (i - 1) * size + 1,
           last  |-> IF i * size > stations THEN stations ELSE i * size]]

Groups == partition(StationCount, IF NumCPU < 2 THEN 2 ELSE NumCPU)

StationIds == 1 .. StationCount

\* Connector i of station s; what a tick visits besides is the station, <<s, 0>>.
Connectors == UNION {{<<s, i>> : i \in 1 .. Outlets[s]} : s \in StationIds}

\* What the loops over stations and connectors come to after v; from is 0 where
\* the station itself is visited before its connectors.
After(v, from) == IF v[2] < Outlets[v[1]] THEN <<v[1], v[2] + 1>> ELSE <<v[1] + 1, from>>

VARIABLES
    clock,      \* simNow()
    cancelled,  \* the simulation's context is cancelled
    boot,       \* the connector whose first status main sends next
    now,        \* now[g]: the time of the group's last tick
    turn,       \* turn[g]: what the tick visits next
    work,       \* work[g]: sends and counter updates of the visit under way
    returned,   \* the groups whose goroutine has returned
    conn,       \* conn[c]: status and session of a connector
    beat,       \* beat[s]: nextHeartbeatAt
    out,        \* out[v]: what a reader of the sent events knows of v
    n,          \* sessionCounter.n
    gauge       \* the ActiveSessions gauge

groupVars == <<now, turn, work, returned>>
fleetVars == <<conn, beat>>
counterVars == <<n, gauge>>
vars == <<clock, cancelled, boot, groupVars, fleetVars, out, counterVars>>

GroupIds == 1 .. Len(Groups)

\* The group that owns station s.
Owner(s) == CHOOSE g \in GroupIds : s \in Groups[g].first .. Groups[g].last

\* All first statuses are sent; the group's tick has visited everything.
Booted == boot[1] > StationCount
TurnOver(g) == turn[g][1] > Groups[g].last

\* A reader that has heard nothing of a connector.
Unheard == [last |-> [type |-> "none", ts |-> 0], status |-> "", open |-> <<>>]

Charging(c) == conn[c].status = "Charging"

Init ==
    /\ clock = 0
    /\ cancelled = FALSE
    /\ boot = <<1, 1>>
    /\ now = [g \in GroupIds |-> 0]
    /\ turn = [g \in GroupIds |-> <<Groups[g].last + 1, 0>>]
    /\ work = [g \in GroupIds |-> <<>>]
    /\ returned = {}
    /\ conn \in [Connectors -> {[status |-> "Available", until |-> t] : t \in IdleTimes}]
    /\ beat \in [StationIds -> BeatTimes]
    /\ out = [v \in Connectors \cup {<<s, 0>> : s \in StationIds} |-> Unheard]
    /\ n = 0
    /\ gauge = 0

----------------------------------------------------------------------------
(* Events (model.go).  A session is known by its connector and its start. *)

statusChange(c, t, status) ==
    [type |-> "STATUS_CHANGE", conn |-> c[2], ts |-> t, status |-> status]

faultAlert(c, t) == [type |-> "FAULT_ALERT", conn |-> c[2], ts |-> t]

heartbeat(t) == [type |-> "HEARTBEAT", conn |-> 0, ts |-> t]

inPeakWindow(t) == t \in PeakTimes

\* pickTariff: the peak tariff is only ever picked inside the window.
pickTariff(t) == IF inPeakWindow(t) THEN Tariffs ELSE Tariffs \ {PeakTariff}

chargingPower(s) == IF s.soc < TaperAt THEN Fast ELSE Taper[s.soc]

\* Mutated: the state of charge is not capped.
ChargeBeyondFull(s, t) ==
    LET added == chargingPower(s) * (t - s.lastMeterAt) IN
    [s EXCEPT !.energy = @ + added, !.soc = @ + added, !.lastMeterAt = t]

\* The session after charging up to time t.
Charge(s, t) ==
    LET added == chargingPower(s) * (t - s.lastMeterAt) IN
    [s EXCEPT !.energy = @ + added,
              !.soc = IF @ + added > Full THEN Full ELSE @ + added,
              !.lastMeterAt = t]

\* Mutated: a stop is always stamped with the planned end.
stopAtPlannedEnd(s, t) == s.endsAt

effectiveStopAt(s, t) == IF s.soc < Full /\ s.endsAt < t THEN s.endsAt ELSE t

\* Mutated: the interval since the last reading is not added.
billWithoutTail(s, t) == s

\* The totals of a session that stops at t: the tail since the last reading is
\* added, unless the battery is full already.
FinalTotals(s, t) == IF s.soc < Full /\ t > s.lastMeterAt THEN Charge(s, t) ELSE s

\* The price of a stop at time t, and whether a premium was charged.
rate(tariff, t) == IF inPeakWindow(t) THEN tariff.peak ELSE tariff.base
peakPriced(tariff, t) == inPeakWindow(t) /\ tariff.peak > tariff.base

SessionEvent(type, c, s, t) ==
    [type |-> type, conn |-> c[2], ts |-> t, session |-> s.startedAt, tariff |-> s.tariff,
     energy |-> s.energy, soc |-> s.soc]

startEvent(c, s) == SessionEvent("SESSION_START", c, s, s.startedAt)

stopEvent(c, s, t) ==
    LET total == FinalTotals(s, t) IN
    [type |-> "SESSION_STOP", conn |-> c[2], ts |-> t, session |-> s.startedAt,
     tariff |-> s.tariff, energy |-> total.energy, soc |-> total.soc,
     cost |-> total.energy * rate(s.tariff, t), peak |-> peakPriced(s.tariff, t)]

----------------------------------------------------------------------------
(* The start of runSimulation. *)

\* What the reader knows after event e: the last event, the last status told, and
\* the start and the latest reading of the session that is open.
Hear(o, e) ==
    [last |-> e,
     status |-> IF e.type = "STATUS_CHANGE" THEN e.status ELSE o.status,
     open |-> CASE e.type = "SESSION_START" -> <<e, e>>
                [] e.type = "METER_UPDATE" /\ o.open # <<>> -> <<o.open[1], e>>
                [] e.type = "SESSION_STOP" -> <<>>
                [] OTHER -> o.open]

\* Send with a limiter drops the event once the context is cancelled.
Send(s, e) ==
    out' = IF cancelled /\ RateCap > 0 THEN out
           ELSE [out EXCEPT ![<<s, e.conn>>] = Hear(@, e)]

\* One send of emitInitialStatuses, before there is any group.
EmitInitialStatus ==
    /\ ~Booted
    /\ Send(boot[1], statusChange(boot, 0, "Available"))
    /\ boot' = After(boot, 1)
    /\ UNCHANGED <<clock, cancelled, groupVars, fleetVars, counterVars>>

----------------------------------------------------------------------------
(* stepGroup *)

ToSend(s, e) == [op |-> "send", station |-> s, event |-> e]
Count(by) == [op |-> "count", by |-> by]

\* The group's tick: simNow() is read once for all that the tick visits.
Tick(g) ==
    /\ Booted
    /\ g \notin returned
    /\ TurnOver(g) /\ work[g] = <<>>
    /\ clock > now[g]      \* dt <= 0: continue
    /\ now' = [now EXCEPT ![g] = clock]
    /\ turn' = [turn EXCEPT ![g] = <<Groups[g].first, 0>>]
    /\ UNCHANGED <<clock, cancelled, boot, work, returned, fleetVars, out, counterVars>>

\* The group's visit of v leaves ops to do.
Visit(g, v, ops) ==
    /\ work[g] = <<>>
    /\ ~TurnOver(g)
    /\ v = turn[g]
    /\ turn' = [turn EXCEPT ![g] = After(v, 0)]
    /\ work' = [work EXCEPT ![g] = ops]
    /\ UNCHANGED <<clock, cancelled, boot, now, returned, out, counterVars>>

Become(c, state) == conn' = [conn EXCEPT ![c] = state]

\* What the random draws may set: the next reading, the planned end of a session,
\* the end of an idle time and of an outage.
NextMeter(t) == {t + d : d \in MeterTimes}
EndsAt(t) == {t + d : d \in SessionTimes}
Idling(t) == {[status |-> "Available", until |-> t + d] : d \in IdleTimes}
Downtime(t) == {[status |-> "Faulted", until |-> t + d] : d \in DownTimes}

\* The station emits its heartbeat and sets the next one.
Heartbeat(g, v) ==
    /\ v[2] = 0
    /\ now[g] > beat[v[1]]
    /\ Visit(g, v, <<ToSend(v[1], heartbeat(now[g]))>>)
    /\ \E d \in BeatTimes : beat' = [beat EXCEPT ![v[1]] = now[g] + d]
    /\ UNCHANGED conn

\* Mutated: recovery is not announced.
RecoverSilently(g, c) ==
    /\ conn[c].status = "Faulted"
    /\ now[g] > conn[c].until
    /\ Visit(g, c, <<>>)
    /\ \E state \in Idling(now[g]) : Become(c, state)
    /\ UNCHANGED beat

Recover(g, c) ==
    /\ conn[c].status = "Faulted"
    /\ now[g] > conn[c].until
    /\ Visit(g, c, <<ToSend(c[1], statusChange(c, now[g], "Available"))>>)
    /\ \E state \in Idling(now[g]) : Become(c, state)
    /\ UNCHANGED beat

\* A fault of a connector that has no session.
FaultWhenIdle(g, c) ==
    /\ conn[c].status = "Available"
    /\ FaultRate > 0
    /\ Visit(g, c, <<ToSend(c[1], faultAlert(c, now[g])),
                     ToSend(c[1], statusChange(c, now[g], "Faulted"))>>)
    /\ \E state \in Downtime(now[g]) : Become(c, state)
    /\ UNCHANGED beat

startSession(g, c) ==
    /\ conn[c].status = "Available"
    /\ now[g] > conn[c].until
    /\ \E end \in EndsAt(now[g]), meter \in NextMeter(now[g]),
           soc \in Arrivals, tariff \in pickTariff(now[g]) :
         LET s == [status |-> "Charging", startedAt |-> now[g], endsAt |-> end,
                   energy |-> 0, soc |-> soc, tariff |-> tariff,
                   lastMeterAt |-> now[g], nextMeterAt |-> meter]
         IN /\ Visit(g, c, <<ToSend(c[1], startEvent(c, s)), Count(1),
                             ToSend(c[1], statusChange(c, now[g], "Charging"))>>)
            /\ Become(c, s)
    /\ UNCHANGED beat

\* Mutated: a fault closes the session but leaves the connector in it.
FaultKeepsSession(g, c) ==
    /\ Charging(c)
    /\ FaultRate > 0
    /\ Visit(g, c, <<ToSend(c[1], faultAlert(c, now[g])),
                     ToSend(c[1], stopEvent(c, conn[c], now[g])), Count(-1)>>)
    /\ UNCHANGED fleetVars

\* A fault aborts the session: alert, stop, counter, status.
FaultWhenCharging(g, c) ==
    /\ Charging(c)
    /\ FaultRate > 0
    /\ Visit(g, c, <<ToSend(c[1], faultAlert(c, now[g])), ToSend(c[1], stopEvent(c, conn[c], now[g])),
                     Count(-1), ToSend(c[1], statusChange(c, now[g], "Faulted"))>>)
    /\ \E state \in Downtime(now[g]) : Become(c, state)
    /\ UNCHANGED beat

\* Mutated: only a full battery ends a session.
OverWhenFull(s, t) == s.soc >= Full

\* The planned end has passed, or the battery is full.
SessionOver(s, t) == t > s.endsAt \/ s.soc >= Full

\* Mutated: counter.stop is forgotten.
StopUncounted(g, c) ==
    /\ Charging(c)
    /\ SessionOver(conn[c], now[g])
    /\ Visit(g, c, <<ToSend(c[1], stopEvent(c, conn[c], effectiveStopAt(conn[c], now[g]))),
                     ToSend(c[1], statusChange(c, now[g], "Available"))>>)
    /\ \E state \in Idling(now[g]) : Become(c, state)
    /\ UNCHANGED beat

stopSession(g, c) ==
    /\ Charging(c)
    /\ SessionOver(conn[c], now[g])
    /\ Visit(g, c, <<ToSend(c[1], stopEvent(c, conn[c], effectiveStopAt(conn[c], now[g]))),
                     Count(-1), ToSend(c[1], statusChange(c, now[g], "Available"))>>)
    /\ \E state \in Idling(now[g]) : Become(c, state)
    /\ UNCHANGED beat

meterTick(g, c) ==
    /\ Charging(c)
    /\ ~SessionOver(conn[c], now[g])
    /\ now[g] > conn[c].nextMeterAt
    /\ \E meter \in NextMeter(now[g]) :
         LET s == [Charge(conn[c], now[g]) EXCEPT !.nextMeterAt = meter]
         IN /\ Visit(g, c, <<ToSend(c[1], SessionEvent("METER_UPDATE", c, s, now[g]))>>)
            /\ Become(c, s)
    /\ UNCHANGED beat

\* Nothing is due at v.
Pass(g, v) ==
    /\ \/ v[2] = 0 /\ now[g] <= beat[v[1]]
       \/ v[2] # 0 /\ conn[v].status # "Charging" /\ now[g] <= conn[v].until
       \/ v[2] # 0 /\ Charging(v) /\ ~SessionOver(conn[v], now[g]) /\ now[g] <= conn[v].nextMeterAt
    /\ Visit(g, v, <<>>)
    /\ UNCHANGED fleetVars

----------------------------------------------------------------------------
(* What a visit left to do, in the code's order. *)

\* The group takes its next pending operation, leaving left to do.
Step(g, op, left) ==
    /\ work[g] # <<>>
    /\ work[g][1].op = op
    /\ work' = [work EXCEPT ![g] = left]
    /\ UNCHANGED <<clock, cancelled, boot, now, turn, returned, fleetVars>>

SendNext(g) ==
    /\ Step(g, "send", Tail(work[g]))
    /\ Send(work[g][1].station, work[g][1].event)
    /\ UNCHANGED counterVars

\* The first half of counter.start and counter.stop: atomic.AddInt64.
AddInt64(g) ==
    /\ Step(g, "count", [work[g] EXCEPT ![1] = [op |-> "set", value |-> n + work[g][1].by]])
    /\ n' = n + work[g][1].by
    /\ UNCHANGED <<out, gauge>>

\* The second half: the gauge is set to what AddInt64 returned, which by now may be
\* older than what another group has set.
SetGauge(g) ==
    /\ Step(g, "set", Tail(work[g]))
    /\ gauge' = work[g][1].value
    /\ UNCHANGED <<out, n>>

----------------------------------------------------------------------------
(* The clock and the end. *)

Advance ==
    /\ clock < MaxTime
    /\ clock' = clock + 1
    /\ UNCHANGED <<cancelled, boot, groupVars, fleetVars, out, counterVars>>

Cancel ==
    /\ ~cancelled
    /\ cancelled' = TRUE
    /\ UNCHANGED <<clock, boot, groupVars, fleetVars, out, counterVars>>

\* The select sees the cancelled context; it may see one more tick first.
Return(g) ==
    /\ Booted
    /\ cancelled
    /\ g \notin returned
    /\ TurnOver(g) /\ work[g] = <<>>
    /\ returned' = returned \cup {g}
    /\ UNCHANGED <<clock, cancelled, boot, now, turn, work, fleetVars, out, counterVars>>

----------------------------------------------------------------------------
VisitNext(g) ==
    /\ ~TurnOver(g)
    /\ LET v == turn[g] IN
       \/ Pass(g, v)
       \/ Heartbeat(g, v)
       \/ /\ v[2] # 0
          /\ \/ Recover(g, v)
             \/ FaultWhenIdle(g, v)
             \/ startSession(g, v)
             \/ FaultWhenCharging(g, v)
             \/ stopSession(g, v)
             \/ meterTick(g, v)

GroupStep(g) == Tick(g) \/ VisitNext(g) \/ SendNext(g) \/ AddInt64(g) \/ SetGauge(g)

\* wg.Wait: every group has returned, and runSimulation with them.
Wait == returned = GroupIds /\ UNCHANGED vars

Next ==
    \/ EmitInitialStatus
    \/ \E g \in GroupIds : GroupStep(g) \/ Return(g)
    \/ Advance
    \/ Cancel
    \/ Wait

Spec == Init /\ [][Next]_vars

----------------------------------------------------------------------------
(* Properties *)

Times == 0 .. MaxTime
Amounts == 0 .. Fast * MaxTime
ConnectorStates ==
    [status : {"Available", "Faulted"}, until : Nat]
    \cup [status : {"Charging"}, startedAt : Times, endsAt : Nat, energy : Amounts,
          soc : 0 .. Full, tariff : Tariffs, lastMeterAt : Times, nextMeterAt : Nat]

\* Types: the fields of a connector, and what a group still has to do.
TypeOK ==
    /\ clock \in Times
    /\ cancelled \in BOOLEAN
    /\ now \in [GroupIds -> Times]
    /\ \A g \in GroupIds :
         /\ turn[g] \in Nat \X Nat
         /\ \A i \in DOMAIN work[g] : work[g][i].op \in {"send", "count", "set"}
    /\ returned \subseteq GroupIds
    /\ conn \in [Connectors -> ConnectorStates]
    /\ beat \in [StationIds -> Nat]
    /\ \A v \in DOMAIN out : out[v].last.ts \in Times
    /\ n \in Int /\ gauge \in Int

\* The event that this step sends for connector c, if any.
Sends(c) == out'[c] # out[c]

\* A connector's events leave in the order of their timestamps, although a stop
\* is stamped with a time before the tick that found it: the compare-and-set of
\* the live state drops what is older than what it has seen.
TimesInOrder ==
    [][\A c \in Connectors : Sends(c) => out'[c].last.ts >= out[c].last.ts]_vars

\* On a connector a session is started, metered and stopped before the next one
\* starts, whatever faults interrupt it: a start finds no session open, and a
\* reading or a stop finds its own.
SessionsNest ==
    [][\A c \in Connectors : Sends(c) =>
         LET e == out'[c].last IN
         /\ e.type = "SESSION_START" => out[c].open = <<>>
         /\ e.type \in {"METER_UPDATE", "SESSION_STOP"} =>
              out[c].open # <<>> /\ out[c].open[1].session = e.session]_vars

\* A stop is priced by the tariff that the start announced and for the time it
\* carries, not for the later tick that found it, and it is flagged as peak exactly
\* where that is a premium: the peak revenue of A4 and of the rollup is this flag.
Priced(start, stop) ==
    /\ stop.cost = stop.energy * rate(start.tariff, stop.ts)
    /\ stop.peak <=> rate(start.tariff, stop.ts) > start.tariff.base

\* A stop bills the whole session: all of the time since the start at full power
\* as long as that stays below the taper, never more than that, and never less
\* than a reading already sent, all of it at the price above.
BilledInFull ==
    [][\A c \in Connectors : (Sends(c) /\ out'[c].last.type = "SESSION_STOP") =>
         LET stop == out'[c].last
             start == out[c].open[1]
             full == Fast * (stop.ts - start.ts)
         IN /\ out[c].open[2].energy <= stop.energy
            /\ stop.energy <= full
            /\ start.soc + full <= TaperAt => stop.energy = full
            /\ Priced(start, stop)]_vars

\* No group has anything left of a visit to do.
AtRest == \A g \in GroupIds : work[g] = <<>>

\* Unless shutdown drops them, the sent status changes tell each connector's state:
\* a reader of the stream knows it once the visit is over.
StatusAnnounced ==
    \A c \in Connectors :
        (~cancelled /\ Booted /\ work[Owner(c[1])] = <<>>) => out[c].status = conn[c].status

\* The shared counter never goes negative and counts the sessions that are open,
\* whatever the groups' updates interleave with.
CounterExact ==
    /\ n >= 0
    /\ AtRest => n = Cardinality({c \in Connectors : Charging(c)})

\* A tick leaves no session open whose planned end has passed, however many ticks
\* have collapsed into it; until its next tick a group's sessions are in time.
NoOverdueSession ==
    \A c \in Connectors : LET g == Owner(c[1]) IN
        (TurnOver(g) /\ Charging(c)) => conn[c].endsAt >= now[g]
=============================================================================
