---------------------------- MODULE RealtimePath ----------------------------
(***************************************************************************)
(* The realtime consumer group: runRealtimeBatchGroup of consumer.go       *)
(* around realtimeHandler.applyBatch (realtime.go) and the Redis current   *)
(* state (redis_state.go).                                                 *)
(*                                                                         *)
(* A batch is validated, its valid events are written by one pipeline of   *)
(* compare-and-set scripts, a failed pipeline is tried once more, and the  *)
(* batch is committed whatever came of it.  Redis runs the pipeline's      *)
(* scripts one after the other and atomically each, so the scripts of two  *)
(* workers interleave, and a pipeline that fails has run any prefix.       *)
(*                                                                         *)
(* Left out: soc, which is written with every reading, as power is, but    *)
(* not by a stop that has none, and the metrics.  The registry snapshot    *)
(* does not change here (AnalyticsPath has the refresh).                   *)
(***************************************************************************)
EXTENDS ConsumerGroup

CONSTANTS
    Accepted,   \* the events Decode and Validate let through
    None        \* a hash field that is not set; a reading an event lacks

Types == {"SESSION_START", "METER_UPDATE", "SESSION_STOP", "STATUS_CHANGE",
          "FAULT_ALERT", "HEARTBEAT"}

\* An event has its type, station, connector and event time (in ms, from 1 on),
\* the status and the session it names ("" for none) and its power reading.
ASSUME EventsAssumption ==
    /\ Accepted \subseteq Events
    /\ \A e \in Events :
         /\ DOMAIN e = {"type", "station", "conn", "ts", "status", "session", "power"}
         /\ e.type \in Types
         /\ e.ts \in Nat \ {0}

\* The producer's key is the station id: all records of a station are in the
\* one partition its hash picks.
ASSUME StationAssumption ==
    \A log \in Logs : \A p, q \in Partitions : \A i \in 1 .. Len(log[p]) :
        \A j \in 1 .. Len(log[q]) : log[p][i].station = log[q][j].station => p = q

VARIABLES
    hash,     \* hash[k]: the current-state hash of key k
    applied,  \* applied[w]: the last message of the batch whose script has run
    attempt,  \* attempt[w]: 1 for the first pipeline, 2 for the retry
    lost,     \* history: events of a batch both of whose pipelines failed
    expired   \* history: keys that expired

stateVars == <<hash, applied, attempt, lost, expired>>
vars == <<groupVars, stateVars>>

Stages == {"closed", "fill", "apply", "commit", "stopped"}

----------------------------------------------------------------------------
(* redis_state.go *)

\* A heartbeat has a key of its own, apart from the connectors'.
stateKeyForEvent(e) ==
    IF e.type = "HEARTBEAT" THEN <<"station_liveness", e.station, 0>>
                            ELSE <<"station", e.station, e.conn>>

Keys == {stateKeyForEvent(e) : e \in Events}

\* Mutated: a stop makes the connector available, as a first version would.
deriveStatusFromStop(e) ==
    IF e.type = "STATUS_CHANGE" THEN e.status
    ELSE IF e.type = "SESSION_STOP" THEN "Available" ELSE ""

\* Status comes from STATUS_CHANGE alone.
deriveStatus(e) == IF e.type = "STATUS_CHANGE" THEN e.status ELSE ""

\* An absent key; last_seen is 0 when it is not set.
NoHash == [last_seen |-> 0, status |-> None, power |-> None, session |-> None]

\* The hash h after HSET of the fields stateArgs builds from e: status, then
\* the reading, then the session, which a stop clears together with the power.
stateArgs(h, e) ==
    [last_seen |-> e.ts,
     status  |-> IF deriveStatus(e) # "" THEN deriveStatus(e) ELSE h.status,
     power   |-> IF e.type = "SESSION_STOP" THEN 0
                 ELSE IF e.power # None THEN e.power ELSE h.power,
     session |-> IF e.type = "SESSION_STOP" THEN ""
                 ELSE IF e.type \in {"SESSION_START", "METER_UPDATE"} /\ e.session # ""
                 THEN e.session ELSE h.session]

\* Mutated: the script refuses an event of the stored time, too.
casScriptStrict(h, e) ==
    IF h.last_seen # 0 /\ e.ts <= h.last_seen THEN h ELSE stateArgs(h, e)

\* The script: an event strictly older than what is stored changes nothing.
casScript(h, e) ==
    IF h.last_seen # 0 /\ e.ts < h.last_seen THEN h ELSE stateArgs(h, e)

----------------------------------------------------------------------------

\* Where the batch w has in hand holds valid events: its pipeline, in this order.
ValidAt(w) == {i \in 1 .. Len(batch[w]) : Value(batch[w][i]) \in Accepted}

TypeOK ==
    /\ GroupTypeOK(Stages)
    /\ DOMAIN hash = Keys
    /\ \A k \in Keys : hash[k].last_seen \in Nat
    /\ applied \in [Workers -> Nat]
    /\ \A w \in Workers : applied[w] <= Len(batch[w])
    /\ attempt \in [Workers -> {1, 2}]
    /\ lost \subseteq Events
    /\ expired \subseteq Keys

Init ==
    /\ GroupInit
    /\ hash = [k \in Keys |-> NoHash]
    /\ applied = [w \in Workers |-> 0]
    /\ attempt = [w \in Workers |-> 1]
    /\ lost = {}
    /\ expired = {}

----------------------------------------------------------------------------
(* The group's own steps. *)

Untouched == UNCHANGED stateVars

Open(w) == newReader(w) /\ Untouched

Fetch(w) == (\E p \in Partitions : FetchMessage(w, p)) /\ Untouched

StartApply(w) == fillBatchReturns(w, "apply") /\ Untouched

Exit(w) == WorkerExits(w) /\ Untouched

----------------------------------------------------------------------------
(* applyBatch *)

\* A Redis call fails: it counts as a fault but leaves the group undisturbed.
RedisFault == spent < MaxFaults /\ spent' = spent + 1 /\ UNCHANGED calm

GroupUnchanged ==
    UNCHANGED <<raw, committed, session, assigned, pos, rejoin, batch, stopping>>

\* Redis runs the next script of the pipeline.
ApplyNext(w) ==
    /\ pc[w] = "apply"
    /\ \E i \in ValidAt(w) :
         LET e == Value(batch[w][i]) IN
         /\ applied[w] < i
         /\ \A j \in ValidAt(w) : j < i => j <= applied[w]
         /\ hash' = [hash EXCEPT ![stateKeyForEvent(e)] = casScript(@, e)]
         /\ applied' = [applied EXCEPT ![w] = i]
    /\ GroupUnchanged
    /\ UNCHANGED <<pc, attempt, lost, expired>>
    /\ NoFault

\* The pipeline returns, at once if no event of the batch is valid.
ApplyReturns(w) ==
    /\ pc[w] = "apply"
    /\ \A i \in ValidAt(w) : i <= applied[w]
    /\ pc' = [pc EXCEPT ![w] = "commit"]
    /\ applied' = [applied EXCEPT ![w] = 0]
    /\ attempt' = [attempt EXCEPT ![w] = 1]
    /\ GroupUnchanged
    /\ UNCHANGED <<hash, lost, expired>>
    /\ NoFault

\* Mutated: no retry.
ApplyFailsAtOnce(w) ==
    /\ pc[w] = "apply"
    /\ ValidAt(w) # {}
    /\ attempt[w] = 1
    /\ pc' = [pc EXCEPT ![w] = "commit"]
    /\ applied' = [applied EXCEPT ![w] = 0]
    /\ GroupUnchanged
    /\ UNCHANGED <<hash, attempt, lost, expired>>
    /\ RedisFault

\* The first pipeline fails after any part of it has run, the reply included:
\* after the backoff the whole batch is sent again.
ApplyFailsOnce(w) ==
    /\ pc[w] = "apply"
    /\ ValidAt(w) # {}
    /\ attempt[w] = 1
    /\ attempt' = [attempt EXCEPT ![w] = 2]
    /\ applied' = [applied EXCEPT ![w] = 0]
    /\ GroupUnchanged
    /\ UNCHANGED <<pc, hash, lost, expired>>
    /\ RedisFault

\* Mutated: the batch is dropped without its commit.
ApplyGivesUpUncommitted(w) ==
    /\ pc[w] = "apply"
    /\ attempt[w] = 2
    /\ lost' = lost \cup {Value(batch[w][i]) : i \in 1 .. Len(batch[w])}
    /\ pc' = [pc EXCEPT ![w] = "fill"]
    /\ batch' = [batch EXCEPT ![w] = <<>>]
    /\ applied' = [applied EXCEPT ![w] = 0]
    /\ attempt' = [attempt EXCEPT ![w] = 1]
    /\ UNCHANGED <<raw, committed, session, assigned, pos, rejoin, stopping>>
    /\ UNCHANGED <<hash, expired>>
    /\ RedisFault

\* The retry fails too: applyBatch returns and the batch is committed anyway.
ApplyGivesUp(w) ==
    /\ pc[w] = "apply"
    /\ attempt[w] = 2
    /\ lost' = lost \cup {Value(batch[w][i]) : i \in 1 .. Len(batch[w])}
    /\ pc' = [pc EXCEPT ![w] = "commit"]
    /\ applied' = [applied EXCEPT ![w] = 0]
    /\ attempt' = [attempt EXCEPT ![w] = 1]
    /\ GroupUnchanged
    /\ UNCHANGED <<hash, expired>>
    /\ RedisFault

\* The commit has what apply left of the 15 s they share: a Redis that hangs until
\* they are over is ApplyFailsOnce, ApplyGivesUp and CommitFails in a row.
Commit(w) == (CommitMessages(w) \/ CommitFails(w)) /\ Untouched

----------------------------------------------------------------------------
(* Around the workers. *)

Reassign == Rebalance /\ Untouched

LoseSession(w) == SessionLost(w) /\ Untouched

Rejoin(w) == HeartbeatRefused(w) /\ Untouched

\* A key has not been written for the TTL window and is gone.
Expire(k) ==
    /\ hash[k] # NoHash
    /\ hash' = [hash EXCEPT ![k] = NoHash]
    /\ expired' = expired \cup {k}
    /\ GroupUnchanged
    /\ UNCHANGED <<pc, applied, attempt, lost>>
    /\ RedisFault

Terminate == Shutdown /\ Untouched

Start ==
    /\ Crash \/ Restart
    /\ applied' = [w \in Workers |-> 0]
    /\ attempt' = [w \in Workers |-> 1]
    /\ UNCHANGED <<hash, lost, expired>>

Idle == Stopped /\ Untouched

WorkerStep(w) ==
    \/ Open(w)
    \/ Fetch(w)
    \/ StartApply(w)
    \/ Exit(w)
    \/ ApplyNext(w)
    \/ ApplyReturns(w)
    \/ ApplyFailsOnce(w)
    \/ ApplyGivesUp(w)
    \/ Commit(w)

Next ==
    \/ \E w \in Workers : WorkerStep(w)
    \/ \E w \in Workers : LoseSession(w)
    \/ \E w \in Workers : Rejoin(w)
    \/ \E k \in Keys : Expire(k)
    \/ Reassign
    \/ Terminate
    \/ Start
    \/ Idle

\* As in AnalyticsPath: workers are scheduled and their calls time out (15 s),
\* the coordinator completes rebalances; nothing is assumed of faults.
Fairness ==
    /\ \A w \in Workers : WF_vars(WorkerStep(w))
    /\ \A w \in Workers : WF_vars(Rejoin(w))
    /\ WF_vars(Reassign)

Spec == Init /\ [][Next]_vars

FairSpec == Spec /\ Fairness

----------------------------------------------------------------------------
(* Properties *)

Fields == {"last_seen", "status", "power", "session"}

\* Which fields of the current state an event speaks of, and what it says.
Carries(e, f) ==
    \/ f = "last_seen"
    \/ f = "status" /\ e.type = "STATUS_CHANGE" /\ e.status # ""
    \/ f = "power" /\ (e.type = "SESSION_STOP" \/ e.power # None)
    \/ f = "session" /\ \/ e.type = "SESSION_STOP"
                        \/ e.type \in {"SESSION_START", "METER_UPDATE"} /\ e.session # ""

Carried(e, f) ==
    [last_seen |-> e.ts,
     status  |-> e.status,
     power   |-> IF e.type = "SESSION_STOP" THEN 0 ELSE e.power,
     session |-> IF e.type = "SESSION_STOP" THEN "" ELSE e.session][f]

\* Everything the hash of k should hold, from the topic alone: a record counts
\* if no earlier record of its key is newer, and each field comes from the last
\* record that counts and carries it.
At(r) == raw[r[1]][r[2]]

RecordsOf(k) ==
    {r \in UNION {{p} \X (1 .. Len(raw[p])) : p \in Partitions} :
        At(r) \in Accepted /\ stateKeyForEvent(At(r)) = k}

Counts(k) ==
    {r \in RecordsOf(k) : \A q \in RecordsOf(k) : q[2] < r[2] => At(q).ts <= At(r).ts}

LastOf(R) == At(CHOOSE r \in R : \A q \in R : q[2] <= r[2])

Carriers(k, f) == {r \in Counts(k) : Carries(At(r), f)}

Expected(k) ==
    [f \in Fields |-> IF Carriers(k, f) = {} THEN NoHash[f]
                      ELSE Carried(LastOf(Carriers(k, f)), f)]

\* Events of one key and one time agree on what they both carry, as the three of
\* a fault-abort do: the alert, the stop and the status share no field.
TiesAgree(k) ==
    \A f \in Fields : \A r, q \in Carriers(k, f) :
        At(r).ts = At(q).ts => Carried(At(r), f) = Carried(At(q), f)

\* Nothing of k was given up: its key never expired, and none of its events was
\* in a batch both of whose pipelines failed.
Intact(k) ==
    /\ k \notin expired
    /\ \A e \in lost : e \in Accepted => stateKeyForEvent(e) # k

\* The whole topic is committed; a worker that lost its partition may still be
\* writing the batch it has in hand.
AtRest == \A p \in Partitions : committed[p] = Len(raw[p])

\* Whatever was delivered twice, by a worker that had lost the partition, after
\* a crash, a failed commit or one failed pipeline: once the topic is committed,
\* the current state of a key that lost nothing is what the topic says.  The CAS
\* makes redelivery harmless (realtime.go, redis_state.go), as long as events of
\* the key with the same time agree.
ConvergesAtRest ==
    AtRest => \A k \in Keys : Intact(k) /\ TiesAgree(k) => hash[k] = Expected(k)

\* What ARCHITECTURE.md calls self-healing, for the fields an update carries:
\* whatever else of its key was lost, an update that is committed, came in order
\* and was not itself lost shows in each field it carries, unless the topic says
\* something else of that field at the update's time or later.
SaysElse(k, f, e) ==
    \E q \in RecordsOf(k) : /\ Carries(At(q), f) /\ e.ts <= At(q).ts
                            /\ Carried(At(q), f) # Carried(e, f)

FieldsHeal ==
    \A p \in Partitions : \A o \in 1 .. committed[p] : \A f \in Fields :
        LET e == raw[p][o]
            k == stateKeyForEvent(e)
        IN  \/ e \in lost
            \/ k \in expired
            \/ ~Carries(e, f)
            \/ hash[k][f] = Carried(e, f)
            \/ SaysElse(k, f, e)
            \/ <<p, o>> \notin Counts(k)

\* A committed update is in the state or superseded there, unless both
\* pipelines of its batch failed or the key expired: the commit regardless of
\* applyBatch's outcome loses updates in no other way.
LossNeedsTwoFailures ==
    \A p \in Partitions : \A o \in 1 .. committed[p] :
        LET e == raw[p][o] IN
        \/ e \notin Accepted
        \/ e \in lost
        \/ stateKeyForEvent(e) \in expired
        \/ e.ts <= hash[stateKeyForEvent(e)].last_seen

\* "we must never head-of-line-block a partition on a Redis blip" (realtime.go):
\* whatever pipelines fail, an otherwise undisturbed group commits the whole topic.
\* A Redis that hangs so long that the commit runs out of time, too, disturbs it.
NeverBlocked ==
    \A p \in Partitions : <>(committed[p] = Len(raw[p]) \/ ~calm \/ stopping)

\* "an active connector emits its next METER_UPDATE within 30 s, which
\* overwrites any missed update" (ARCHITECTURE.md): once the last event of a
\* key is applied, an update that was lost before it has left no trace.
SelfHealing ==
    AtRest /\ expired = {} =>
        \A k \in Keys :
            RecordsOf(k) # {} /\ LastOf(RecordsOf(k)) \notin lost
                => hash[k] = Expected(k)

=============================================================================
