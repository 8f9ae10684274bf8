------------------------ MODULE RealtimePathProofs ------------------------
(***************************************************************************)
(* Proofs about RealtimePath, for any number of workers and partitions,    *)
(* any raw topic, any batch size and any number of faults: type            *)
(* correctness, that a committed update is lost only to two failed         *)
(* pipelines or an expired key, and that the current state converges to    *)
(* what the topic says.                                                    *)
(***************************************************************************)
EXTENDS RealtimePath, SumProofs

----------------------------------------------------------------------------
(* The inductive invariant *)

\* The records that field f of the state of k may come from: they carry it, and
\* while nothing of k is lost they are among those that count.
Sources(k, f) ==
    {r \in RecordsOf(k) : Carries(At(r), f) /\ (Intact(k) => r \in Counts(k))}

Shows(k, f, r) == r \in Sources(k, f) /\ hash[k][f] = Carried(At(r), f)

\* A field shows a record at least as new as e.
Fresh(e, f) ==
    \E r : Shows(stateKeyForEvent(e), f, r) /\ e.ts <= At(r).ts

\* If e counts at all, every field it carries shows e or something as new.
Counted(e) == \E r \in Counts(stateKeyForEvent(e)) : At(r) = e

Reflected(e) == Counted(e) => \A f \in Fields : Carries(e, f) => Fresh(e, f)

\* What may be committed: the current state is as new as e and reflects it, or
\* e is lost in one of the ways the code accepts.  It stays so forever.
Settled(e) ==
    \/ e \notin Accepted
    \/ e \in lost
    \/ stateKeyForEvent(e) \in expired
    \/ e.ts <= hash[stateKeyForEvent(e)].last_seen /\ Reflected(e)

\* What is fetched exists.
ReadsExist(w) ==
    /\ \A p \in Partitions : pos[w][p] <= Len(raw[p])
    /\ \A i \in 1 .. Len(batch[w]) : batch[w][i].off <= Len(raw[batch[w][i].part])

\* How far applyBatch has come with the batch in hand: the messages up to the
\* last script that ran are settled, and the whole batch once it has returned.
ApplyProgress(w) ==
    /\ pc[w] \in {"closed", "stopped"} =>
         batch[w] = <<>> /\ assigned[w] = {} /\ session[w] = "out"
    /\ pc[w] # "apply" => applied[w] = 0
    /\ \A i \in 1 .. applied[w] : Settled(Value(batch[w][i]))
    /\ pc[w] = "commit" =>
         \A i \in 1 .. Len(batch[w]) : Settled(Value(batch[w][i]))

\* No reader has fetched past a record that is neither settled nor in the same
\* worker's hands.
Handled(w, p, o) == Settled(raw[p][o]) \/ InBatch(w, p, o)

SkipsNothing(w) == \A p \in assigned[w] : \A o \in 1 .. pos[w][p] : Handled(w, p, o)

\* A batch runs in an order the log allows: below a message everything of its
\* partition is settled or precedes it in the batch.  Offsets need not ascend:
\* a rebalance in the middle of a fill sends the reader back.
Precedes(w, i, o) ==
    \/ Settled(raw[batch[w][i].part][o])
    \/ \E j \in 1 .. i : batch[w][j] = [part |-> batch[w][i].part, off |-> o]

InOrder(w) ==
    \A i \in 1 .. Len(batch[w]) : \A o \in 1 .. batch[w][i].off : Precedes(w, i, o)

WorkerInv(w) == ReadsExist(w) /\ ApplyProgress(w) /\ SkipsNothing(w) /\ InOrder(w)

\* Up to record r everything of its partition is settled.
SettledUpTo(r) == \A o \in 1 .. r[2] : Settled(raw[r[1]][o])

\* What is in the state comes from records of the topic, and its time from one
\* below which everything is settled.
Traced(k) ==
    /\ \A f \in Fields : hash[k][f] = NoHash[f] \/ \E r : Shows(k, f, r)
    /\ \/ hash[k].last_seen = 0
       \/ \E r \in RecordsOf(k) : At(r).ts = hash[k].last_seen /\ SettledUpTo(r)

\* h is a hash with these fields.
HasFields(h) == h = [f \in Fields |-> h[f]]

StateTraced == \A k \in Keys : HasFields(hash[k]) /\ Traced(k)

CommittedSettled ==
    \A p \in Partitions : \A o \in 1 .. committed[p] : Settled(raw[p][o])

IndInv ==
    /\ TypeOK
    /\ \A w \in Workers : WorkerInv(w)
    /\ CommittedSettled
    /\ StateTraced

----------------------------------------------------------------------------
(* Facts about the operators *)

\* Records of the raw topic are events, and there are finitely many.
LEMMA RawEvents ==
    TypeOK => \A p \in Partitions :
                /\ Len(raw[p]) \in Nat
                /\ \A o \in 1 .. Len(raw[p]) : raw[p][o] \in Events
BY LogsAssumption DEF TypeOK, GroupTypeOK

\* So are the payloads of a batch.
LEMMA BatchEvents ==
    ASSUME TypeOK, NEW w \in Workers, ReadsExist(w)
    PROVE  \A i \in 1 .. Len(batch[w]) : Value(batch[w][i]) \in Events
<1> TAKE i \in 1 .. Len(batch[w])
<1>1. PICK m \in Message : m = batch[w][i] /\ m.off <= Len(raw[m.part])
  BY DEF ReadsExist, TypeOK, GroupTypeOK
<1>2. m.part \in Partitions /\ m.off \in Nat \ {0}
  BY DEF Message
<1>3. Len(raw[m.part]) \in Nat
  BY <1>2, RawEvents
<1>4. m.off \in 1 .. Len(raw[m.part])
  BY <1>1, <1>2, <1>3
<1>5. raw[m.part][m.off] \in Events
  BY <1>2, <1>4, RawEvents
<1> QED
  BY <1>1, <1>5 DEF Value

\* A write stores the time of its event.
LEMMA ArgsTime == \A h, e : stateArgs(h, e).last_seen = e.ts
BY DEF stateArgs

\* The script leaves a hash at least as new as it was and as the event is.
LEMMA CasForward ==
    ASSUME NEW h, h.last_seen \in Nat, NEW e \in Events
    PROVE  /\ casScript(h, e).last_seen \in Nat
           /\ h.last_seen <= casScript(h, e).last_seen
           /\ e.ts <= casScript(h, e).last_seen
<1>1. e.ts \in Nat \ {0}
  BY EventsAssumption
<1>2. stateArgs(h, e).last_seen = e.ts
  BY ArgsTime
<1>3. CASE h.last_seen # 0 /\ e.ts < h.last_seen
  BY <1>1, <1>3 DEF casScript
<1>4. CASE ~(h.last_seen # 0 /\ e.ts < h.last_seen)
  BY <1>1, <1>2, <1>4 DEF casScript
<1> QED
  BY <1>3, <1>4

\* HSET by field: the fields the event carries, and the others as they were.
LEMMA ArgsByField ==
    ASSUME NEW h, NEW e, NEW f \in Fields
    PROVE  stateArgs(h, e)[f] = IF Carries(e, f) THEN Carried(e, f) ELSE h[f]
<1>1. CASE f = "last_seen"
  BY <1>1 DEF stateArgs, Carries, Carried
<1>2. CASE f = "status"
  BY <1>2 DEF stateArgs, Carries, Carried, deriveStatus
<1>3. CASE f = "power"
  BY <1>3 DEF stateArgs, Carries, Carried
<1>4. CASE f = "session"
  BY <1>4 DEF stateArgs, Carries, Carried
<1> QED
  BY <1>1, <1>2, <1>3, <1>4 DEF Fields

\* A hash has the four fields, before and after a script.
LEMMA HashFields ==
    /\ HasFields(NoHash)
    /\ \A h, e : HasFields(h) => HasFields(casScript(h, e))
<1>1. ASSUME NEW h, NEW e PROVE HasFields(stateArgs(h, e))
  BY DEF HasFields, stateArgs, Fields
<1>2. HasFields(NoHash)
  BY DEF HasFields, NoHash, Fields
<1> QED
  BY <1>1, <1>2 DEF casScript

\* What the records of a key are.
LEMMA RecordFacts ==
    ASSUME TypeOK, NEW k, NEW r \in RecordsOf(k)
    PROVE  /\ r[1] \in Partitions /\ r[2] \in 1 .. Len(raw[r[1]]) /\ r[2] \in Nat
           /\ r = <<r[1], r[2]>>
           /\ At(r) = raw[r[1]][r[2]] /\ At(r) \in Events /\ At(r).ts \in Nat
           /\ At(r) \in Accepted /\ stateKeyForEvent(At(r)) = k
<1>1. PICK p \in Partitions : r \in {p} \X (1 .. Len(raw[p]))
  BY DEF RecordsOf
<1>2. r = <<r[1], r[2]>> /\ r[1] = p /\ r[2] \in 1 .. Len(raw[p])
  BY <1>1
<1>3. Len(raw[p]) \in Nat /\ raw[p][r[2]] \in Events
  BY <1>2, RawEvents
<1>4. At(r) \in Accepted /\ stateKeyForEvent(At(r)) = k
  BY DEF RecordsOf
<1> QED
  BY <1>2, <1>3, <1>4, EventsAssumption DEF At

\* An accepted record of the topic is one of its key's records.
LEMMA RecordIn ==
    ASSUME TypeOK, NEW p \in Partitions, NEW o \in 1 .. Len(raw[p]),
           raw[p][o] \in Accepted
    PROVE  /\ <<p, o>> \in RecordsOf(stateKeyForEvent(raw[p][o]))
           /\ At(<<p, o>>) = raw[p][o]
<1>1. At(<<p, o>>) = raw[p][o]
  BY DEF At
<1>2. <<p, o>> \in {p} \X (1 .. Len(raw[p]))
  OBVIOUS
<1>3. <<p, o>> \in UNION {{q} \X (1 .. Len(raw[q])) : q \in Partitions}
  BY <1>2
<1> QED
  BY <1>1, <1>3 DEF RecordsOf

\* Events of one key are of one station.
LEMMA KeyStation ==
    ASSUME NEW e, NEW g, stateKeyForEvent(e) = stateKeyForEvent(g)
    PROVE  e.station = g.station
BY DEF stateKeyForEvent

\* The records of a key are all in one partition: the producer keys by station.
LEMMA OnePartition ==
    ASSUME TypeOK, NEW k, NEW r \in RecordsOf(k), NEW q \in RecordsOf(k)
    PROVE  r[1] = q[1]
<1>1. /\ r[1] \in Partitions /\ r[2] \in 1 .. Len(raw[r[1]])
      /\ At(r) = raw[r[1]][r[2]] /\ stateKeyForEvent(At(r)) = k
  BY RecordFacts
<1>2. /\ q[1] \in Partitions /\ q[2] \in 1 .. Len(raw[q[1]])
      /\ At(q) = raw[q[1]][q[2]] /\ stateKeyForEvent(At(q)) = k
  BY RecordFacts
<1>3. At(r).station = At(q).station
  BY <1>1, <1>2, KeyStation
<1>4. raw \in Logs
  BY DEF TypeOK, GroupTypeOK
<1> QED
  BY <1>1, <1>2, <1>3, <1>4, StationAssumption

\* Among the records of a key that count, times do not fall.
LEMMA CountsAscend ==
    ASSUME NEW k, NEW r \in Counts(k), NEW q \in RecordsOf(k), q[2] < r[2]
    PROVE  At(q).ts <= At(r).ts
BY DEF Counts

\* What the topic says depends on the topic alone.
LEMMA TopicFixed ==
    ASSUME raw' = raw
    PROVE  /\ \A r : At(r)' = At(r)
           /\ \A k : RecordsOf(k)' = RecordsOf(k)
           /\ \A k : Counts(k)' = Counts(k)
           /\ \A e : stateKeyForEvent(e)' = stateKeyForEvent(e)
           /\ \A e : Counted(e)' = Counted(e)
           /\ \A r, f : Carries(At(r), f)' <=> Carries(At(r), f)
           /\ \A r, f : Carried(At(r), f)' = Carried(At(r), f)
<1>1. \A r : At(r)' = At(r)
  BY DEF At
<1>2. \A e : stateKeyForEvent(e)' = stateKeyForEvent(e)
  BY DEF stateKeyForEvent
<1>3. \A k : RecordsOf(k)' = RecordsOf(k)
  BY <1>1, <1>2 DEF RecordsOf
<1>4. \A k : Counts(k)' = Counts(k)
  BY <1>1, <1>3 DEF Counts
<1>5. \A e : Counted(e)' = Counted(e)
  BY <1>1, <1>2, <1>4 DEF Counted
<1>6. \A r, f : Carries(At(r), f)' <=> Carries(At(r), f)
  BY <1>1, Zenon DEF Carries
<1>7. \A r, f : Carried(At(r), f)' = Carried(At(r), f)
  BY <1>1, Zenon DEF Carried
<1> QED
  BY <1>1, <1>2, <1>3, <1>4, <1>5, <1>6, <1>7

\* The bookkeeping of faults stays in bounds.
LEMMA FaultType ==
    ASSUME spent \in 0 .. MaxFaults, calm \in BOOLEAN, Fault \/ NoFault \/ RedisFault
    PROVE  spent' \in 0 .. MaxFaults /\ calm' \in BOOLEAN
<1>1. CASE NoFault
  BY <1>1 DEF NoFault
<1>2. CASE Fault \/ RedisFault
  <2>1. spent' \in 0 .. MaxFaults
    BY <1>2, BoundsAssumption DEF Fault, RedisFault
  <2>2. calm' \in BOOLEAN
    BY <1>2 DEF Fault, RedisFault
  <2> QED
    BY <2>1, <2>2
<1> QED
  BY <1>1, <1>2

----------------------------------------------------------------------------
(* Type correctness *)

\* The initial state satisfies the inductive invariant.
LEMMA InitIndInv == Init => IndInv
<1> SUFFICES ASSUME Init PROVE IndInv
  OBVIOUS
<1>1. TypeOK
  <2>1. \A p \in Partitions : Len(raw[p]) \in Nat
    BY LogsAssumption DEF Init, GroupInit
  <2>2. rejoin \in BOOLEAN /\ stopping \in BOOLEAN /\ calm \in BOOLEAN
    BY Zenon DEF Init, GroupInit
  <2>3. GroupTypeOK(Stages)
    BY <2>1, <2>2, BoundsAssumption DEF Init, GroupInit, GroupTypeOK, Stages
  <2>4. NoHash.last_seen \in Nat
    BY DEF NoHash
  <2>5. DOMAIN hash = Keys /\ \A k \in Keys : hash[k].last_seen \in Nat
    BY <2>4 DEF Init
  <2>6. \A w \in Workers : applied[w] = 0 /\ Len(batch[w]) = 0
    BY DEF Init, GroupInit
  <2> QED
    BY <2>3, <2>5, <2>6 DEF Init, TypeOK
<1>2. \A w \in Workers : WorkerInv(w)
  BY <1>1, RawEvents DEF Init, GroupInit, WorkerInv, ReadsExist, ApplyProgress,
     SkipsNothing, InOrder
<1>3. CommittedSettled
  BY DEF Init, GroupInit, CommittedSettled
<1>4. StateTraced
  <2>1. \A k \in Keys : hash[k] = NoHash
    BY DEF Init
  <2>2. NoHash.last_seen = 0
    BY DEF NoHash
  <2> QED
    BY <2>1, <2>2, HashFields DEF StateTraced, Traced
<1> QED
  BY <1>1, <1>2, <1>3, <1>4 DEF IndInv

\* A commit stores offsets of records that exist.
LEMMA StoredOffsets ==
    ASSUME TypeOK, NEW w \in Workers, ReadsExist(w), StoreOffsets(batch[w])
    PROVE  /\ committed' \in [Partitions -> Nat]
           /\ \A p \in Partitions : committed'[p] <= Len(raw[p])
<1>1. \A i \in 1 .. Len(batch[w]) : batch[w][i] \in Message
  BY DEF TypeOK, GroupTypeOK
<1>2. \A p \in Partitions : \A o \in Offsets(batch[w], p) : o <= Len(raw[p])
  BY DEF Offsets, ReadsExist
<1>3. \A p \in Partitions : Offsets(batch[w], p) \subseteq Nat
  BY <1>1 DEF Offsets, Message
<1>4. \A p \in Partitions : committed'[p] \in Nat /\ committed'[p] <= Len(raw[p])
  BY <1>2, <1>3 DEF StoreOffsets, TypeOK, GroupTypeOK
<1> QED
  BY <1>4 DEF StoreOffsets

\* What TypeOK says of the variables of the Redis side.
StateType ==
    /\ DOMAIN hash = Keys
    /\ \A k \in Keys : hash[k].last_seen \in Nat
    /\ applied \in [Workers -> Nat]
    /\ \A w \in Workers : applied[w] <= Len(batch[w])
    /\ attempt \in [Workers -> {1, 2}]
    /\ lost \subseteq Events
    /\ expired \subseteq Keys

\* The group's variables keep their types.
LEMMA GroupTypeStep == IndInv /\ [Next]_vars => GroupTypeOK(Stages)'
<1> SUFFICES ASSUME IndInv, [Next]_vars PROVE GroupTypeOK(Stages)'
  OBVIOUS
<1> USE LogsAssumption, BoundsAssumption
<1>0. TypeOK /\ GroupTypeOK(Stages) /\ \A w \in Workers : ReadsExist(w)
  BY DEF IndInv, WorkerInv, TypeOK
<1>1. ASSUME NEW w \in Workers, Open(w) PROVE GroupTypeOK(Stages)'
  BY <1>0, <1>1, FaultType DEF Open, newReader, GroupTypeOK, Stages
<1>2. ASSUME NEW w \in Workers, Fetch(w) PROVE GroupTypeOK(Stages)'
  <2>1. PICK p \in Partitions : FetchMessage(w, p)
    BY <1>2 DEF Fetch
  <2>2. [part |-> p, off |-> pos[w][p] + 1] \in Message
    BY <1>0 DEF GroupTypeOK, Message
  <2>3. batch' \in [Workers -> Seq(Message)]
    BY <1>0, <2>1, <2>2 DEF FetchMessage, GroupTypeOK
  <2>4. pos' \in [Workers -> [Partitions -> Nat]]
    BY <1>0, <2>1 DEF FetchMessage, GroupTypeOK
  <2> QED
    BY <1>0, <2>1, <2>3, <2>4, FaultType DEF FetchMessage, GroupTypeOK
<1>3. ASSUME NEW w \in Workers, StartApply(w) PROVE GroupTypeOK(Stages)'
  BY <1>0, <1>3, FaultType DEF StartApply, fillBatchReturns, GroupTypeOK, Stages
<1>4. ASSUME NEW w \in Workers, Exit(w) PROVE GroupTypeOK(Stages)'
  BY <1>0, <1>4, FaultType DEF Exit, WorkerExits, Close, GroupTypeOK, Stages
<1>5. ASSUME NEW w \in Workers,
             ApplyNext(w) \/ ApplyReturns(w) \/ ApplyFailsOnce(w) \/ ApplyGivesUp(w)
      PROVE  GroupTypeOK(Stages)'
  <2>1. GroupUnchanged /\ (NoFault \/ RedisFault)
    BY <1>5 DEF ApplyNext, ApplyReturns, ApplyFailsOnce, ApplyGivesUp
  <2>2. pc' = pc \/ pc' = [pc EXCEPT ![w] = "commit"]
    BY <1>5 DEF ApplyNext, ApplyReturns, ApplyFailsOnce, ApplyGivesUp
  <2>3. pc' \in [Workers -> Stages]
    BY <1>0, <2>2 DEF GroupTypeOK, Stages
  <2> QED
    BY <1>0, <2>1, <2>3, FaultType DEF GroupUnchanged, GroupTypeOK
<1>6. ASSUME NEW w \in Workers, Commit(w) PROVE GroupTypeOK(Stages)'
  <2>1. /\ committed' \in [Partitions -> Nat]
        /\ \A p \in Partitions : committed'[p] <= Len(raw[p])
    <3>1. CASE CommitMessages(w)
      BY <1>0, <3>1, StoredOffsets DEF CommitMessages
    <3>2. CASE CommitFails(w)
      BY <1>0, <3>2 DEF CommitFails, GroupTypeOK
    <3> QED
      BY <1>6, <3>1, <3>2 DEF Commit
  <2>2. /\ UNCHANGED <<raw, session, assigned, pos, rejoin, stopping>>
        /\ pc' = [pc EXCEPT ![w] = "fill"]
        /\ batch' = [batch EXCEPT ![w] = <<>>]
        /\ Fault \/ NoFault
    BY <1>6 DEF Commit, CommitMessages, CommitFails
  <2> QED
    BY <1>0, <2>1, <2>2, FaultType DEF GroupTypeOK, Stages
<1>7. ASSUME NEW w \in Workers, LoseSession(w) \/ Rejoin(w) PROVE GroupTypeOK(Stages)'
  BY <1>0, <1>7, FaultType DEF LoseSession, SessionLost, Rejoin, HeartbeatRefused,
     GroupTypeOK
<1>8. ASSUME NEW k \in Keys, Expire(k) PROVE GroupTypeOK(Stages)'
  BY <1>0, <1>8, FaultType DEF Expire, GroupUnchanged, GroupTypeOK
<1>9. CASE Reassign
  <2>1. calm' \in BOOLEAN /\ rejoin' \in BOOLEAN
    BY <1>9, Zenon DEF Reassign, Rebalance
  <2>2. assigned' \in [Workers -> SUBSET Partitions]
    BY <1>0, <1>9 DEF Reassign, Rebalance, GroupTypeOK
  <2>3. session' \in [Workers -> {"out", "joining", "in", "lost"}]
    BY <1>0, <1>9 DEF Reassign, Rebalance, GroupTypeOK
  <2>4. pos' \in [Workers -> [Partitions -> Nat]]
    BY <1>0, <1>9 DEF Reassign, Rebalance, GroupTypeOK
  <2>5. UNCHANGED <<raw, committed, pc, batch, stopping, spent>>
    BY <1>9 DEF Reassign, Rebalance
  <2> QED
    BY <1>0, <2>1, <2>2, <2>3, <2>4, <2>5 DEF GroupTypeOK
<1>10. CASE Terminate
  BY <1>0, <1>10, FaultType DEF Terminate, Shutdown, GroupTypeOK
<1>11. CASE Start
  <2>1. spent' \in 0 .. MaxFaults /\ calm' \in BOOLEAN
    <3>1. CASE Crash
      BY <1>0, <3>1, FaultType DEF Crash, GroupTypeOK
    <3>2. CASE Restart
      BY <1>0, <3>2 DEF Restart, GroupTypeOK
    <3> QED
      BY <1>11, <3>1, <3>2 DEF Start
  <2>2. FreshProcess
    BY <1>11 DEF Start, Crash, Restart
  <2>3. rejoin' \in BOOLEAN /\ stopping' \in BOOLEAN
    BY <2>2, Zenon DEF FreshProcess
  <2> QED
    BY <1>0, <2>1, <2>2, <2>3 DEF FreshProcess, GroupTypeOK, Stages
<1>12. CASE Idle \/ UNCHANGED vars
  BY <1>0, <1>12 DEF Idle, Stopped, vars, groupVars, GroupTypeOK
<1> QED
  BY <1>1, <1>2, <1>3, <1>4, <1>5, <1>6, <1>7, <1>8, <1>9, <1>10, <1>11, <1>12
  DEF Next, WorkerStep

\* What a step does to the current state: nothing, one script of a pipeline,
\* or an expiry.
LEMMA StateChanges ==
    ASSUME IndInv, [Next]_vars
    PROVE  \/ UNCHANGED <<hash, expired>> /\ lost \subseteq lost'
           \/ \E w \in Workers : ApplyNext(w)
           \/ \E k \in Keys : Expire(k)
<1>1. ASSUME NEW w \in Workers,
             \/ Open(w) \/ Fetch(w) \/ StartApply(w) \/ Exit(w) \/ ApplyReturns(w)
             \/ ApplyFailsOnce(w) \/ ApplyGivesUp(w) \/ Commit(w)
             \/ LoseSession(w) \/ Rejoin(w)
      PROVE  UNCHANGED <<hash, expired>> /\ lost \subseteq lost'
  BY <1>1 DEF Open, Fetch, StartApply, Exit, ApplyReturns, ApplyFailsOnce,
     ApplyGivesUp, Commit, LoseSession, Rejoin, Untouched, stateVars
<1>2. Reassign \/ Terminate \/ Start \/ Idle \/ UNCHANGED vars
      => UNCHANGED <<hash, expired, lost>>
  BY DEF Reassign, Terminate, Start, Idle, Untouched, vars, stateVars
<1> QED
  BY <1>1, <1>2 DEF Next, WorkerStep

\* One script: which message it is, and what becomes of its key.
LEMMA ScriptRuns ==
    ASSUME TypeOK, NEW w \in Workers, WorkerInv(w), ApplyNext(w)
    PROVE  \E i \in 1 .. Len(batch[w]) : \E e \in Events : \E k \in Keys :
             /\ e = Value(batch[w][i]) /\ k = stateKeyForEvent(e) /\ e \in Accepted
             /\ applied[w] < i
             /\ \A j \in ValidAt(w) : j < i => j <= applied[w]
             /\ hash' = [hash EXCEPT ![k] = casScript(hash[k], e)]
             /\ applied' = [applied EXCEPT ![w] = i]
<1>1. PICK i \in ValidAt(w) :
        /\ applied[w] < i
        /\ \A j \in ValidAt(w) : j < i => j <= applied[w]
        /\ hash' = [hash EXCEPT ![stateKeyForEvent(Value(batch[w][i]))] =
                                   casScript(@, Value(batch[w][i]))]
        /\ applied' = [applied EXCEPT ![w] = i]
  BY DEF ApplyNext
<1>2. i \in 1 .. Len(batch[w]) /\ Value(batch[w][i]) \in Accepted
  BY DEF ValidAt
<1>3. PICK e \in Events : e = Value(batch[w][i])
  BY <1>2, BatchEvents DEF WorkerInv
<1>4. PICK k \in Keys : k = stateKeyForEvent(e)
  BY DEF Keys
<1>5. hash' = [hash EXCEPT ![k] = casScript(hash[k], e)]
  BY <1>1, <1>3, <1>4
<1> QED
  BY <1>1, <1>2, <1>3, <1>4, <1>5

\* The message whose script runs, as a record of the topic: everything below it
\* in its partition is settled, and it counts unless the script is stale.
LEMMA ScriptRecord ==
    ASSUME IndInv, NEW w \in Workers, NEW i \in 1 .. Len(batch[w]), NEW e \in Accepted,
           e = Value(batch[w][i]), \A j \in ValidAt(w) : j < i => j <= applied[w]
    PROVE  \E r \in RecordsOf(stateKeyForEvent(e)) :
             /\ At(r) = e
             /\ \A o \in 1 .. r[2] : o < r[2] => Settled(raw[r[1]][o])
<1>0. /\ TypeOK /\ ReadsExist(w) /\ ApplyProgress(w) /\ InOrder(w)
  BY DEF IndInv, WorkerInv
<1>1. PICK m \in Message : m = batch[w][i] /\ m.off <= Len(raw[m.part])
  BY <1>0 DEF ReadsExist, TypeOK, GroupTypeOK
<1>2. m.part \in Partitions /\ m.off \in Nat \ {0} /\ Len(raw[m.part]) \in Nat
  BY <1>0, RawEvents DEF Message
<1>3. PICK p \in Partitions : p = m.part
  BY <1>2
<1>4. PICK n \in 1 .. Len(raw[p]) : n = m.off
  BY <1>1, <1>2, <1>3
<1>5. raw[p][n] = e
  BY <1>1, <1>3, <1>4 DEF Value
<1>6. <<p, n>> \in RecordsOf(stateKeyForEvent(e)) /\ At(<<p, n>>) = e
  BY <1>0, <1>5, RecordIn
<1>7. ASSUME NEW o \in 1 .. n, o < n PROVE Settled(raw[p][o])
  <2>1. Precedes(w, i, o)
    BY <1>0, <1>1, <1>4 DEF InOrder
  <2>2. CASE Settled(raw[batch[w][i].part][o])
    BY <1>1, <1>3, <2>2
  <2>3. ASSUME NEW j \in 1 .. i, batch[w][j] = [part |-> p, off |-> o]
        PROVE  Settled(raw[p][o])
    <3>1. j # i
      BY <1>1, <1>4, <1>7, <2>3
    <3>2. j \in 1 .. Len(batch[w]) /\ j < i
      BY <3>1
    <3>3. Value(batch[w][j]) = raw[p][o]
      BY <2>3 DEF Value
    <3>4. CASE j \in ValidAt(w)
      <4>1. applied[w] \in Nat /\ j \in 1 .. applied[w]
        BY <1>0, <3>2, <3>4 DEF TypeOK
      <4> QED
        BY <1>0, <3>3, <4>1 DEF ApplyProgress
    <3>5. CASE j \notin ValidAt(w)
      BY <3>2, <3>3, <3>5 DEF ValidAt, Settled
    <3> QED
      BY <3>4, <3>5
  <2> QED
    BY <1>1, <1>3, <2>1, <2>2, <2>3 DEF Precedes
<1> QED
  <2>1. <<p, n>>[1] = p /\ <<p, n>>[2] = n
    OBVIOUS
  <2> QED
    BY <1>6, <1>7, <2>1

\* An accepted event that is not lost is settled only by the state.
LEMMA StateSettled ==
    ASSUME NEW e \in Accepted, e \notin lost, stateKeyForEvent(e) \notin expired, Settled(e)
    PROVE  e.ts <= hash[stateKeyForEvent(e)].last_seen /\ Reflected(e)
BY DEF Settled

\* A script that writes is of a record that counts: whatever is below it and
\* newer would be in the state already.
LEMMA WriterCounts ==
    ASSUME TypeOK, NEW k \in Keys, Intact(k), NEW r \in RecordsOf(k),
           \A o \in 1 .. r[2] : o < r[2] => Settled(raw[r[1]][o]),
           hash[k].last_seen <= At(r).ts
    PROVE  r \in Counts(k)
<1> SUFFICES ASSUME NEW q \in RecordsOf(k), q[2] < r[2]
             PROVE  At(q).ts <= At(r).ts
  BY DEF Counts
<1>1. r[2] \in Nat /\ At(r).ts \in Nat
  BY RecordFacts
<1>2. /\ q[2] \in Nat /\ q[2] \in 1 .. Len(raw[q[1]]) /\ At(q) = raw[q[1]][q[2]]
      /\ At(q).ts \in Nat /\ At(q) \in Accepted /\ stateKeyForEvent(At(q)) = k
  BY RecordFacts
<1>3. q[1] = r[1]
  BY OnePartition
<1>4. q[2] \in 1 .. r[2]
  BY <1>1, <1>2
<1>5. Settled(At(q))
  BY <1>2, <1>3, <1>4
<1>6. At(q).ts <= hash[k].last_seen
  BY <1>2, <1>5, StateSettled DEF Intact
<1> QED
  BY <1>1, <1>2, <1>6 DEF TypeOK

\* A stale script finds its event settled: if it counts, the record that made the
\* script stale was written after it.
LEMMA StaleSettled ==
    ASSUME IndInv, NEW e \in Accepted, NEW k \in Keys, k = stateKeyForEvent(e),
           e.ts < hash[k].last_seen
    PROVE  Settled(e)
<1>0. TypeOK /\ Traced(k) /\ e.ts \in Nat /\ hash[k].last_seen \in Nat
  BY EventsAssumption DEF IndInv, StateTraced, TypeOK
<1>1. CASE ~Counted(e)
  BY <1>0, <1>1 DEF Settled, Reflected
<1>2. ASSUME NEW r \in Counts(k), At(r) = e PROVE Settled(e)
  <2>1. PICK q \in RecordsOf(k) : At(q).ts = hash[k].last_seen /\ SettledUpTo(q)
    BY <1>0 DEF Traced
  <2>2. r \in RecordsOf(k) /\ q[1] = r[1]
    BY <1>0, OnePartition DEF Counts
  <2>3. q[2] \in Nat /\ At(q).ts \in Nat
    BY <1>0, <2>1, RecordFacts
  <2>4. r[2] \in Nat /\ r[2] \in 1 .. Len(raw[r[1]]) /\ At(r) = raw[r[1]][r[2]]
    BY <1>0, <2>2, RecordFacts
  <2>5. ~(q[2] < r[2])
    BY <1>0, <1>2, <2>1, <2>3, CountsAscend
  <2> QED
    BY <1>2, <2>1, <2>2, <2>3, <2>4, <2>5 DEF SettledUpTo
<1> QED
  BY <1>1, <1>2 DEF Counted

\* The raw topic stays as it is and what is settled stays settled.
OnlySettles ==
    /\ raw' = raw
    /\ \A e \in Events : Settled(e) => Settled(e)'

\* Losses and expiries are never taken back.
LEMMA IntactBefore ==
    ASSUME lost \subseteq lost', expired \subseteq expired', NEW k, Intact(k)'
    PROVE  Intact(k)
BY DEF Intact, stateKeyForEvent

\* A source stays a source.
LEMMA SourcesKept ==
    ASSUME raw' = raw, lost \subseteq lost', expired \subseteq expired',
           NEW k, NEW f, NEW r \in RecordsOf(k), Carries(At(r), f),
           Intact(k) => r \in Counts(k)
    PROVE  r \in Sources(k, f)'
<1>1. Intact(k)' => Intact(k)
  BY IntactBefore
<1> QED
  BY <1>1, TopicFixed DEF Sources

\* A field that does not change shows what it showed.
LEMMA ShowsKept ==
    ASSUME raw' = raw, lost \subseteq lost', expired \subseteq expired',
           NEW k, NEW f, hash'[k][f] = hash[k][f], NEW r, Shows(k, f, r)
    PROVE  Shows(k, f, r)'
<1>1. r \in Sources(k, f)'
  BY SourcesKept DEF Shows, Sources
<1> QED
  BY <1>1, TopicFixed DEF Shows

\* Where the hash of its key does not change, a settled event stays settled.
LEMMA SettledFrame ==
    ASSUME raw' = raw, lost \subseteq lost', expired \subseteq expired',
           NEW e, Settled(e), NEW k, k = stateKeyForEvent(e), hash'[k] = hash[k]
    PROVE  Settled(e)'
<1>1. stateKeyForEvent(e)' = k
  BY TopicFixed
<1>2. ASSUME NEW f, Fresh(e, f) PROVE Fresh(e, f)'
  <2>1. PICK r : Shows(k, f, r) /\ e.ts <= At(r).ts
    BY <1>2 DEF Fresh
  <2>2. Shows(k, f, r)' /\ At(r)' = At(r)
    BY <2>1, ShowsKept, TopicFixed
  <2> QED
    BY <1>1, <2>1, <2>2 DEF Fresh
<1>3. Reflected(e) => Reflected(e)'
  BY <1>2, TopicFixed DEF Reflected
<1> QED
  BY <1>1, <1>3 DEF Settled

\* A script that writes: the fields of its event show its record.
LEMMA WriteShows ==
    ASSUME raw' = raw, lost \subseteq lost', expired \subseteq expired',
           NEW k \in Keys, NEW r \in RecordsOf(k), Intact(k) => r \in Counts(k),
           hash'[k] = stateArgs(hash[k], At(r)), NEW f \in Fields, Carries(At(r), f)
    PROVE  Shows(k, f, r)'
<1>1. r \in Sources(k, f)'
  BY SourcesKept
<1>2. hash'[k][f] = Carried(At(r), f)
  BY ArgsByField
<1>3. hash'[k][f] = Carried(At(r), f)'
  BY <1>2, TopicFixed
<1> QED
  BY <1>1, <1>3 DEF Shows

\* The other fields keep the record they showed.
LEMMA WriteKeeps ==
    ASSUME raw' = raw, lost \subseteq lost', expired \subseteq expired',
           NEW k \in Keys, NEW e,
           hash'[k] = stateArgs(hash[k], e), NEW f \in Fields, ~Carries(e, f)
    PROVE  /\ hash'[k][f] = hash[k][f]
           /\ \A q : Shows(k, f, q) => Shows(k, f, q)'
<1>1. hash'[k][f] = hash[k][f]
  BY ArgsByField
<1> QED
  BY <1>1, ShowsKept

\* The topic is not the group's to change.
LEMMA RawFixed == [Next]_vars => raw' = raw
<1> SUFFICES ASSUME [Next]_vars PROVE raw' = raw
  OBVIOUS
<1>1. ASSUME NEW w \in Workers,
             WorkerStep(w) \/ LoseSession(w) \/ Rejoin(w)
      PROVE  raw' = raw
  BY <1>1 DEF WorkerStep, Open, newReader, Fetch, FetchMessage, StartApply,
     fillBatchReturns, Exit, WorkerExits, ApplyNext, ApplyReturns,
     ApplyFailsOnce, ApplyGivesUp, GroupUnchanged, Commit, CommitMessages,
     CommitFails, LoseSession, SessionLost, Rejoin, HeartbeatRefused
<1>2. (\E k \in Keys : Expire(k)) \/ Reassign \/ Terminate \/ Start \/ Idle
      \/ UNCHANGED vars => raw' = raw
  BY DEF Expire, GroupUnchanged, Reassign, Rebalance, Terminate, Shutdown,
     Start, Crash, Restart, FreshProcess, Idle, Stopped, vars, groupVars
<1> QED
  BY <1>1, <1>2 DEF Next

\* Losses and expiries only accumulate.
LEMMA LossesGrow ==
    ASSUME IndInv, [Next]_vars
    PROVE  lost \subseteq lost' /\ expired \subseteq expired'
BY StateChanges DEF ApplyNext, Expire

\* A script that writes keeps every settled event of the key settled: a field
\* it overwrites shows something as new.
LEMMA WriteSettles ==
    ASSUME TypeOK, raw' = raw, UNCHANGED <<lost, expired>>, NEW k \in Keys,
           NEW e \in Events, NEW r \in RecordsOf(k), At(r) = e,
           Intact(k) => r \in Counts(k),
           hash'[k] = stateArgs(hash[k], e), hash[k].last_seen <= e.ts,
           NEW g \in Events, stateKeyForEvent(g) = k, Settled(g)
    PROVE  Settled(g)'
<1>0. /\ hash[k].last_seen \in Nat /\ e.ts \in Nat /\ g.ts \in Nat
      /\ hash'[k].last_seen = e.ts
  BY EventsAssumption, ArgsTime DEF TypeOK
<1>1. stateKeyForEvent(g)' = k
  BY TopicFixed
<1>2. CASE g \notin Accepted \/ g \in lost \/ k \in expired
  BY <1>1, <1>2 DEF Settled
<1>3. CASE g \in Accepted /\ g \notin lost /\ k \notin expired
  <2>1. g.ts <= hash[k].last_seen /\ Reflected(g)
    BY <1>3 DEF Settled
  <2>2. g.ts <= hash'[k].last_seen /\ g.ts <= e.ts
    BY <1>0, <2>1
  <2>3. ASSUME Counted(g), NEW f \in Fields, Carries(g, f) PROVE Fresh(g, f)'
    <3>1. CASE Carries(e, f)
      <4>1. Shows(k, f, r)' /\ At(r)' = e
        BY <3>1, WriteShows, TopicFixed
      <4> QED
        BY <1>1, <2>2, <4>1 DEF Fresh
    <3>2. CASE ~Carries(e, f)
      <4>1. PICK q : Shows(k, f, q) /\ g.ts <= At(q).ts
        BY <2>1, <2>3 DEF Reflected, Fresh
      <4>2. Shows(k, f, q)' /\ At(q)' = At(q)
        BY <3>2, <4>1, WriteKeeps, TopicFixed
      <4> QED
        BY <1>1, <4>1, <4>2 DEF Fresh
    <3> QED
      BY <3>1, <3>2
  <2>4. Reflected(g)'
    BY <2>3, TopicFixed DEF Reflected, Carries
  <2> QED
    BY <1>1, <2>2, <2>4 DEF Settled
<1> QED
  BY <1>2, <1>3

\* No step undoes an update: the CAS keeps the newest time, and an expiry is
\* on record.
LEMMA SettleStep == IndInv /\ [Next]_vars => OnlySettles
<1> SUFFICES ASSUME IndInv, [Next]_vars PROVE OnlySettles
  OBVIOUS
<1>0. /\ TypeOK /\ (\A w \in Workers : WorkerInv(w)) /\ raw' = raw
      /\ lost \subseteq lost' /\ expired \subseteq expired'
  BY RawFixed, LossesGrow DEF IndInv
<1>1. \A g \in Events : stateKeyForEvent(g) \in Keys
  BY DEF Keys
<1>2. CASE UNCHANGED <<hash, expired>> /\ lost \subseteq lost'
  BY <1>0, <1>2, SettledFrame DEF OnlySettles
<1>3. ASSUME NEW w \in Workers, ApplyNext(w) PROVE OnlySettles
  <2>1. PICK i \in 1 .. Len(batch[w]), e \in Events, k \in Keys :
          /\ e = Value(batch[w][i]) /\ k = stateKeyForEvent(e) /\ e \in Accepted
          /\ \A j \in ValidAt(w) : j < i => j <= applied[w]
          /\ hash' = [hash EXCEPT ![k] = casScript(hash[k], e)]
    BY <1>0, <1>3, ScriptRuns
  <2>2. DOMAIN hash = Keys /\ hash[k].last_seen \in Nat /\ e.ts \in Nat
    BY <1>0, EventsAssumption DEF TypeOK
  <2>3. /\ \A l \in Keys : l # k => hash'[l] = hash[l]
        /\ hash'[k] = casScript(hash[k], e)
    BY <2>1, <2>2
  <2>4. UNCHANGED <<lost, expired>>
    BY <1>3 DEF ApplyNext
  <2>5. ASSUME NEW g \in Events, Settled(g) PROVE Settled(g)'
    <3>1. CASE stateKeyForEvent(g) # k \/ hash'[k] = hash[k]
      BY <1>0, <1>1, <2>3, <2>5, <3>1, SettledFrame
    <3>2. CASE stateKeyForEvent(g) = k /\ hash'[k] # hash[k]
      <4>1. hash'[k] = stateArgs(hash[k], e) /\ hash[k].last_seen <= e.ts
        BY <2>2, <2>3, <3>2 DEF casScript
      <4>2. PICK r \in RecordsOf(k) :
              At(r) = e /\ \A o \in 1 .. r[2] : o < r[2] => Settled(raw[r[1]][o])
        BY <2>1, ScriptRecord
      <4>3. Intact(k) => r \in Counts(k)
        BY <1>0, <4>1, <4>2, WriterCounts
      <4> QED
        BY <1>0, <2>4, <2>5, <3>2, <4>1, <4>2, <4>3, WriteSettles
    <3> QED
      BY <3>1, <3>2
  <2> QED
    BY <1>0, <2>5 DEF OnlySettles
<1>4. ASSUME NEW k \in Keys, Expire(k) PROVE OnlySettles
  <2>1. /\ hash' = [hash EXCEPT ![k] = NoHash] /\ expired' = expired \cup {k}
        /\ lost' = lost /\ DOMAIN hash = Keys
    BY <1>0, <1>4 DEF Expire, TypeOK
  <2>2. ASSUME NEW g \in Events, Settled(g) PROVE Settled(g)'
    <3>1. CASE stateKeyForEvent(g) = k
      <4>1. stateKeyForEvent(g)' = k
        BY <1>0, <3>1, TopicFixed
      <4> QED
        BY <2>1, <4>1 DEF Settled
    <3>2. CASE stateKeyForEvent(g) # k
      <4>1. hash'[stateKeyForEvent(g)] = hash[stateKeyForEvent(g)]
        BY <1>1, <2>1, <3>2
      <4> QED
        BY <1>0, <2>2, <4>1, SettledFrame
    <3> QED
      BY <3>1, <3>2
  <2> QED
    BY <1>0, <2>2 DEF OnlySettles
<1> QED
  BY <1>2, <1>3, <1>4, StateChanges

\* The Redis side keeps its types.
LEMMA StateTypeStep == IndInv /\ [Next]_vars => StateType'
<1> SUFFICES ASSUME IndInv, [Next]_vars PROVE StateType'
  OBVIOUS
<1>0. /\ TypeOK /\ StateType /\ batch \in [Workers -> Seq(Message)]
      /\ \A w \in Workers : WorkerInv(w) /\ ReadsExist(w) /\ ApplyProgress(w)
  BY DEF IndInv, WorkerInv, TypeOK, StateType, GroupTypeOK
<1>1. ASSUME UNCHANGED stateVars,
             \A w \in Workers : applied[w] = 0 \/ batch'[w] = batch[w],
             batch' \in [Workers -> Seq(Message)]
      PROVE  StateType'
  <2>1. ASSUME NEW w \in Workers PROVE applied'[w] <= Len(batch'[w])
    <3>1. batch'[w] \in Seq(Message) /\ applied' = applied
      BY <1>1 DEF stateVars
    <3>2. CASE applied[w] = 0
      BY <3>1, <3>2
    <3>3. CASE batch'[w] = batch[w]
      BY <1>0, <3>1, <3>3 DEF StateType
    <3> QED
      BY <1>1, <3>2, <3>3
  <2> QED
    BY <1>0, <1>1, <2>1 DEF StateType, stateVars
<1>2. ASSUME NEW w \in Workers, Open(w) \/ StartApply(w) \/ Exit(w)
             \/ LoseSession(w) \/ Rejoin(w)
      PROVE  StateType'
  <2>1. batch' = batch /\ UNCHANGED stateVars
    BY <1>2 DEF Open, newReader, StartApply, fillBatchReturns, Exit, WorkerExits,
       LoseSession, SessionLost, Rejoin, HeartbeatRefused, Untouched
  <2> QED
    BY <1>0, <1>1, <2>1
<1>3. ASSUME NEW w \in Workers, Fetch(w) \/ Commit(w) PROVE StateType'
  <2>1. pc[w] \in {"fill", "commit"} /\ UNCHANGED stateVars
    BY <1>3 DEF Fetch, FetchMessage, Commit, CommitMessages, CommitFails, Untouched
  <2>2. applied[w] = 0
    BY <1>0, <2>1 DEF ApplyProgress
  <2>3. \A v \in Workers : v # w => batch'[v] = batch[v]
    BY <1>0, <1>3 DEF Fetch, FetchMessage, Commit, CommitMessages, CommitFails
  <2>4. batch' \in [Workers -> Seq(Message)]
    BY GroupTypeStep DEF GroupTypeOK
  <2> QED
    BY <1>1, <2>1, <2>2, <2>3, <2>4
<1>4. ASSUME NEW w \in Workers, ApplyNext(w) PROVE StateType'
  <2>1. PICK i \in 1 .. Len(batch[w]), e \in Events, k \in Keys :
          /\ hash' = [hash EXCEPT ![k] = casScript(hash[k], e)]
          /\ applied' = [applied EXCEPT ![w] = i]
    BY <1>0, <1>4, ScriptRuns
  <2>2. DOMAIN hash' = Keys /\ \A l \in Keys : hash'[l].last_seen \in Nat
    BY <1>0, <2>1, CasForward DEF StateType
  <2>3. UNCHANGED <<batch, attempt, lost, expired>>
    BY <1>4 DEF ApplyNext, GroupUnchanged
  <2>4. /\ applied' \in [Workers -> Nat]
        /\ \A v \in Workers : applied'[v] <= Len(batch'[v])
    BY <1>0, <2>1, <2>3 DEF StateType
  <2> QED
    BY <1>0, <2>2, <2>3, <2>4 DEF StateType
<1>5. ASSUME NEW w \in Workers, ApplyReturns(w) \/ ApplyFailsOnce(w) \/ ApplyGivesUp(w)
      PROVE  StateType'
  <2>1. /\ applied' = [applied EXCEPT ![w] = 0] /\ UNCHANGED <<hash, batch, expired>>
        /\ (attempt' = [attempt EXCEPT ![w] = 1] \/ attempt' = [attempt EXCEPT ![w] = 2])
    BY <1>5 DEF ApplyReturns, ApplyFailsOnce, ApplyGivesUp, GroupUnchanged
  <2>2. lost' \subseteq Events
    <3>1. \A i \in 1 .. Len(batch[w]) : Value(batch[w][i]) \in Events
      BY <1>0, BatchEvents
    <3> QED
      BY <1>0, <1>5, <3>1 DEF ApplyReturns, ApplyFailsOnce, ApplyGivesUp, StateType
  <2>3. /\ applied' \in [Workers -> Nat]
        /\ \A v \in Workers : applied'[v] <= Len(batch'[v])
    BY <1>0, <2>1 DEF StateType
  <2> QED
    BY <1>0, <2>1, <2>2, <2>3 DEF StateType
<1>6. ASSUME NEW k \in Keys, Expire(k) PROVE StateType'
  <2>1. NoHash.last_seen \in Nat
    BY DEF NoHash
  <2>2. /\ hash' = [hash EXCEPT ![k] = NoHash] /\ expired' = expired \cup {k}
        /\ UNCHANGED <<batch, applied, attempt, lost>>
    BY <1>6 DEF Expire, GroupUnchanged
  <2>3. DOMAIN hash' = Keys /\ \A l \in Keys : hash'[l].last_seen \in Nat
    BY <1>0, <2>1, <2>2 DEF StateType
  <2> QED
    BY <1>0, <2>2, <2>3 DEF StateType
<1>7. CASE Reassign \/ Terminate \/ Idle \/ UNCHANGED vars
  <2>1. batch' = batch /\ UNCHANGED stateVars
    BY <1>7 DEF Reassign, Rebalance, Terminate, Shutdown, Idle, Stopped, Untouched,
       vars, groupVars
  <2> QED
    BY <1>0, <1>1, <2>1
<1>8. CASE Start
  <2>1. /\ applied' = [w \in Workers |-> 0] /\ attempt' = [w \in Workers |-> 1]
        /\ batch' = [w \in Workers |-> <<>>] /\ UNCHANGED <<hash, lost, expired>>
    BY <1>8 DEF Start, Crash, Restart, FreshProcess
  <2>2. \A w \in Workers : applied'[w] <= Len(batch'[w])
    BY <2>1
  <2> QED
    BY <1>0, <2>1, <2>2 DEF StateType
<1> QED
  BY <1>2, <1>3, <1>4, <1>5, <1>6, <1>7, <1>8 DEF Next, WorkerStep

\* Every step of applyBatch and of the group keeps TypeOK.
LEMMA TypeStep == IndInv /\ [Next]_vars => TypeOK'
BY GroupTypeStep, StateTypeStep DEF TypeOK, StateType

----------------------------------------------------------------------------
(* What a step leaves alone *)

\* Everything the invariant says about a worker, apart from Redis.
LocalState(w) == <<pc[w], batch[w], pos[w], assigned[w], session[w], applied[w]>>

\* What is handled stays handled while the worker keeps its batch.
LEMMA HandledGrows ==
    ASSUME TypeOK, OnlySettles, NEW w \in Workers, NEW p \in Partitions,
           NEW o \in 1 .. Len(raw[p]), Handled(w, p, o), batch'[w] = batch[w]
    PROVE  Handled(w, p, o)'
<1>1. PICK e \in Events : e = raw[p][o]
  BY RawEvents
<1>2. raw'[p][o] = e
  BY <1>1 DEF OnlySettles
<1>3. Settled(e) => Settled(e)'
  BY DEF OnlySettles
<1>4. InBatch(w, p, o) => InBatch(w, p, o)'
  BY DEF InBatch
<1> QED
  BY <1>1, <1>2, <1>3, <1>4 DEF Handled

\* A step that leaves a worker's reader and batch alone skips nothing.
LEMMA SkipsNothingFrame ==
    ASSUME TypeOK, OnlySettles, NEW w \in Workers, ReadsExist(w), SkipsNothing(w),
           pos'[w] = pos[w], assigned'[w] \subseteq assigned[w], batch'[w] = batch[w]
    PROVE  SkipsNothing(w)'
<1>0. raw' = raw
  BY DEF OnlySettles
<1>1. ASSUME NEW p \in assigned'[w], NEW o \in 1 .. pos[w][p]
      PROVE  Handled(w, p, o)'
  <2>1. p \in Partitions /\ p \in assigned[w]
    BY DEF TypeOK, GroupTypeOK
  <2>2. o \in 1 .. Len(raw[p])
    BY <2>1, RawEvents DEF ReadsExist, TypeOK, GroupTypeOK
  <2>3. Handled(w, p, o)
    BY <2>1 DEF SkipsNothing
  <2> QED
    BY <2>1, <2>2, <2>3, HandledGrows
<1> QED
  BY <1>1 DEF SkipsNothing

\* What precedes a message in a batch is handled.
LEMMA PrecedesHandled ==
    ASSUME TypeOK, NEW w \in Workers, NEW i \in 1 .. Len(batch[w]), NEW o, Precedes(w, i, o)
    PROVE  Handled(w, batch[w][i].part, o)
<1>1. \A j \in 1 .. i : j \in 1 .. Len(batch[w])
  BY DEF TypeOK, GroupTypeOK
<1> QED
  BY <1>1 DEF Precedes, Handled, InBatch

\* A batch the worker keeps stays in order.
LEMMA InOrderFrame ==
    ASSUME TypeOK, OnlySettles, NEW w \in Workers, ReadsExist(w), InOrder(w),
           batch'[w] = batch[w]
    PROVE  InOrder(w)'
<1>1. ASSUME NEW i \in 1 .. Len(batch[w]), NEW o \in 1 .. batch[w][i].off
      PROVE  Precedes(w, i, o)'
  <2>1. PICK m \in Message : m = batch[w][i]
    BY DEF TypeOK, GroupTypeOK
  <2>2. m.part \in Partitions /\ m.off \in Nat
    BY DEF Message
  <2>3. o \in 1 .. Len(raw[m.part])
    BY <2>1, <2>2, RawEvents DEF ReadsExist
  <2>4. PICK e \in Events : e = raw[m.part][o]
    BY <2>2, <2>3, RawEvents
  <2>5. raw'[m.part][o] = e /\ (Settled(e) => Settled(e)')
    BY <2>4 DEF OnlySettles
  <2>6. Precedes(w, i, o)
    BY DEF InOrder
  <2>7. CASE Settled(raw[m.part][o])
    <3>1. Settled(e)'
      BY <2>4, <2>5, <2>7
    <3> QED
      BY <2>1, <2>5, <3>1 DEF Precedes
  <2>8. CASE \E j \in 1 .. i : batch[w][j] = [part |-> m.part, off |-> o]
    BY <2>1, <2>8 DEF Precedes
  <2> QED
    BY <2>1, <2>6, <2>7, <2>8 DEF Precedes
<1> QED
  BY <1>1 DEF InOrder

\* The settled messages of a batch the worker keeps stay settled.
LEMMA BatchFrame ==
    ASSUME TypeOK, OnlySettles, NEW w \in Workers, ReadsExist(w), batch'[w] = batch[w],
           NEW i \in 1 .. Len(batch[w]), Settled(Value(batch[w][i]))
    PROVE  Settled(Value(batch[w][i]))'
<1>1. PICK e \in Events : e = Value(batch[w][i])
  BY BatchEvents
<1>2. Value(batch[w][i])' = e
  BY <1>1 DEF Value, OnlySettles
<1>3. Settled(e)'
  BY <1>1 DEF OnlySettles
<1> QED
  BY <1>2, <1>3 DEF Settled

\* A step that leaves a worker's applyBatch alone keeps its progress.
LEMMA ApplyFrame ==
    ASSUME TypeOK, OnlySettles, NEW w \in Workers, ReadsExist(w), ApplyProgress(w),
           pc'[w] = pc[w], batch'[w] = batch[w], applied'[w] = applied[w],
           pc[w] \in {"closed", "stopped"} => assigned'[w] = {} /\ session'[w] = "out"
    PROVE  ApplyProgress(w)'
<1>1. applied[w] \in Nat /\ applied[w] <= Len(batch[w]) /\ Len(batch[w]) \in Nat
  BY DEF TypeOK, GroupTypeOK
<1>2. \A i \in 1 .. applied[w] : i \in 1 .. Len(batch[w])
  BY <1>1
<1>3. \A i \in 1 .. applied[w] : Settled(Value(batch[w][i]))'
  BY <1>2, BatchFrame DEF ApplyProgress
<1>4. pc[w] = "commit" => \A i \in 1 .. Len(batch[w]) : Settled(Value(batch[w][i]))'
  BY BatchFrame DEF ApplyProgress
<1> QED
  BY <1>3, <1>4 DEF ApplyProgress

\* A step that leaves a worker's own state alone leaves its invariant alone.
LEMMA Frame ==
    ASSUME TypeOK, OnlySettles, NEW w \in Workers, WorkerInv(w),
           UNCHANGED LocalState(w)
    PROVE  WorkerInv(w)'
<1>1. /\ pc'[w] = pc[w] /\ batch'[w] = batch[w] /\ pos'[w] = pos[w]
      /\ assigned'[w] = assigned[w] /\ applied'[w] = applied[w]
      /\ session'[w] = session[w] /\ raw' = raw
  BY DEF LocalState, OnlySettles
<1>2. ReadsExist(w)'
  BY <1>1 DEF WorkerInv, ReadsExist
<1>3. ApplyProgress(w)'
  BY <1>1, ApplyFrame DEF WorkerInv, ApplyProgress
<1>4. SkipsNothing(w)'
  BY <1>1, SkipsNothingFrame DEF WorkerInv
<1>5. InOrder(w)'
  BY <1>1, InOrderFrame DEF WorkerInv
<1> QED
  BY <1>2, <1>3, <1>4, <1>5 DEF WorkerInv

\* Whatever a committing worker has handled is settled.
LEMMA HandledSettled ==
    ASSUME NEW w \in Workers, ApplyProgress(w), pc[w] = "commit",
           NEW p, NEW o, Handled(w, p, o)
    PROVE  Settled(raw[p][o])
<1>1. CASE InBatch(w, p, o)
  <2>1. PICK i \in 1 .. Len(batch[w]) : batch[w][i] = [part |-> p, off |-> o]
    BY <1>1 DEF InBatch
  <2>2. Settled(Value(batch[w][i]))
    BY DEF ApplyProgress
  <2>3. Value(batch[w][i]) = raw[p][o]
    BY <2>1 DEF Value
  <2> QED
    BY <2>2, <2>3
<1> QED
  BY <1>1 DEF Handled

----------------------------------------------------------------------------
(* The inductive step *)

\* Only a successful commit moves the committed offsets.
LEMMA CommitterMoves ==
    [Next]_vars => \/ committed' = committed
                   \/ \E w \in Workers : CommitMessages(w)
<1> SUFFICES ASSUME [Next]_vars, committed' # committed
             PROVE  \E w \in Workers : CommitMessages(w)
  OBVIOUS
<1>1. ASSUME NEW w \in Workers,
             \/ Open(w) \/ Fetch(w) \/ StartApply(w) \/ Exit(w) \/ ApplyNext(w)
             \/ ApplyReturns(w) \/ ApplyFailsOnce(w) \/ ApplyGivesUp(w)
             \/ CommitFails(w) \/ LoseSession(w) \/ Rejoin(w)
      PROVE  committed' = committed
  BY <1>1 DEF Open, newReader, Fetch, FetchMessage, StartApply, fillBatchReturns,
     Exit, WorkerExits, ApplyNext, ApplyReturns, ApplyFailsOnce, ApplyGivesUp,
     GroupUnchanged, CommitFails, LoseSession, SessionLost, Rejoin, HeartbeatRefused
<1>2. (\E k \in Keys : Expire(k)) \/ Reassign \/ Terminate \/ Start \/ Idle
      \/ UNCHANGED vars => committed' = committed
  BY DEF Expire, GroupUnchanged, Reassign, Rebalance, Terminate, Shutdown, Start,
     Crash, Restart, FreshProcess, Idle, Stopped, vars, groupVars
<1>3. \A w \in Workers : Commit(w) => CommitMessages(w) \/ CommitFails(w)
  BY DEF Commit
<1> QED
  BY <1>1, <1>2, <1>3 DEF Next, WorkerStep

\* A commit covers only records whose events are settled.
LEMMA CommitStep == IndInv /\ [Next]_vars => CommittedSettled'
<1> SUFFICES ASSUME IndInv, [Next]_vars PROVE CommittedSettled'
  OBVIOUS
<1>0. TypeOK /\ OnlySettles /\ TypeOK'
  BY SettleStep, TypeStep DEF IndInv
<1>1. ASSUME NEW p \in Partitions, NEW o \in 1 .. Len(raw[p]), Settled(raw[p][o])
      PROVE  Settled(raw[p][o])'
  <2>1. PICK e \in Events : e = raw[p][o]
    BY <1>0, RawEvents
  <2>2. raw'[p][o] = e /\ Settled(e)'
    BY <1>0, <1>1, <2>1 DEF OnlySettles
  <2> QED
    BY <2>2
<1>2. ASSUME NEW p \in Partitions, NEW o \in 1 .. committed'[p]
      PROVE  Settled(raw[p][o])
  <2>1. CASE committed' = committed
    BY <1>2, <2>1 DEF IndInv, CommittedSettled
  <2>2. ASSUME NEW w \in Workers, CommitMessages(w)
        PROVE  Settled(raw[p][o])
    <3>1. pc[w] = "commit" /\ StoreOffsets(batch[w]) /\ ApplyProgress(w) /\ InOrder(w)
      BY <2>2 DEF CommitMessages, IndInv, WorkerInv
    <3>2. CASE Offsets(batch[w], p) = {}
      BY <3>1, <3>2 DEF StoreOffsets, IndInv, CommittedSettled
    <3>3. CASE Offsets(batch[w], p) # {}
      <4>1. committed'[p] \in Offsets(batch[w], p)
        BY <3>1, <3>3 DEF StoreOffsets
      <4>2. PICK i \in 1 .. Len(batch[w]) :
              batch[w][i].part = p /\ batch[w][i].off = committed'[p]
        BY <4>1 DEF Offsets
      <4>3. Handled(w, p, o)
        BY <1>0, <3>1, <4>2, PrecedesHandled DEF InOrder
      <4> QED
        BY <3>1, <4>3, HandledSettled
    <3> QED
      BY <3>2, <3>3
  <2> QED
    BY <2>1, <2>2, CommitterMoves
<1>3. \A p \in Partitions : \A o \in 1 .. committed'[p] : o \in 1 .. Len(raw[p])
  BY <1>0 DEF OnlySettles, TypeOK, GroupTypeOK
<1> QED
  BY <1>0, <1>1, <1>2, <1>3 DEF CommittedSettled

\* One more message in hand: what the fetching worker has read is still handled.
LEMMA FetchStep ==
    ASSUME IndInv, [Next]_vars, NEW v \in Workers, Fetch(v)
    PROVE  WorkerInv(v)'
<1>0. /\ TypeOK /\ OnlySettles /\ ReadsExist(v) /\ ApplyProgress(v)
      /\ SkipsNothing(v) /\ InOrder(v)
  BY SettleStep DEF IndInv, WorkerInv
<1>1. PICK p \in Partitions : FetchMessage(v, p)
  BY DEF Fetch
<1>2. /\ raw' = raw /\ pc'[v] = pc[v] /\ pc[v] = "fill" /\ p \in assigned[v]
      /\ UNCHANGED <<hash, lost, expired, applied, assigned>>
      /\ pos[v][p] < Len(raw[p])
  BY <1>1 DEF Fetch, FetchMessage, Untouched, stateVars
<1>3. batch[v] \in Seq(Message) /\ pos[v] \in [Partitions -> Nat]
  BY <1>0 DEF TypeOK, GroupTypeOK
<1>4. PICK n \in Nat : n = pos[v][p] + 1
  BY <1>3
<1>5. PICK k \in Nat : k = Len(batch[v])
  BY <1>3
<1>6. PICK m \in Message : m = [part |-> p, off |-> n]
  <2>1. n \in Nat \ {0}
    BY <1>3, <1>4
  <2> QED
    BY <2>1 DEF Message
<1>7. batch'[v] = Append(batch[v], m) /\ pos'[v] = [pos[v] EXCEPT ![p] = n]
  BY <1>0, <1>1, <1>4, <1>6 DEF FetchMessage, TypeOK, GroupTypeOK
<1>8. /\ Len(batch'[v]) = k + 1
      /\ \A i \in 1 .. k : batch'[v][i] = batch[v][i]
      /\ batch'[v][k + 1] = m
  BY <1>3, <1>5, <1>7
<1>9. ASSUME NEW q \in Partitions, NEW o \in 1 .. pos[v][q], q \in assigned[v]
      PROVE  Settled(raw[q][o])' \/ \E j \in 1 .. k : batch'[v][j] = [part |-> q, off |-> o]
  <2>1. Handled(v, q, o)
    BY <1>0, <1>9 DEF SkipsNothing
  <2>2. CASE Settled(raw[q][o])
    <3>1. o \in 1 .. Len(raw[q])
      BY <1>0, <1>3, RawEvents DEF ReadsExist
    <3>2. PICK e \in Events : e = raw[q][o]
      BY <1>0, <3>1, RawEvents
    <3>3. Settled(e)' /\ raw'[q][o] = e
      BY <1>0, <2>2, <3>2 DEF OnlySettles
    <3> QED
      BY <3>3
  <2>3. CASE InBatch(v, q, o)
    BY <1>5, <1>8, <2>3 DEF InBatch
  <2> QED
    BY <2>1, <2>2, <2>3 DEF Handled
<1>10. ASSUME NEW o \in 1 .. n
       PROVE  Settled(raw[p][o])' \/ \E j \in 1 .. k + 1 : batch'[v][j] = [part |-> p, off |-> o]
  <2>1. CASE o = n
    BY <1>5, <1>6, <1>8, <2>1
  <2>2. CASE o \in 1 .. pos[v][p]
    BY <1>2, <1>5, <1>9, <2>2
  <2> QED
    BY <1>3, <1>4, <2>1, <2>2
<1>11. SkipsNothing(v)'
  <2>1. ASSUME NEW q \in assigned'[v], NEW o \in 1 .. pos'[v][q]
        PROVE  Handled(v, q, o)'
    <3>1. q \in Partitions /\ q \in assigned[v]
      BY <1>0, <1>2 DEF TypeOK, GroupTypeOK
    <3>2. Settled(raw[q][o])' \/ \E j \in 1 .. k + 1 : batch'[v][j] = [part |-> q, off |-> o]
      <4>1. CASE q = p
        BY <1>3, <1>7, <1>10, <3>1, <4>1
      <4>2. CASE q # p
        BY <1>3, <1>5, <1>7, <1>9, <3>1, <4>2
      <4> QED
        BY <4>1, <4>2
    <3> QED
      BY <1>8, <3>2 DEF Handled, InBatch
  <2> QED
    BY <2>1 DEF SkipsNothing
<1>12. InOrder(v)'
  <2>1. ASSUME NEW i \in 1 .. k + 1, NEW o \in 1 .. batch'[v][i].off
        PROVE  Precedes(v, i, o)'
    <3>1. CASE i \in 1 .. k
      <4>1. PICK x \in Message : x = batch[v][i] /\ x.off <= Len(raw[x.part])
        BY <1>0, <1>3, <1>5, <3>1 DEF ReadsExist
      <4>2. batch'[v][i] = x /\ x.part \in Partitions /\ x.off \in Nat
        BY <1>8, <3>1, <4>1 DEF Message
      <4>3. Precedes(v, i, o)
        BY <1>0, <1>5, <3>1, <4>1, <4>2 DEF InOrder
      <4>4. CASE Settled(raw[x.part][o])
        <5>1. o \in 1 .. Len(raw[x.part])
          BY <1>0, <4>1, <4>2, RawEvents
        <5>2. PICK e \in Events : e = raw[x.part][o]
          BY <1>0, <4>2, <5>1, RawEvents
        <5>3. Settled(e)' /\ raw'[x.part][o] = e
          BY <1>0, <4>4, <5>2 DEF OnlySettles
        <5> QED
          BY <4>2, <5>3 DEF Precedes
      <4>5. ASSUME NEW j \in 1 .. i, batch[v][j] = [part |-> x.part, off |-> o]
            PROVE  Precedes(v, i, o)'
        <5>1. batch'[v][j] = [part |-> x.part, off |-> o]
          BY <1>5, <1>8, <3>1, <4>5
        <5> QED
          BY <4>2, <5>1 DEF Precedes
      <4> QED
        BY <4>1, <4>3, <4>4, <4>5 DEF Precedes
    <3>2. CASE i = k + 1
      <4>1. batch'[v][i].part = p /\ batch'[v][i].off = n
        BY <1>6, <1>8, <3>2
      <4> QED
        BY <1>10, <2>1, <3>2, <4>1 DEF Precedes
    <3> QED
      BY <1>5, <3>1, <3>2
  <2> QED
    BY <1>8, <2>1 DEF InOrder
<1>13. ReadsExist(v)'
  <2>1. \A q \in Partitions : Len(raw[q]) \in Nat
    BY <1>0, RawEvents
  <2>2. ASSUME NEW q \in Partitions PROVE pos'[v][q] <= Len(raw'[q])
    BY <1>0, <1>2, <1>3, <1>4, <1>7, <2>1 DEF ReadsExist
  <2>3. ASSUME NEW i \in 1 .. k + 1
        PROVE  batch'[v][i].off <= Len(raw'[batch'[v][i].part])
    <3>1. CASE i \in 1 .. k
      BY <1>0, <1>2, <1>5, <1>8, <3>1 DEF ReadsExist
    <3>2. CASE i = k + 1
      BY <1>2, <1>3, <1>4, <1>6, <1>8, <2>1, <3>2
    <3> QED
      BY <3>1, <3>2
  <2> QED
    BY <1>8, <2>2, <2>3 DEF ReadsExist
<1>14. ApplyProgress(v)'
  <2>1. applied'[v] = 0
    BY <1>0, <1>2 DEF ApplyProgress
  <2> QED
    BY <1>2, <2>1 DEF ApplyProgress
<1> QED
  BY <1>11, <1>12, <1>13, <1>14 DEF WorkerInv

\* What a script that is not stale does to the state of its key: it writes a
\* record above settled ones only, which counts if nothing was lost.
LEMMA ScriptWrites ==
    ASSUME IndInv, NEW w \in Workers, NEW i \in 1 .. Len(batch[w]),
           NEW e \in Accepted, NEW k \in Keys, e = Value(batch[w][i]),
           k = stateKeyForEvent(e), \A j \in ValidAt(w) : j < i => j <= applied[w],
           hash'[k] = casScript(hash[k], e), ~(e.ts < hash[k].last_seen)
    PROVE  /\ hash'[k] = stateArgs(hash[k], e)
           /\ \E r \in RecordsOf(k) :
                /\ At(r) = e /\ (Intact(k) => r \in Counts(k))
                /\ \A o \in 1 .. r[2] : o < r[2] => Settled(raw[r[1]][o])
<1>0. TypeOK /\ hash[k].last_seen \in Nat /\ e.ts \in Nat
  BY EventsAssumption DEF IndInv, TypeOK
<1>1. hash'[k] = stateArgs(hash[k], e)
  BY <1>0 DEF casScript
<1>2. PICK r \in RecordsOf(k) :
        At(r) = e /\ \A o \in 1 .. r[2] : o < r[2] => Settled(raw[r[1]][o])
  BY ScriptRecord
<1>3. hash[k].last_seen <= At(r).ts
  BY <1>0, <1>2
<1>4. Intact(k) => r \in Counts(k)
  BY <1>0, <1>2, <1>3, WriterCounts
<1> QED
  BY <1>1, <1>2, <1>4

\* A script settles its event: it writes it, or finds it superseded.
LEMMA ScriptSettles ==
    ASSUME IndInv, [Next]_vars, NEW w \in Workers, ApplyNext(w),
           NEW i \in 1 .. Len(batch[w]), NEW e \in Accepted, NEW k \in Keys,
           e = Value(batch[w][i]), k = stateKeyForEvent(e),
           \A j \in ValidAt(w) : j < i => j <= applied[w],
           hash' = [hash EXCEPT ![k] = casScript(hash[k], e)]
    PROVE  Settled(e)'
<1>0. /\ TypeOK /\ OnlySettles /\ raw' = raw /\ UNCHANGED <<lost, expired>>
      /\ e \in Events /\ e.ts \in Nat /\ hash[k].last_seen \in Nat
  BY SettleStep, EventsAssumption DEF IndInv, OnlySettles, ApplyNext, TypeOK
<1>1. hash'[k] = casScript(hash[k], e) /\ stateKeyForEvent(e)' = k
  BY <1>0, TopicFixed DEF TypeOK
<1>2. e.ts <= hash'[k].last_seen
  BY <1>0, <1>1, CasForward
<1>3. CASE e.ts < hash[k].last_seen
  <2>1. Settled(e)
    BY <1>3, StaleSettled
  <2> QED
    BY <1>0, <2>1 DEF OnlySettles
<1>4. CASE ~(e.ts < hash[k].last_seen)
  <2>1. hash'[k] = stateArgs(hash[k], e)
    BY <1>1, <1>4, ScriptWrites
  <2>2. PICK r \in RecordsOf(k) : At(r) = e /\ (Intact(k) => r \in Counts(k))
    BY <1>1, <1>4, ScriptWrites
  <2>3. ASSUME NEW f \in Fields, Carries(e, f) PROVE Fresh(e, f)'
    <3>1. Shows(k, f, r)' /\ At(r)' = e
      BY <1>0, <2>1, <2>2, <2>3, WriteShows, TopicFixed
    <3> QED
      BY <1>0, <1>1, <3>1 DEF Fresh
  <2>4. Reflected(e)'
    BY <2>3 DEF Reflected, Carries
  <2> QED
    BY <1>1, <1>2, <2>4 DEF Settled
<1> QED
  BY <1>3, <1>4

\* Every step keeps the state traceable to the topic.
LEMMA TracedStep == IndInv /\ [Next]_vars => StateTraced'
<1> SUFFICES ASSUME IndInv, [Next]_vars, NEW k \in Keys
             PROVE  HasFields(hash'[k]) /\ Traced(k)'
  BY DEF StateTraced, Keys, stateKeyForEvent
<1>0. /\ TypeOK /\ OnlySettles /\ raw' = raw /\ (\A w \in Workers : WorkerInv(w))
      /\ HasFields(hash[k]) /\ Traced(k)
      /\ lost \subseteq lost' /\ expired \subseteq expired'
  BY SettleStep, LossesGrow DEF IndInv, OnlySettles, StateTraced
<1>1. ASSUME NEW r \in RecordsOf(k), NEW o \in 1 .. r[2], Settled(raw[r[1]][o])
      PROVE  Settled(raw[r[1]][o])'
  <2>1. r[1] \in Partitions /\ r[2] \in 1 .. Len(raw[r[1]]) /\ Len(raw[r[1]]) \in Nat
    BY <1>0, RecordFacts, RawEvents
  <2>2. o \in 1 .. Len(raw[r[1]])
    BY <2>1
  <2>3. PICK e \in Events : e = raw[r[1]][o]
    BY <1>0, <2>1, <2>2, RawEvents
  <2>4. Settled(e)' /\ raw'[r[1]][o] = e
    BY <1>0, <1>1, <2>3 DEF OnlySettles
  <2> QED
    BY <2>4
<1>2. CASE hash'[k] = hash[k]
  <2>1. ASSUME NEW f \in Fields
        PROVE  hash'[k][f] = NoHash[f] \/ \E r : Shows(k, f, r)'
    <3>1. CASE hash[k][f] = NoHash[f]
      BY <1>2, <3>1
    <3>2. ASSUME NEW r, Shows(k, f, r) PROVE Shows(k, f, r)'
      BY <1>0, <1>2, <3>2, ShowsKept
    <3> QED
      BY <1>0, <3>1, <3>2 DEF Traced
  <2>2. ASSUME NEW r \in RecordsOf(k), At(r).ts = hash[k].last_seen, SettledUpTo(r)
        PROVE  r \in RecordsOf(k)' /\ At(r).ts' = hash'[k].last_seen /\ SettledUpTo(r)'
    <3>1. r \in RecordsOf(k)' /\ At(r).ts' = hash'[k].last_seen
      BY <1>0, <1>2, <2>2, TopicFixed
    <3>2. SettledUpTo(r)'
      BY <1>1, <2>2 DEF SettledUpTo
    <3> QED
      BY <3>1, <3>2
  <2>3. hash'[k].last_seen = 0 \/ \E r \in RecordsOf(k)' :
          At(r).ts' = hash'[k].last_seen /\ SettledUpTo(r)'
    BY <1>0, <1>2, <2>2 DEF Traced
  <2> QED
    BY <1>0, <1>2, <2>1, <2>3 DEF Traced, NoHash
<1>3. CASE UNCHANGED <<hash, expired>> /\ lost \subseteq lost'
  BY <1>2, <1>3
<1>4. ASSUME NEW l \in Keys, Expire(l) PROVE HasFields(hash'[k]) /\ Traced(k)'
  <2>1. hash' = [hash EXCEPT ![l] = NoHash] /\ DOMAIN hash = Keys
    BY <1>0, <1>4 DEF Expire, TypeOK
  <2>2. CASE l = k
    <3>1. hash'[k] = NoHash
      BY <2>1, <2>2
    <3>2. NoHash.last_seen = 0
      BY DEF NoHash
    <3> QED
      BY <3>1, <3>2, HashFields DEF Traced, NoHash
  <2>3. CASE l # k
    BY <1>2, <2>1, <2>3
  <2> QED
    BY <2>2, <2>3
<1>5. ASSUME NEW w \in Workers, ApplyNext(w)
      PROVE  HasFields(hash'[k]) /\ Traced(k)'
  <2>1. PICK i \in 1 .. Len(batch[w]), e \in Events, l \in Keys :
          /\ e = Value(batch[w][i]) /\ l = stateKeyForEvent(e) /\ e \in Accepted
          /\ \A j \in ValidAt(w) : j < i => j <= applied[w]
          /\ hash' = [hash EXCEPT ![l] = casScript(hash[l], e)]
    BY <1>0, <1>5, ScriptRuns
  <2>2. CASE l # k \/ hash'[k] = hash[k]
    BY <1>0, <1>2, <2>1, <2>2 DEF TypeOK
  <2>3. CASE l = k /\ hash'[k] # hash[k]
    <3>1. hash'[k] = casScript(hash[k], e) /\ HasFields(hash'[k])
      BY <1>0, <2>1, <2>3, HashFields DEF TypeOK
    <3>2. ~(e.ts < hash[k].last_seen)
      BY <1>0, <2>3, <3>1, EventsAssumption DEF casScript, TypeOK
    <3>3. /\ e = Value(batch[w][i]) /\ k = stateKeyForEvent(e) /\ e \in Accepted
          /\ \A j \in ValidAt(w) : j < i => j <= applied[w]
      BY <2>1, <2>3
    <3>4. /\ hash'[k] = stateArgs(hash[k], e)
          /\ \E r \in RecordsOf(k) :
               /\ At(r) = e /\ (Intact(k) => r \in Counts(k))
               /\ \A o \in 1 .. r[2] : o < r[2] => Settled(raw[r[1]][o])
      BY <3>1, <3>2, <3>3, ScriptWrites
    <3>5. PICK r \in RecordsOf(k) :
            /\ At(r) = e /\ (Intact(k) => r \in Counts(k))
            /\ \A o \in 1 .. r[2] : o < r[2] => Settled(raw[r[1]][o])
      BY <3>4
    <3>6. Settled(e)'
      BY <1>5, <2>1, ScriptSettles
    <3>7. ASSUME NEW f \in Fields
          PROVE  hash'[k][f] = NoHash[f] \/ \E q : Shows(k, f, q)'
      <4>1. CASE Carries(e, f)
        <5>1. Shows(k, f, r)'
          BY <1>0, <3>4, <3>5, <4>1, WriteShows
        <5> QED
          BY <5>1
      <4>2. CASE ~Carries(e, f)
        <5>1. hash'[k][f] = hash[k][f] /\ \A q : Shows(k, f, q) => Shows(k, f, q)'
          BY <1>0, <3>4, <4>2, WriteKeeps
        <5> QED
          BY <1>0, <5>1 DEF Traced
      <4> QED
        BY <4>1, <4>2
    <3>8. r \in RecordsOf(k)' /\ At(r).ts' = hash'[k].last_seen
      <4>1. hash'[k].last_seen = e.ts
        BY <3>4, ArgsTime
      <4> QED
        BY <1>0, <3>5, <4>1, TopicFixed
    <3>9. SettledUpTo(r)'
      <4>1. r[1] \in Partitions /\ r[2] \in Nat /\ At(r) = raw[r[1]][r[2]]
        BY <1>0, RecordFacts
      <4>2. ASSUME NEW o \in 1 .. r[2] PROVE Settled(raw[r[1]][o])'
        <5>1. CASE o < r[2]
          BY <1>1, <3>5, <5>1
        <5>2. CASE o = r[2]
          <6>1. raw'[r[1]][o] = e
            BY <1>0, <3>5, <4>1, <5>2
          <6> QED
            BY <3>6, <6>1
        <5> QED
          BY <4>1, <5>1, <5>2
      <4> QED
        BY <4>2 DEF SettledUpTo
    <3> QED
      BY <3>1, <3>7, <3>8, <3>9 DEF Traced, NoHash
  <2> QED
    BY <2>2, <2>3
<1> QED
  BY <1>3, <1>4, <1>5, StateChanges

\* The steps of applyBatch settle what they claim to.
LEMMA ApplyStep ==
    ASSUME IndInv, [Next]_vars, NEW v \in Workers,
           ApplyNext(v) \/ ApplyReturns(v) \/ ApplyFailsOnce(v) \/ ApplyGivesUp(v)
    PROVE  WorkerInv(v)'
<1>0. /\ TypeOK /\ OnlySettles /\ TypeOK' /\ WorkerInv(v)
      /\ ReadsExist(v) /\ ApplyProgress(v) /\ SkipsNothing(v) /\ InOrder(v)
  BY SettleStep, TypeStep DEF IndInv, WorkerInv
<1>1. pc[v] = "apply" /\ UNCHANGED <<raw, batch, pos, assigned, session>>
  BY DEF ApplyNext, ApplyReturns, ApplyFailsOnce, ApplyGivesUp, GroupUnchanged
<1>2. ReadsExist(v)'
  BY <1>0, <1>1 DEF ReadsExist
<1>3. SkipsNothing(v)' /\ InOrder(v)'
  BY <1>0, <1>1, SkipsNothingFrame, InOrderFrame
<1>4. /\ applied[v] \in Nat /\ applied[v] <= Len(batch[v]) /\ Len(batch[v]) \in Nat
      /\ \A i \in 1 .. Len(batch[v]) : Value(batch[v][i]) \in Events
  BY <1>0, BatchEvents DEF TypeOK, GroupTypeOK
<1>5. \A i \in 1 .. Len(batch[v]) :
        Settled(Value(batch[v][i])) => Settled(Value(batch[v][i]))'
  BY <1>0, <1>1, BatchFrame
<1>6. \A i \in 1 .. Len(batch[v]) : i <= applied[v] \/ i \notin ValidAt(v)
        => Settled(Value(batch[v][i]))
  BY <1>0, <1>4 DEF ApplyProgress, ValidAt, Settled
<1>7. CASE ApplyNext(v)
  <2>1. PICK i \in 1 .. Len(batch[v]), e \in Events, k \in Keys :
          /\ e = Value(batch[v][i]) /\ k = stateKeyForEvent(e) /\ e \in Accepted
          /\ applied[v] < i
          /\ \A j \in ValidAt(v) : j < i => j <= applied[v]
          /\ hash' = [hash EXCEPT ![k] = casScript(hash[k], e)]
          /\ applied' = [applied EXCEPT ![v] = i]
    BY <1>0, <1>7, ScriptRuns
  <2>2. pc'[v] = "apply" /\ applied'[v] = i
    BY <1>0, <1>1, <1>7, <2>1 DEF ApplyNext, TypeOK
  <2>3. Settled(Value(batch[v][i]))'
    <3>1. Settled(e)'
      BY <1>7, <2>1, ScriptSettles
    <3>2. Value(batch[v][i])' = e
      BY <1>1, <2>1 DEF Value
    <3> QED
      BY <3>1, <3>2
  <2>4. ASSUME NEW j \in 1 .. i PROVE Settled(Value(batch[v][j]))'
    <3>1. CASE j = i
      BY <2>3, <3>1
    <3>2. CASE j # i
      <4>1. j \in 1 .. Len(batch[v]) /\ j < i
        BY <1>4, <3>2
      <4>2. j <= applied[v] \/ j \notin ValidAt(v)
        BY <2>1, <4>1
      <4> QED
        BY <1>5, <1>6, <4>1, <4>2
    <3> QED
      BY <3>1, <3>2
  <2>5. ApplyProgress(v)'
    BY <2>2, <2>4 DEF ApplyProgress
  <2> QED
    BY <1>2, <1>3, <2>5 DEF WorkerInv
<1>8. CASE ApplyReturns(v) \/ ApplyGivesUp(v)
  <2>1. pc'[v] = "commit" /\ applied'[v] = 0
    BY <1>0, <1>8 DEF ApplyReturns, ApplyGivesUp, TypeOK, GroupTypeOK
  <2>2. ASSUME NEW i \in 1 .. Len(batch[v]) PROVE Settled(Value(batch[v][i]))'
    <3>1. CASE ApplyReturns(v)
      <4>1. i <= applied[v] \/ i \notin ValidAt(v)
        BY <3>1 DEF ApplyReturns
      <4> QED
        BY <1>5, <1>6, <4>1
    <3>2. CASE ApplyGivesUp(v)
      <4>1. PICK e \in Events : e = Value(batch[v][i])
        BY <1>4
      <4>2. e \in lost'
        BY <3>2, <4>1 DEF ApplyGivesUp
      <4>3. Value(batch[v][i])' = e
        BY <1>1, <4>1 DEF Value
      <4> QED
        BY <4>2, <4>3 DEF Settled
    <3> QED
      BY <1>8, <3>1, <3>2
  <2>3. ApplyProgress(v)'
    BY <1>1, <2>1, <2>2 DEF ApplyProgress
  <2> QED
    BY <1>2, <1>3, <2>3 DEF WorkerInv
<1>9. CASE ApplyFailsOnce(v)
  <2>1. pc'[v] = "apply" /\ applied'[v] = 0
    BY <1>0, <1>1, <1>9 DEF ApplyFailsOnce, TypeOK
  <2>2. ApplyProgress(v)'
    BY <2>1 DEF ApplyProgress
  <2> QED
    BY <1>2, <1>3, <2>2 DEF WorkerInv
<1> QED
  BY <1>7, <1>8, <1>9

\* Every step keeps what the invariant says of each worker.
LEMMA WorkersStep == IndInv /\ [Next]_vars => \A v \in Workers : WorkerInv(v)'
<1> SUFFICES ASSUME IndInv, [Next]_vars, NEW v \in Workers PROVE WorkerInv(v)'
  OBVIOUS
<1>0. /\ TypeOK /\ OnlySettles /\ TypeOK' /\ WorkerInv(v)
      /\ ReadsExist(v) /\ ApplyProgress(v) /\ SkipsNothing(v) /\ InOrder(v)
  BY SettleStep, TypeStep DEF IndInv, WorkerInv
<1>1. CASE UNCHANGED LocalState(v)
  BY <1>0, <1>1, Frame
<1>2. ASSUME \E w \in Workers \ {v} : WorkerStep(w) \/ Rejoin(w) \/ LoseSession(w)
      PROVE  UNCHANGED LocalState(v)
  <2> PICK w \in Workers \ {v} : WorkerStep(w) \/ Rejoin(w) \/ LoseSession(w)
    BY <1>2
  <2> USE DEF LocalState
  <2>1. CASE Open(w) \/ Fetch(w) \/ StartApply(w) \/ Exit(w)
    BY <1>0, <2>1 DEF Open, newReader, Fetch, FetchMessage, StartApply,
       fillBatchReturns, Exit, WorkerExits, Close, Untouched, stateVars, TypeOK,
       GroupTypeOK
  <2>2. CASE ApplyNext(w) \/ ApplyReturns(w) \/ ApplyFailsOnce(w) \/ ApplyGivesUp(w)
    <3>1. \E i : applied' = [applied EXCEPT ![w] = i]
      BY <2>2 DEF ApplyNext, ApplyReturns, ApplyFailsOnce, ApplyGivesUp
    <3>2. /\ pc' = pc \/ pc' = [pc EXCEPT ![w] = "commit"]
          /\ UNCHANGED <<batch, pos, assigned, session>>
      BY <2>2 DEF ApplyNext, ApplyReturns, ApplyFailsOnce, ApplyGivesUp, GroupUnchanged
    <3> QED
      BY <1>0, <3>1, <3>2 DEF TypeOK, GroupTypeOK
  <2>3. CASE Commit(w)
    BY <1>0, <2>3 DEF Commit, CommitMessages, CommitFails, Untouched, stateVars,
       TypeOK, GroupTypeOK
  <2>4. CASE Rejoin(w) \/ LoseSession(w)
    BY <1>0, <2>4 DEF Rejoin, HeartbeatRefused, LoseSession, SessionLost,
       Untouched, stateVars, TypeOK, GroupTypeOK
  <2> QED
    BY <2>1, <2>2, <2>3, <2>4 DEF WorkerStep
<1>3. ASSUME (\E k \in Keys : Expire(k)) \/ Terminate \/ Idle \/ UNCHANGED vars
      PROVE  UNCHANGED LocalState(v)
  BY <1>3 DEF Expire, GroupUnchanged, Terminate, Shutdown, Idle, Stopped, Untouched,
     vars, groupVars, stateVars, LocalState
<1>4. CASE Open(v)
  BY <1>0, <1>4 DEF Open, newReader, Untouched, stateVars, WorkerInv, ReadsExist,
     ApplyProgress, SkipsNothing, InOrder, TypeOK, GroupTypeOK
<1>5. CASE StartApply(v)
  <2>1. /\ batch' = batch /\ raw' = raw /\ pos' = pos /\ assigned' = assigned
        /\ applied' = applied /\ pc[v] = "fill"
    BY <1>5 DEF StartApply, fillBatchReturns, Untouched, stateVars
  <2>2. pc'[v] = "apply" /\ applied'[v] = 0
    BY <1>0, <1>5, <2>1 DEF StartApply, fillBatchReturns, ApplyProgress, TypeOK, GroupTypeOK
  <2>3. ApplyProgress(v)'
    BY <2>2 DEF ApplyProgress
  <2>4. ReadsExist(v)'
    BY <1>0, <2>1 DEF ReadsExist
  <2>5. SkipsNothing(v)' /\ InOrder(v)'
    BY <1>0, <2>1, SkipsNothingFrame, InOrderFrame
  <2> QED
    BY <2>3, <2>4, <2>5 DEF WorkerInv
<1>6. CASE Exit(v)
  <2>1. /\ pc'[v] = "stopped" /\ batch'[v] = <<>> /\ assigned'[v] = {}
        /\ session'[v] = "out" /\ applied'[v] = 0 /\ UNCHANGED <<raw, pos>>
    BY <1>0, <1>6 DEF Exit, WorkerExits, Close, Untouched, stateVars, ApplyProgress,
       TypeOK, GroupTypeOK
  <2> QED
    BY <1>0, <2>1 DEF WorkerInv, ReadsExist, ApplyProgress, SkipsNothing, InOrder
<1>7. CASE Commit(v)
  <2>1. /\ pc[v] = "commit" /\ pc'[v] = "fill" /\ batch'[v] = <<>>
        /\ UNCHANGED <<raw, pos, assigned, hash, lost, expired, applied>>
    BY <1>0, <1>7 DEF Commit, CommitMessages, CommitFails, Untouched, stateVars,
       TypeOK, GroupTypeOK
  <2>2. ASSUME NEW p \in assigned[v], NEW o \in 1 .. pos[v][p]
        PROVE  Handled(v, p, o)'
    <3>1. p \in Partitions /\ o \in 1 .. Len(raw[p])
      <4>1. p \in Partitions /\ pos[v][p] \in Nat
        BY <1>0 DEF TypeOK, GroupTypeOK
      <4>2. pos[v][p] <= Len(raw[p]) /\ Len(raw[p]) \in Nat
        BY <1>0, <4>1, RawEvents DEF ReadsExist
      <4> QED
        BY <4>1, <4>2
    <3>2. PICK e \in Events : e = raw[p][o]
      BY <1>0, <3>1, RawEvents
    <3>3. Settled(e)
      BY <1>0, <2>1, <3>2, HandledSettled DEF SkipsNothing
    <3>4. Settled(e)' /\ raw'[p][o] = e
      BY <1>0, <3>2, <3>3 DEF OnlySettles
    <3> QED
      BY <3>4 DEF Handled
  <2>3. applied'[v] = 0
    BY <1>0, <2>1 DEF ApplyProgress
  <2> QED
    BY <1>0, <2>1, <2>2, <2>3 DEF WorkerInv, ReadsExist, ApplyProgress, SkipsNothing,
       InOrder
<1>8. CASE LoseSession(v) \/ Rejoin(v)
  <2>1. /\ session[v] \in {"in", "lost"} /\ assigned'[v] \subseteq assigned[v]
        /\ UNCHANGED <<raw, pc, batch, pos, applied>>
    BY <1>0, <1>8 DEF LoseSession, SessionLost, Rejoin, HeartbeatRefused, Untouched,
       stateVars, TypeOK, GroupTypeOK
  <2>2. pc[v] \notin {"closed", "stopped"}
    BY <1>0, <2>1 DEF ApplyProgress
  <2>3. ApplyProgress(v)'
    BY <1>0, <2>1, <2>2, ApplyFrame
  <2>4. SkipsNothing(v)' /\ InOrder(v)'
    BY <1>0, <2>1, SkipsNothingFrame, InOrderFrame
  <2> QED
    BY <1>0, <2>1, <2>3, <2>4 DEF WorkerInv, ReadsExist
<1>9. CASE Reassign
  <2> DEFINE member == session[v] \in {"joining", "in"}
  <2>1. UNCHANGED <<raw, committed, pc, batch, hash, lost, expired, applied>>
    BY <1>9 DEF Reassign, Rebalance, Untouched, stateVars
  <2>2. CASE ~member
    <3>1. UNCHANGED LocalState(v)
      BY <1>9, <2>1, <2>2 DEF Reassign, Rebalance, LocalState
    <3> QED
      BY <1>1, <3>1
  <2>3. CASE member
    <3>1. pos'[v] = committed /\ assigned'[v] \subseteq Partitions
      BY <1>0, <1>9, <2>3 DEF Reassign, Rebalance, TypeOK, GroupTypeOK
    <3>2. pc[v] \notin {"closed", "stopped"}
      BY <1>0, <2>3 DEF ApplyProgress
    <3>3. ApplyProgress(v)'
      BY <1>0, <2>1, <3>2, ApplyFrame
    <3>4. ReadsExist(v)'
      BY <1>0, <2>1, <3>1 DEF ReadsExist, TypeOK, GroupTypeOK
    <3>5. ASSUME NEW p \in Partitions, NEW o \in 1 .. committed[p]
          PROVE  Handled(v, p, o)'
      <4>1. o \in 1 .. Len(raw[p])
        <5>1. committed[p] \in Nat /\ committed[p] <= Len(raw[p])
          BY <1>0 DEF TypeOK, GroupTypeOK
        <5>2. Len(raw[p]) \in Nat
          BY <1>0, RawEvents
        <5> QED
          BY <5>1, <5>2
      <4>2. PICK e \in Events : e = raw[p][o]
        BY <1>0, <4>1, RawEvents
      <4>3. Settled(e)
        BY <4>2 DEF IndInv, CommittedSettled
      <4>4. Settled(e)' /\ raw'[p][o] = e
        BY <1>0, <4>2, <4>3 DEF OnlySettles
      <4> QED
        BY <4>4 DEF Handled
    <3>6. SkipsNothing(v)'
      BY <3>1, <3>5 DEF SkipsNothing
    <3>7. InOrder(v)'
      BY <1>0, <2>1, InOrderFrame
    <3> QED
      BY <3>3, <3>4, <3>6, <3>7 DEF WorkerInv
  <2> QED
    BY <2>2, <2>3
<1>10. CASE Start
  <2>1. /\ pc'[v] = "closed" /\ batch'[v] = <<>> /\ assigned'[v] = {}
        /\ session'[v] = "out" /\ applied'[v] = 0
        /\ raw' = raw /\ pos'[v] = [p \in Partitions |-> 0]
    BY <1>10 DEF Start, Crash, Restart, FreshProcess
  <2>2. \A p \in Partitions : Len(raw[p]) \in Nat
    BY <1>0, RawEvents
  <2> QED
    BY <2>1, <2>2 DEF WorkerInv, ReadsExist, ApplyProgress, SkipsNothing, InOrder
<1> QED
  BY <1>1, <1>2, <1>3, <1>4, <1>5, <1>6, <1>7, <1>8, <1>9, <1>10, FetchStep, ApplyStep
  DEF Next, WorkerStep

\* The inductive invariant is kept by every step.
LEMMA IndInvStep == IndInv /\ [Next]_vars => IndInv'
BY TypeStep, CommitStep, WorkersStep, TracedStep DEF IndInv

----------------------------------------------------------------------------
(* Convergence *)

\* The last of some records of a key.
LEMMA LastExists ==
    ASSUME TypeOK, NEW k, NEW R, R \subseteq RecordsOf(k), R # {}
    PROVE  \E r \in R : LastOf(R) = At(r) /\ \A q \in R : q[2] <= r[2]
<1>1. PICK x \in R : x \in RecordsOf(k)
  OBVIOUS
<1>2. PICK n \in Nat : n = Len(raw[x[1]])
  BY <1>1, RecordFacts, RawEvents
<1> DEFINE S == {r[2] : r \in R}
<1>3. ASSUME NEW q \in R PROVE q[2] \in 1 .. n
  <2>1. q \in RecordsOf(k) /\ q[1] = x[1]
    BY <1>1, OnePartition
  <2> QED
    BY <1>2, <2>1, RecordFacts
<1>4. IsFiniteSet(1 .. n)
  BY <1>2, FS_Interval
<1>5. S \subseteq 1 .. n /\ S \subseteq Nat /\ S # {}
  BY <1>3
<1>6. IsFiniteSet(S)
  BY <1>4, <1>5, FS_Subset
<1>7. Max(S) \in S /\ \A y \in S : y <= Max(S)
  <2> HIDE DEF S
  <2> QED
    BY <1>5, <1>6, MaxExists
<1>8. PICK r \in R : \A q \in R : q[2] <= r[2]
  BY <1>7
<1> QED
  BY <1>8 DEF LastOf

\* Once the topic is committed, a field of a key that lost nothing is what the
\* last record that counts and carries it says.
LEMMA FieldConverged ==
    ASSUME IndInv, AtRest, NEW k \in Keys, Intact(k), TiesAgree(k), NEW f \in Fields
    PROVE  hash[k][f] = Expected(k)[f]
<1>0. TypeOK /\ Traced(k) /\ CommittedSettled
  BY DEF IndInv, StateTraced
<1>1. CASE Carriers(k, f) = {}
  <2>1. \A r : ~Shows(k, f, r)
    BY <1>1 DEF Shows, Sources, Carriers
  <2> QED
    BY <1>0, <1>1, <2>1 DEF Expected, Traced
<1>2. CASE Carriers(k, f) # {}
  <2>1. Carriers(k, f) \subseteq RecordsOf(k)
    BY DEF Carriers, Counts
  <2>2. PICK r \in Carriers(k, f) :
          LastOf(Carriers(k, f)) = At(r) /\ \A q \in Carriers(k, f) : q[2] <= r[2]
    BY <1>0, <1>2, <2>1, LastExists
  <2>3. /\ r[1] \in Partitions /\ r[2] \in 1 .. Len(raw[r[1]]) /\ r[2] \in Nat
        /\ r = <<r[1], r[2]>> /\ At(r) = raw[r[1]][r[2]] /\ At(r).ts \in Nat
        /\ At(r) \in Accepted /\ stateKeyForEvent(At(r)) = k
    BY <1>0, <2>1, RecordFacts
  <2>4. Settled(At(r))
    BY <1>0, <2>3 DEF AtRest, CommittedSettled
  <2>5. Reflected(At(r)) /\ Counted(At(r)) /\ Carries(At(r), f)
    BY <2>3, <2>4, StateSettled DEF Counted, Carriers, Intact
  <2>6. PICK q \in Carriers(k, f) : Shows(k, f, q) /\ At(r).ts <= At(q).ts
    <3>1. PICK q : Shows(k, f, q) /\ At(r).ts <= At(q).ts
      BY <2>3, <2>5 DEF Reflected, Fresh
    <3>2. q \in Carriers(k, f)
      BY <3>1 DEF Shows, Sources, Carriers
    <3> QED
      BY <3>1, <3>2
  <2>7. /\ q \in RecordsOf(k) /\ q[1] = r[1] /\ q[2] \in Nat /\ q = <<q[1], q[2]>>
        /\ At(q).ts \in Nat
    BY <1>0, <2>1, OnePartition, RecordFacts
  <2>8. At(q).ts <= At(r).ts
    <3>1. CASE q[2] < r[2]
      BY <2>7, <3>1, CountsAscend DEF Carriers
    <3>2. CASE q[2] = r[2]
      BY <2>3, <2>6, <2>7, <3>2 DEF At
    <3> QED
      BY <2>2, <2>3, <2>7, <3>1, <3>2
  <2>9. Carried(At(q), f) = Carried(At(r), f)
    BY <2>3, <2>6, <2>7, <2>8 DEF TiesAgree
  <2> QED
    BY <1>2, <2>2, <2>6, <2>9 DEF Shows, Expected
<1> QED
  BY <1>1, <1>2

\* So the whole hash is what the topic says.
LEMMA Converged == IndInv => ConvergesAtRest
<1> SUFFICES ASSUME IndInv, AtRest, NEW k \in Keys, Intact(k), TiesAgree(k)
             PROVE  hash[k] = Expected(k)
  BY DEF ConvergesAtRest
<1>1. HasFields(hash[k]) /\ HasFields(Expected(k))
  BY DEF IndInv, StateTraced, Expected, HasFields
<1>2. \A f \in Fields : hash[k][f] = Expected(k)[f]
  BY FieldConverged
<1> QED
  BY <1>1, <1>2 DEF HasFields

\* A committed update that counts and was not lost shows, unless something else
\* of its time or later does.
LEMMA Healed == IndInv => FieldsHeal
<1> SUFFICES ASSUME IndInv, NEW p \in Partitions, NEW o \in 1 .. committed[p],
                    NEW f \in Fields, NEW e, e = raw[p][o],
                    NEW k, k = stateKeyForEvent(e),
                    e \notin lost, k \notin expired, Carries(e, f),
                    <<p, o>> \in Counts(k), ~SaysElse(k, f, e)
             PROVE  hash[k][f] = Carried(e, f)
  BY DEF FieldsHeal
<1>1. TypeOK /\ <<p, o>> \in RecordsOf(k) /\ At(<<p, o>>) = e
  BY DEF IndInv, Counts, At
<1>2. e \in Accepted
  BY <1>1, RecordFacts
<1>3. Settled(e)
  BY DEF IndInv, CommittedSettled
<1>4. Reflected(e) /\ Counted(e)
  BY <1>1, <1>2, <1>3, StateSettled DEF Counted
<1>5. PICK q : Shows(k, f, q) /\ e.ts <= At(q).ts
  BY <1>4 DEF Reflected, Fresh
<1>6. q \in RecordsOf(k) /\ Carries(At(q), f) /\ hash[k][f] = Carried(At(q), f)
  BY <1>5 DEF Shows, Sources
<1> QED
  BY <1>5, <1>6 DEF SaysElse

----------------------------------------------------------------------------
(* Theorems *)

\* In every behaviour of the realtime group the inductive invariant holds.
THEOREM RealtimeInvariant == Spec => []IndInv
<1>1. Init => IndInv
  BY InitIndInv
<1>2. IndInv /\ [Next]_vars => IndInv'
  BY IndInvStep
<1> QED
  BY <1>1, <1>2, PTL DEF Spec

\* The realtime group's variables keep their types: no commit points past the
\* end of a partition and no pipeline runs past the end of its batch.
THEOREM RealtimeTypeCorrect == Spec => []TypeOK
<1>1. IndInv => TypeOK
  BY DEF IndInv
<1> QED
  BY <1>1, RealtimeInvariant, PTL

\* A committed update is in the current state or superseded there, unless both
\* pipelines of its batch failed or its key expired (applyBatch's one retry,
\* then the commit regardless).
THEOREM LossTakesTwoFailures == Spec => []LossNeedsTwoFailures
<1>1. IndInv => LossNeedsTwoFailures
  BY DEF IndInv, CommittedSettled, Settled, LossNeedsTwoFailures
<1> QED
  BY <1>1, RealtimeInvariant, PTL

\* However often records are delivered and by whichever worker, once the topic
\* is committed the current state of a key that lost nothing is what the topic
\* says, field by field (casScript, stateArgs and applyBatch's order).
THEOREM StateConverges == Spec => []ConvergesAtRest
<1>1. IndInv => ConvergesAtRest
  BY Converged
<1> QED
  BY <1>1, RealtimeInvariant, PTL

\* Whatever else of its key was lost, a committed update that came in order and
\* was not lost itself shows in every field it carries, unless the topic says
\* something else of that field at its time or later (the self-healing that
\* applyBatch's commit regardless relies on).
THEOREM UpdatesHeal == Spec => []FieldsHeal
<1>1. IndInv => FieldsHeal
  BY Healed
<1> QED
  BY <1>1, RealtimeInvariant, PTL

\* No step takes an update back: what is in the current state, superseded or
\* accounted for stays so (the compare-and-set script against redelivery, late
\* scripts of a worker that lost the partition and retries).
THEOREM UpdatesNeverUndone == Spec => [][OnlySettles]_vars
<1>1. IndInv /\ [Next]_vars => OnlySettles
  BY SettleStep
<1> QED
  BY <1>1, RealtimeInvariant, PTL DEF Spec

=============================================================================
