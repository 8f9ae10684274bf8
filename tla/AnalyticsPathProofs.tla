------------------------ MODULE AnalyticsPathProofs ------------------------
(***************************************************************************)
(* Proofs about AnalyticsPath, for any number of workers and partitions,   *)
(* any raw topic, any batch size and any number of faults.                 *)
(***************************************************************************)
EXTENDS AnalyticsPath, FiniteSetTheorems, TLAPS

----------------------------------------------------------------------------
(* Facts about the operators flush is built from. *)

\* Counting occurrences gives a natural number, positive for what occurs.
LEMMA OccursFacts ==
    ASSUME NEW s \in Seq(Events), NEW e \in Events
    PROVE  /\ Occurs(s, e) \in Nat
           /\ e \in EventsIn(s) => Occurs(s, e) > 0
<1> DEFINE at == {i \in 1 .. Len(s) : s[i] = e}
<1>1. IsFiniteSet(1 .. Len(s))
  BY FS_Interval
<1>2. IsFiniteSet(at)
  BY <1>1, FS_Subset
<1>3. Cardinality(at) \in Nat
  BY <1>2, FS_CardinalityType
<1>4. e \in EventsIn(s) => at # {}
  BY DEF EventsIn
<1>5. at # {} => Cardinality(at) # 0
  BY <1>2, FS_EmptySet
<1> QED
  BY <1>3, <1>4, <1>5 DEF Occurs

\* What a failed dead-letter write adds per event is a natural number.
LEMMA LandedCount ==
    ASSUME NEW s \in Seq(Events), NEW landed \in SUBSET (1 .. Len(s)), NEW e
    PROVE  Cardinality({i \in landed : s[i] = e}) \in Nat
<1>1. IsFiniteSet(1 .. Len(s))
  BY FS_Interval
<1>2. IsFiniteSet({i \in landed : s[i] = e})
  BY <1>1, FS_Subset
<1> QED
  BY <1>2, FS_CardinalityType

----------------------------------------------------------------------------
(* Type correctness *)

\* The bookkeeping of faults stays in bounds.
LEMMA FaultType ==
    ASSUME spent \in 0 .. MaxFaults, calm \in BOOLEAN, Fault \/ NoFault
    PROVE  spent' \in 0 .. MaxFaults /\ calm' \in BOOLEAN
<1>1. CASE NoFault
  BY <1>1 DEF NoFault
<1>2. CASE Fault
  <2>1. spent' \in 0 .. MaxFaults
    BY <1>2, BoundsAssumption DEF Fault
  <2>2. calm' \in BOOLEAN
    BY <1>2 DEF Fault
  <2> QED
    BY <2>1, <2>2
<1> QED
  BY <1>1, <1>2

\* The initial state satisfies the inductive invariant.
LEMMA InitIndInv == Init => IndInv
<1> SUFFICES ASSUME Init PROVE IndInv
  OBVIOUS
<1>1. TypeOK
  <2>1. \A p \in Partitions : Len(raw[p]) \in Nat
    BY LogsAssumption DEF Init, GroupInit
  <2>2. rejoin \in BOOLEAN /\ stopping \in BOOLEAN /\ calm \in BOOLEAN
    BY Zenon DEF Init, GroupInit
  <2>3. GroupTypeOK(Stages)
    BY <2>1, <2>2, BoundsAssumption DEF Init, GroupInit, GroupTypeOK, Stages
  <2>4. swapped \in BOOLEAN
    BY Zenon DEF Init
  <2> QED
    BY <2>3, <2>4 DEF Init, TypeOK
<1>2. \A w \in Workers : ReadsExist(w) /\ FlushProgress(w)
  BY <1>1 DEF Init, GroupInit, ReadsExist, FlushProgress, TypeOK, GroupTypeOK
<1>3. NothingSkipped /\ MarkedImpliesProduced /\ NoCommitBeforeDurable
  BY DEF Init, GroupInit, NothingSkipped, SkipsNothing, MarkedImpliesProduced,
         NoCommitBeforeDurable
<1> QED
  BY <1>1, <1>2, <1>3 DEF IndInv

\* The message flush validates next exists, so its payload is an event.
LEMMA JudgedEvent ==
    ASSUME TypeOK, NEW w \in Workers, ReadsExist(w), FlushProgress(w),
           pc[w] = "validate"
    PROVE  Value(batch[w][Len(valid[w]) + Len(dead[w]) + 1]) \in Events
<1> DEFINE i == Len(valid[w]) + Len(dead[w]) + 1
<1>1. i \in 1 .. Len(batch[w])
  BY DEF FlushProgress, TypeOK, GroupTypeOK
<1>2. batch[w][i] \in Message /\ batch[w][i].off <= Len(raw[batch[w][i].part])
  BY <1>1 DEF ReadsExist, TypeOK, GroupTypeOK
<1>3. \A m \in Message : m.off <= Len(raw[m.part]) => Value(m) \in Events
  BY LogsAssumption DEF Message, Value, TypeOK, GroupTypeOK
<1> QED
  BY <1>2, <1>3

\* A commit stores offsets of records that exist.
LEMMA StoredOffsets ==
    ASSUME TypeOK, NEW w \in Workers, ReadsExist(w), StoreOffsets(batch[w])
    PROVE  /\ committed' \in [Partitions -> Nat]
           /\ \A p \in Partitions : committed'[p] <= Len(raw[p])
<1>1. \A i \in 1 .. Len(batch[w]) : batch[w][i] \in Message
  BY DEF TypeOK, GroupTypeOK
<1>2. \A p \in Partitions : \A o \in Offsets(batch[w], p) : o <= Len(raw[p])
  BY DEF Offsets, ReadsExist
<1>3. \A p \in Partitions : Offsets(batch[w], p) \subseteq Nat
  BY <1>1 DEF Offsets, Message
<1>4. \A p \in Partitions : committed'[p] \in Nat /\ committed'[p] <= Len(raw[p])
  BY <1>2, <1>3 DEF StoreOffsets, TypeOK, GroupTypeOK
<1> QED
  BY <1>4 DEF StoreOffsets

\* Every step of flush and of the group keeps TypeOK.
LEMMA TypeStep == IndInv /\ [Next]_vars => TypeOK'
<1> SUFFICES ASSUME IndInv, [Next]_vars PROVE TypeOK'
  OBVIOUS
<1> USE LogsAssumption, BoundsAssumption, RostersAssumption
<1>0. TypeOK /\ \A w \in Workers : ReadsExist(w) /\ FlushProgress(w)
  BY DEF IndInv
<1>1. ASSUME NEW w \in Workers, Open(w) PROVE TypeOK'
  BY <1>0, <1>1, FaultType DEF Open, newReader, Untouched, topics, flushVars,
     TypeOK, GroupTypeOK, Stages
<1>2. ASSUME NEW w \in Workers, Fetch(w) PROVE TypeOK'
  <2>1. PICK p \in Partitions : FetchMessage(w, p)
    BY <1>2 DEF Fetch
  <2>2. [part |-> p, off |-> pos[w][p] + 1] \in Message
    BY <1>0 DEF TypeOK, GroupTypeOK, Message
  <2>3. batch' \in [Workers -> Seq(Message)]
    BY <1>0, <2>1, <2>2 DEF FetchMessage, TypeOK, GroupTypeOK
  <2>4. pos' \in [Workers -> [Partitions -> Nat]]
    <3>1. pos \in [Workers -> [Partitions -> Nat]] /\ pos[w][p] \in Nat
      BY <1>0 DEF TypeOK, GroupTypeOK
    <3>2. pos' = [pos EXCEPT ![w][p] = @ + 1]
      BY <2>1 DEF FetchMessage
    <3> QED
      BY <3>1, <3>2
  <2> QED
    BY <1>0, <1>2, <2>1, <2>3, <2>4, FaultType DEF Fetch, FetchMessage, Untouched,
       topics, flushVars, TypeOK, GroupTypeOK
<1>3. ASSUME NEW w \in Workers, StartFlush(w) PROVE TypeOK'
  BY <1>0, <1>3, FaultType DEF StartFlush, fillBatchReturns, Untouched, topics,
     flushVars, TypeOK, GroupTypeOK, Stages
<1>4. ASSUME NEW w \in Workers, Exit(w) PROVE TypeOK'
  BY <1>0, <1>4, FaultType DEF Exit, WorkerExits, Close, Untouched, topics,
     flushVars, TypeOK, GroupTypeOK, Stages
<1>5. ASSUME NEW w \in Workers, ValidateNext(w) PROVE TypeOK'
  <2> DEFINE i == Len(valid[w]) + Len(dead[w]) + 1
             e == Value(batch[w][i])
  <2>1. e \in Events
    BY <1>0, <1>5, JudgedEvent DEF ValidateNext
  <2>2. valid' \in [Workers -> Seq(Events)] /\ dead' \in [Workers -> Seq(Events)]
    <3>1. valid \in [Workers -> Seq(Events)] /\ dead \in [Workers -> Seq(Events)]
      BY <1>0 DEF TypeOK
    <3>2. \/ valid' = [valid EXCEPT ![w] = Append(@, e)] /\ dead' = dead
          \/ dead' = [dead EXCEPT ![w] = Append(@, e)] /\ valid' = valid
      BY <1>5, Zenon DEF ValidateNext
    <3> HIDE DEF e
    <3>3. Append(valid[w], e) \in Seq(Events) /\ Append(dead[w], e) \in Seq(Events)
      BY <2>1, <3>1
    <3> QED
      BY <3>1, <3>2, <3>3
  <2>3. pc' \in [Workers -> Stages]
    BY <1>0, <1>5 DEF ValidateNext, Goto, TypeOK, GroupTypeOK, Stages
  <2> QED
    BY <1>0, <1>5, <2>2, <2>3, FaultType DEF ValidateNext, Goto, topics, TypeOK,
       GroupTypeOK
<1>6. ASSUME NEW w \in Workers, SeenBatch(w) \/ SeenBatchFails(w) PROVE TypeOK'
  <2>1. EventsIn(valid[w]) \subseteq Events
    BY <1>0 DEF TypeOK, EventsIn
  <2>2. fresh' \in [Workers -> SUBSET Events]
    <3>1. PICK new \in SUBSET Events : fresh' = [fresh EXCEPT ![w] = new]
      BY <1>6, <2>1 DEF SeenBatch, SeenBatchFails
    <3> QED
      BY <1>0, <3>1 DEF TypeOK
  <2>3. /\ Goto(w, "clean") /\ (Fault \/ NoFault)
        /\ UNCHANGED <<topics, marked, roster, swapped, valid, dead, consumed>>
    BY <1>6 DEF SeenBatch, SeenBatchFails
  <2> QED
    BY <1>0, <2>2, <2>3, FaultType DEF Goto, topics, TypeOK, GroupTypeOK, Stages
<1>7. ASSUME NEW w \in Workers, WriteCleanBatch(w) PROVE TypeOK'
  BY <1>0, <1>7, FaultType DEF WriteCleanBatch, Goto, topics,
     flushVars, TypeOK, GroupTypeOK, Stages
<1>8. ASSUME NEW w \in Workers, WriteCleanFails(w) PROVE TypeOK'
  <2>1. clean' \in [Events -> Nat] /\ dlq' = dlq
    BY <1>0, <1>8 DEF WriteCleanFails, TypeOK
  <2>2. FlushFails(w)
    BY <1>8 DEF WriteCleanFails
  <2> QED
    BY <1>0, <2>1, <2>2, FaultType DEF FlushFails, CloseReader, Close,
       TypeOK, GroupTypeOK, Stages
<1>9. ASSUME NEW w \in Workers, WriteDLQBatch(w) PROVE TypeOK'
  BY <1>0, <1>9, OccursFacts, FaultType DEF WriteDLQBatch, Goto, topics,
     flushVars, TypeOK, GroupTypeOK, Stages
<1>10. ASSUME NEW w \in Workers, WriteDLQFails(w) PROVE TypeOK'
  <2>1. dlq' \in [Events -> Nat]
    <3>1. PICK landed \in SUBSET (1 .. Len(dead[w])) :
            dlq' = [e \in Events |->
                      dlq[e] + Cardinality({i \in landed : dead[w][i] = e})]
      BY <1>10 DEF WriteDLQFails
    <3>2. dead[w] \in Seq(Events)
      BY <1>0 DEF TypeOK
    <3>3. ASSUME NEW e \in Events
          PROVE  dlq[e] + Cardinality({i \in landed : dead[w][i] = e}) \in Nat
      <4>1. Cardinality({i \in landed : dead[w][i] = e}) \in Nat
        BY <3>2, LandedCount
      <4>2. dlq[e] \in Nat
        BY <1>0 DEF TypeOK
      <4> QED
        BY <4>1, <4>2
    <3> QED
      BY <3>1, <3>3, Zenon
  <2>2. FlushFails(w) /\ UNCHANGED clean
    BY <1>10 DEF WriteDLQFails
  <2> QED
    BY <1>0, <2>1, <2>2, FaultType DEF FlushFails, CloseReader, Close, TypeOK,
       GroupTypeOK, Stages
<1>11. ASSUME NEW w \in Workers, MarkBatch(w) \/ MarkBatchFails(w) PROVE TypeOK'
  BY <1>0, <1>11, FaultType DEF MarkBatch, MarkBatchFails, Goto, topics,
     flushVars, TypeOK, GroupTypeOK, Stages
<1>12. ASSUME NEW w \in Workers, Commit(w) PROVE TypeOK'
  <2>1. /\ committed' \in [Partitions -> Nat]
        /\ \A p \in Partitions : committed'[p] <= Len(raw[p])
    <3>1. CASE CommitMessages(w)
      BY <1>0, <3>1, StoredOffsets DEF CommitMessages, TypeOK, GroupTypeOK
    <3>2. CASE CommitFails(w)
      BY <1>0, <3>2 DEF CommitFails, TypeOK, GroupTypeOK
    <3> QED
      BY <1>12, <3>1, <3>2 DEF Commit
  <2>2. /\ UNCHANGED <<raw, session, assigned, pos, rejoin, stopping>>
        /\ pc' = [pc EXCEPT ![w] = "fill"]
        /\ batch' = [batch EXCEPT ![w] = <<>>]
        /\ Fault \/ NoFault
    BY <1>12 DEF Commit, CommitMessages, CommitFails
  <2> QED
    BY <1>0, <1>12, <2>1, <2>2, FaultType DEF Commit, topics, TypeOK, GroupTypeOK,
       Stages
<1>13. ASSUME NEW w \in Workers, LoseSession(w) \/ Rejoin(w) PROVE TypeOK'
  BY <1>0, <1>13, FaultType DEF LoseSession, SessionLost, Rejoin, HeartbeatRefused,
     Untouched, topics, flushVars, TypeOK, GroupTypeOK
<1>14. ASSUME NEW e \in Events, ExpireMark(e) PROVE TypeOK'
  BY <1>0, <1>14, FaultType DEF ExpireMark, topics, flushVars, TypeOK, GroupTypeOK
<1>15. CASE Reassign
  <2>1. calm' \in BOOLEAN /\ rejoin' \in BOOLEAN
    BY <1>15, Zenon DEF Reassign, Rebalance
  <2>2. assigned' \in [Workers -> SUBSET Partitions]
    BY <1>0, <1>15 DEF Reassign, Rebalance, TypeOK, GroupTypeOK
  <2>3. session' \in [Workers -> {"out", "joining", "in", "lost"}]
    BY <1>0, <1>15 DEF Reassign, Rebalance, TypeOK, GroupTypeOK
  <2>4. pos' \in [Workers -> [Partitions -> Nat]]
    BY <1>0, <1>15 DEF Reassign, Rebalance, TypeOK, GroupTypeOK
  <2>5. UNCHANGED <<raw, committed, pc, batch, stopping, spent>> /\ Untouched
    BY <1>15 DEF Reassign, Rebalance
  <2> QED
    BY <1>0, <2>1, <2>2, <2>3, <2>4, <2>5 DEF Untouched, topics, flushVars,
       TypeOK, GroupTypeOK
<1>16. CASE Refresh \/ Terminate
  BY <1>0, <1>16, FaultType DEF Refresh, Terminate, Shutdown, Untouched, topics,
     flushVars, TypeOK, GroupTypeOK
<1>17. CASE Start
  <2>1. spent' \in 0 .. MaxFaults /\ calm' \in BOOLEAN
    <3>1. CASE Crash
      BY <1>0, <3>1, FaultType DEF Crash, TypeOK, GroupTypeOK
    <3>2. CASE Restart
      BY <1>0, <3>2 DEF Restart, TypeOK, GroupTypeOK
    <3> QED
      BY <1>17, <3>1, <3>2 DEF Start
  <2>2. FreshProcess
    BY <1>17 DEF Start, Crash, Restart
  <2>3. swapped' \in BOOLEAN
    BY <1>17, Zenon DEF Start
  <2>4. rejoin' \in BOOLEAN /\ stopping' \in BOOLEAN
    BY <2>2, Zenon DEF FreshProcess
  <2>5. GroupTypeOK(Stages)'
    BY <1>0, <2>1, <2>2, <2>4 DEF FreshProcess, TypeOK, GroupTypeOK, Stages
  <2> QED
    BY <1>0, <1>17, <2>3, <2>5 DEF Start, topics, TypeOK
<1>18. CASE Idle \/ UNCHANGED vars
  BY <1>0, <1>18, FaultType DEF Idle, Stopped, Untouched, vars, groupVars, topics,
     flushVars, TypeOK, GroupTypeOK
<1> QED
  BY <1>1, <1>2, <1>3, <1>4, <1>5, <1>6, <1>7, <1>8, <1>9, <1>10, <1>11,
     <1>12, <1>13, <1>14, <1>15, <1>16, <1>17, <1>18 DEF Next, WorkerStep

----------------------------------------------------------------------------
(* Nothing delivered is taken back *)

\* The raw topic stays as it is and both output topics only grow.
OnlyGrows ==
    /\ raw' = raw
    /\ \A e \in Events : clean[e] > 0 => clean'[e] > 0
    /\ \A e \in Events : dlq[e] > 0 => dlq'[e] > 0

\* No step of the group takes an event out of a topic.
LEMMA GrowStep == TypeOK /\ [Next]_vars => OnlyGrows
<1> SUFFICES ASSUME TypeOK, [Next]_vars PROVE OnlyGrows
  OBVIOUS
<1> USE DEF OnlyGrows
<1>0. clean \in [Events -> Nat] /\ dlq \in [Events -> Nat]
  BY DEF TypeOK
<1>1. ASSUME NEW w \in Workers, WriteCleanBatch(w) \/ WriteCleanFails(w)
      PROVE  OnlyGrows
  <2>1. UNCHANGED <<raw, dlq>>
    BY <1>1 DEF WriteCleanBatch, WriteCleanFails, Goto, FlushFails, CloseReader
  <2>2. \E landed : clean' = [e \in Events |-> IF e \in landed THEN clean[e] + 1 ELSE clean[e]]
    BY <1>1 DEF WriteCleanBatch, WriteCleanFails
  <2> QED
    BY <1>0, <2>1, <2>2
<1>2. ASSUME NEW w \in Workers, WriteDLQBatch(w) PROVE OnlyGrows
  <2>1. \A e \in Events : Occurs(dead[w], e) \in Nat
    BY OccursFacts DEF TypeOK
  <2> QED
    BY <1>0, <1>2, <2>1 DEF WriteDLQBatch, Goto
<1>3. ASSUME NEW w \in Workers, WriteDLQFails(w) PROVE OnlyGrows
  <2>1. PICK landed \in SUBSET (1 .. Len(dead[w])) :
          dlq' = [e \in Events |->
                    dlq[e] + Cardinality({i \in landed : dead[w][i] = e})]
    BY <1>3 DEF WriteDLQFails
  <2>2. ASSUME NEW e \in Events, dlq[e] > 0 PROVE dlq'[e] > 0
    <3>1. dead[w] \in Seq(Events)
      BY DEF TypeOK
    <3>2. Cardinality({i \in landed : dead[w][i] = e}) \in Nat
      BY <3>1, LandedCount
    <3>3. dlq'[e] = dlq[e] + Cardinality({i \in landed : dead[w][i] = e})
      BY <2>1, Zenon
    <3> QED
      BY <1>0, <2>2, <3>2, <3>3
  <2> QED
    BY <1>3, <2>2 DEF WriteDLQFails, FlushFails, CloseReader
<1>4. ASSUME NEW w \in Workers,
             \/ Open(w) \/ Fetch(w) \/ StartFlush(w) \/ Exit(w) \/ ValidateNext(w)
             \/ SeenBatch(w) \/ SeenBatchFails(w) \/ MarkBatch(w)
             \/ MarkBatchFails(w) \/ Commit(w) \/ LoseSession(w) \/ Rejoin(w)
      PROVE  UNCHANGED <<raw, clean, dlq>>
  BY <1>4 DEF Open, newReader, Fetch, FetchMessage, StartFlush, fillBatchReturns,
     Exit, WorkerExits, ValidateNext, SeenBatch, SeenBatchFails, MarkBatch,
     MarkBatchFails, Goto, Commit, CommitMessages, CommitFails, LoseSession,
     SessionLost, Rejoin, HeartbeatRefused, Untouched, topics
<1>5. (\E e \in Events : ExpireMark(e)) \/ Reassign \/ Refresh \/ Terminate
      \/ Start \/ Idle \/ UNCHANGED vars
      => UNCHANGED <<raw, clean, dlq>>
  BY DEF ExpireMark, Reassign, Rebalance, Refresh, Terminate, Shutdown, Start,
     Crash, Restart, FreshProcess, Idle, Stopped, Untouched, vars, groupVars,
     topics
<1> QED
  BY <1>1, <1>2, <1>3, <1>4, <1>5 DEF Next, WorkerStep

----------------------------------------------------------------------------
(* The inductive step *)

WorkerInv(w) == ReadsExist(w) /\ FlushProgress(w) /\ SkipsNothing(w)

\* Everything the invariant says about a worker, apart from the topics.
LocalState(w) ==
    <<pc[w], batch[w], pos[w], assigned[w], session[w], valid[w], dead[w], fresh[w]>>

\* Records of the raw topic are events.
LEMMA RawEvents ==
    TypeOK => \A p \in Partitions : \A o \in 1 .. Len(raw[p]) : raw[p][o] \in Events
BY LogsAssumption DEF TypeOK, GroupTypeOK

\* What is handled stays handled while the worker keeps its batch.
LEMMA HandledGrows ==
    ASSUME TypeOK, OnlyGrows, NEW w \in Workers, NEW p \in Partitions,
           NEW o \in 1 .. Len(raw[p]), Handled(w, p, o), batch'[w] = batch[w]
    PROVE  Handled(w, p, o)'
<1>1. raw[p][o] \in Events
  BY RawEvents
<1>2. Durable(raw[p][o]) => Durable(raw[p][o])'
  BY <1>1 DEF Durable, OnlyGrows
<1>3. InBatch(w, p, o) => InBatch(w, p, o)'
  BY DEF InBatch
<1> QED
  BY <1>2, <1>3 DEF Handled

\* A step that leaves a worker's reader and batch alone skips nothing.
LEMMA SkipsNothingFrame ==
    ASSUME TypeOK, OnlyGrows, NEW w \in Workers, ReadsExist(w), SkipsNothing(w),
           pos'[w] = pos[w], assigned'[w] = assigned[w], batch'[w] = batch[w]
    PROVE  SkipsNothing(w)'
<1>0. raw' = raw
  BY DEF OnlyGrows
<1>1. ASSUME NEW p \in assigned[w], NEW o \in 1 .. pos[w][p]
      PROVE  Handled(w, p, o)'
  <2>1. p \in Partitions
    BY DEF TypeOK, GroupTypeOK
  <2>2. o \in 1 .. Len(raw[p])
    BY <2>1 DEF ReadsExist, TypeOK, GroupTypeOK
  <2> QED
    BY <2>1, <2>2, HandledGrows DEF SkipsNothing
<1>2. ASSUME NEW i \in 1 .. Len(batch[w]), NEW o \in 1 .. batch[w][i].off
      PROVE  Handled(w, batch[w][i].part, o)'
  <2>1. batch[w][i] \in Message
    BY DEF TypeOK, GroupTypeOK
  <2>2. batch[w][i].part \in Partitions
    BY <2>1 DEF Message
  <2>3. o \in 1 .. Len(raw[batch[w][i].part])
    <3>1. batch[w][i].off \in Nat /\ batch[w][i].off <= Len(raw[batch[w][i].part])
      BY <2>1 DEF ReadsExist, Message
    <3>2. Len(raw[batch[w][i].part]) \in Nat
      BY <2>2, LogsAssumption DEF TypeOK, GroupTypeOK
    <3> QED
      BY <3>1, <3>2
  <2>4. Handled(w, batch[w][i].part, o)
    BY DEF SkipsNothing
  <2>5. batch'[w] = batch[w]
    OBVIOUS
  <2> QED
    BY <2>2, <2>3, <2>4, <2>5, HandledGrows
<1> QED
  BY <1>1, <1>2 DEF SkipsNothing

\* A step that leaves a worker's flush alone keeps its progress.
LEMMA FlushFrame ==
    ASSUME TypeOK, OnlyGrows, NEW w \in Workers, FlushProgress(w),
           pc'[w] = pc[w], batch'[w] = batch[w], valid'[w] = valid[w],
           dead'[w] = dead[w], fresh'[w] = fresh[w],
           pc[w] \in {"closed", "stopped"} => assigned'[w] = {} /\ session'[w] = "out"
    PROVE  FlushProgress(w)'
<1>1. EventsIn(valid[w]) \subseteq Events /\ EventsIn(dead[w]) \subseteq Events
  <2>1. valid[w] \in Seq(Events) /\ dead[w] \in Seq(Events)
    BY DEF TypeOK
  <2> QED
    BY <2>1 DEF EventsIn
<1>2. fresh[w] \subseteq Events
  BY DEF TypeOK
<1>3. /\ EventsIn(valid[w])' = EventsIn(valid[w])
      /\ EventsIn(dead[w])' = EventsIn(dead[w])
  BY DEF EventsIn
<1>4. \A i : Value(batch[w][i])' = Value(batch[w][i])
  BY DEF Value, OnlyGrows
<1>5. pc[w] \in {"clean", "dlq", "mark", "commit"} =>
        \A e \in EventsIn(valid[w]) : e \in fresh[w] \/ clean'[e] > 0
  BY <1>1 DEF FlushProgress, OnlyGrows
<1>6. /\ pc[w] \in {"dlq", "mark", "commit"} => \A e \in fresh[w] : clean'[e] > 0
      /\ pc[w] \in {"mark", "commit"} => \A e \in EventsIn(dead[w]) : dlq'[e] > 0
  BY <1>1, <1>2 DEF FlushProgress, OnlyGrows
<1>7. pc[w] = "validate" =>
        /\ Len(valid[w]) + Len(dead[w]) < Len(batch[w])
        /\ \A i \in 1 .. Len(valid[w]) + Len(dead[w]) :
             Value(batch[w][i])' \in EventsIn(valid[w]) \cup EventsIn(dead[w])
  BY <1>4 DEF FlushProgress
<1>8. pc[w] \in {"seen", "clean", "dlq", "mark", "commit"} =>
        \A i \in 1 .. Len(batch[w]) :
          Value(batch[w][i])' \in EventsIn(valid[w]) \cup EventsIn(dead[w])
  BY <1>4 DEF FlushProgress
<1>9. /\ pc[w] \in {"closed", "stopped"} =>
           batch'[w] = <<>> /\ assigned'[w] = {} /\ session'[w] = "out"
      /\ pc[w] \in {"closed", "fill", "stopped"} => valid'[w] = <<>> /\ dead'[w] = <<>>
  BY DEF FlushProgress
<1> QED
  BY <1>3, <1>5, <1>6, <1>7, <1>8, <1>9 DEF FlushProgress

\* A step that leaves a worker's own state alone leaves its invariant alone.
LEMMA Frame ==
    ASSUME TypeOK, OnlyGrows, NEW w \in Workers, WorkerInv(w),
           UNCHANGED LocalState(w)
    PROVE  WorkerInv(w)'
<1>1. /\ pc'[w] = pc[w] /\ batch'[w] = batch[w] /\ pos'[w] = pos[w]
      /\ assigned'[w] = assigned[w] /\ valid'[w] = valid[w] /\ dead'[w] = dead[w]
      /\ fresh'[w] = fresh[w] /\ session'[w] = session[w] /\ raw' = raw
  BY DEF LocalState, OnlyGrows
<1>2. ReadsExist(w)'
  BY <1>1 DEF WorkerInv, ReadsExist
<1>4. FlushProgress(w)'
  BY <1>1, FlushFrame DEF WorkerInv, FlushProgress
<1>5. SkipsNothing(w)'
  BY <1>1, SkipsNothingFrame DEF WorkerInv
<1> QED
  BY <1>2, <1>4, <1>5 DEF WorkerInv

\* When flush has returned, every event of the batch is downstream.
LEMMA BatchDurable ==
    ASSUME TypeOK, NEW w \in Workers, FlushProgress(w), pc[w] = "commit"
    PROVE  \A i \in 1 .. Len(batch[w]) : Durable(Value(batch[w][i]))
<1>1. \A e \in EventsIn(valid[w]) : clean[e] > 0
  BY DEF FlushProgress
<1>2. \A e \in EventsIn(dead[w]) : dlq[e] > 0
  BY DEF FlushProgress
<1> QED
  BY <1>1, <1>2 DEF FlushProgress, Durable

\* So whatever a committing worker has handled is downstream.
LEMMA HandledDurable ==
    ASSUME TypeOK, NEW w \in Workers, FlushProgress(w), pc[w] = "commit",
           NEW p, NEW o, Handled(w, p, o)
    PROVE  Durable(raw[p][o])
<1>1. CASE InBatch(w, p, o)
  <2>1. PICK i \in 1 .. Len(batch[w]) : batch[w][i] = [part |-> p, off |-> o]
    BY <1>1 DEF InBatch
  <2>2. Durable(Value(batch[w][i]))
    BY BatchDurable
  <2>3. Value(batch[w][i]) = raw[p][o]
    BY <2>1 DEF Value
  <2> QED
    BY <2>2, <2>3
<1> QED
  BY <1>1 DEF Handled

\* A key enters Redis only for an event that is in the clean topic.
LEMMA MarkedStep == IndInv /\ [Next]_vars => MarkedImpliesProduced'
<1> SUFFICES ASSUME IndInv, [Next]_vars PROVE MarkedImpliesProduced'
  OBVIOUS
<1>0. TypeOK /\ OnlyGrows
  BY GrowStep DEF IndInv
<1>1. marked \subseteq Events /\ \A e \in marked : clean'[e] > 0
  BY <1>0 DEF IndInv, MarkedImpliesProduced, OnlyGrows, TypeOK
<1>2. ASSUME NEW w \in Workers, MarkBatch(w) \/ MarkBatchFails(w)
      PROVE  MarkedImpliesProduced'
  <2>1. \A e \in fresh[w] : clean[e] > 0
    BY <1>2 DEF IndInv, FlushProgress, MarkBatch, MarkBatchFails
  <2>2. \A e \in fresh[w] : clean'[e] > 0
    BY <1>0, <2>1 DEF OnlyGrows, TypeOK
  <2>3. marked' \subseteq marked \cup fresh[w]
    BY <1>2 DEF MarkBatch, MarkBatchFails
  <2> QED
    BY <1>1, <2>2, <2>3 DEF MarkedImpliesProduced
<1>3. ASSUME NEW w \in Workers,
             \/ Open(w) \/ Fetch(w) \/ StartFlush(w) \/ Exit(w) \/ ValidateNext(w)
             \/ SeenBatch(w) \/ SeenBatchFails(w) \/ WriteCleanBatch(w)
             \/ WriteCleanFails(w) \/ WriteDLQBatch(w) \/ WriteDLQFails(w)
             \/ Commit(w) \/ LoseSession(w) \/ Rejoin(w)
      PROVE  marked' \subseteq marked
  BY <1>3 DEF Open, Fetch, StartFlush, Exit, ValidateNext, SeenBatch,
     SeenBatchFails, WriteCleanBatch, WriteCleanFails, WriteDLQBatch,
     WriteDLQFails, FlushFails, Commit, LoseSession, Rejoin, Untouched
<1>4. (\E e \in Events : ExpireMark(e)) \/ Reassign \/ Refresh \/ Terminate
      \/ Start \/ Idle \/ UNCHANGED vars
      => marked' \subseteq marked
  BY DEF ExpireMark, Reassign, Refresh, Terminate, Start, Idle, Untouched, vars
<1> QED
  BY <1>1, <1>2, <1>3, <1>4 DEF Next, WorkerStep, MarkedImpliesProduced

\* Only a successful commit moves the committed offsets, and it touches no topic.
LEMMA CommitterMoves ==
    [Next]_vars => \/ committed' = committed
                   \/ /\ \E w \in Workers : Commit(w) /\ CommitMessages(w)
                      /\ UNCHANGED <<clean, dlq>>
<1> SUFFICES ASSUME [Next]_vars, committed' # committed
             PROVE  /\ \E w \in Workers : Commit(w) /\ CommitMessages(w)
                    /\ UNCHANGED <<clean, dlq>>
  OBVIOUS
<1>1. ASSUME NEW w \in Workers,
             \/ Open(w) \/ Fetch(w) \/ StartFlush(w) \/ Exit(w) \/ ValidateNext(w)
             \/ SeenBatch(w) \/ SeenBatchFails(w) \/ WriteCleanBatch(w)
             \/ WriteCleanFails(w) \/ WriteDLQBatch(w) \/ WriteDLQFails(w)
             \/ MarkBatch(w) \/ MarkBatchFails(w) \/ CommitFails(w)
             \/ LoseSession(w) \/ Rejoin(w)
      PROVE  committed' = committed
  BY <1>1 DEF Open, newReader, Fetch, FetchMessage, StartFlush, fillBatchReturns,
     Exit, WorkerExits, ValidateNext, SeenBatch, SeenBatchFails, WriteCleanBatch,
     WriteCleanFails, WriteDLQBatch, WriteDLQFails, FlushFails, CloseReader,
     MarkBatch, MarkBatchFails, Goto, CommitFails, LoseSession, SessionLost,
     Rejoin, HeartbeatRefused
<1>2. (\E e \in Events : ExpireMark(e)) \/ Reassign \/ Refresh \/ Terminate
      \/ Start \/ Idle \/ UNCHANGED vars
      => committed' = committed
  BY DEF ExpireMark, Reassign, Rebalance, Refresh, Terminate, Shutdown, Start,
     Crash, Restart, FreshProcess, Idle, Stopped, vars, groupVars
<1>3. \A w \in Workers : Commit(w) => CommitMessages(w) \/ CommitFails(w)
  BY DEF Commit
<1>4. \E w \in Workers : Commit(w) /\ CommitMessages(w)
  BY <1>1, <1>2, <1>3 DEF Next, WorkerStep
<1> QED
  BY <1>4 DEF Commit, topics

\* A commit covers only records whose events are downstream.
LEMMA CommitStep == IndInv /\ [Next]_vars => NoCommitBeforeDurable'
<1> SUFFICES ASSUME IndInv, [Next]_vars PROVE NoCommitBeforeDurable'
  OBVIOUS
<1>0. TypeOK /\ OnlyGrows /\ TypeOK'
  BY GrowStep, TypeStep DEF IndInv
<1>1. ASSUME NEW p \in Partitions, NEW o \in 1 .. Len(raw[p]), Durable(raw[p][o])
      PROVE  Durable(raw[p][o])'
  <2>1. raw[p][o] \in Events
    BY <1>0, RawEvents
  <2> QED
    BY <1>0, <1>1, <2>1 DEF Durable, OnlyGrows
<1>2. CASE committed' = committed
  BY <1>0, <1>1, <1>2 DEF NoCommitBeforeDurable, IndInv, OnlyGrows, TypeOK, GroupTypeOK
<1>3. ASSUME NEW w \in Workers, Commit(w), CommitMessages(w)
      PROVE  NoCommitBeforeDurable'
  <2>1. pc[w] = "commit" /\ StoreOffsets(batch[w]) /\ FlushProgress(w) /\ SkipsNothing(w)
    BY <1>3 DEF CommitMessages, IndInv, NothingSkipped
  <2>2. ASSUME NEW p \in Partitions, NEW o \in 1 .. committed'[p]
        PROVE  Durable(raw[p][o])
    <3>1. CASE Offsets(batch[w], p) = {}
      BY <2>1, <3>1 DEF StoreOffsets, IndInv, NoCommitBeforeDurable
    <3>2. CASE Offsets(batch[w], p) # {}
      <4>1. committed'[p] \in Offsets(batch[w], p)
        BY <2>1, <3>2 DEF StoreOffsets
      <4>2. PICK i \in 1 .. Len(batch[w]) :
              batch[w][i].part = p /\ batch[w][i].off = committed'[p]
        BY <4>1 DEF Offsets
      <4>3. Handled(w, p, o)
        BY <2>1, <4>2 DEF SkipsNothing
      <4> QED
        BY <1>0, <2>1, <4>3, HandledDurable
    <3> QED
      BY <3>1, <3>2
  <2>3. \A p \in Partitions : \A o \in 1 .. committed'[p] : o \in 1 .. Len(raw[p])
    BY <1>0 DEF OnlyGrows, TypeOK, GroupTypeOK
  <2> QED
    BY <1>0, <1>1, <2>2, <2>3 DEF NoCommitBeforeDurable, OnlyGrows
<1> QED
  BY <1>2, <1>3, CommitterMoves DEF Commit

\* A sequence's events after one more is appended.
LEMMA AppendEvents ==
    ASSUME NEW s \in Seq(Events), NEW e \in Events
    PROVE  /\ Len(Append(s, e)) = Len(s) + 1
           /\ EventsIn(Append(s, e)) = EventsIn(s) \cup {e}
BY DEF EventsIn

\* Every step keeps what the invariant says of each worker.
LEMMA WorkersStep == IndInv /\ [Next]_vars => \A v \in Workers : WorkerInv(v)'
<1> SUFFICES ASSUME IndInv, [Next]_vars, NEW v \in Workers PROVE WorkerInv(v)'
  OBVIOUS
<1>0. /\ TypeOK /\ OnlyGrows /\ TypeOK'
      /\ ReadsExist(v) /\ FlushProgress(v) /\ SkipsNothing(v) /\ WorkerInv(v)
  BY GrowStep, TypeStep DEF IndInv, NothingSkipped, WorkerInv
<1>1. CASE UNCHANGED LocalState(v)
  BY <1>0, <1>1, Frame
<1>2. ASSUME \E w \in Workers \ {v} : WorkerStep(w) \/ Rejoin(w) \/ LoseSession(w)
      PROVE  UNCHANGED LocalState(v)
  <2> PICK w \in Workers \ {v} : WorkerStep(w) \/ Rejoin(w) \/ LoseSession(w)
    BY <1>2
  <2> USE DEF LocalState
  <2>1. CASE Open(w) \/ Fetch(w) \/ StartFlush(w) \/ Exit(w)
    BY <1>0, <2>1 DEF Open, newReader, Fetch, FetchMessage, StartFlush,
       fillBatchReturns, Exit, WorkerExits, Close, Untouched, flushVars, TypeOK,
       GroupTypeOK
  <2>2. CASE ValidateNext(w) \/ SeenBatch(w) \/ SeenBatchFails(w)
             \/ WriteCleanBatch(w) \/ WriteDLQBatch(w) \/ MarkBatch(w)
             \/ MarkBatchFails(w)
    BY <1>0, <2>2 DEF ValidateNext, SeenBatch, SeenBatchFails, WriteCleanBatch,
       WriteDLQBatch, MarkBatch, MarkBatchFails, Goto, flushVars, TypeOK, GroupTypeOK
  <2>3. CASE WriteCleanFails(w) \/ WriteDLQFails(w)
    BY <1>0, <2>3 DEF WriteCleanFails, WriteDLQFails, FlushFails, CloseReader,
       Close, TypeOK, GroupTypeOK
  <2>4. CASE Commit(w)
    BY <1>0, <2>4 DEF Commit, CommitMessages, CommitFails, TypeOK, GroupTypeOK
  <2>5. CASE Rejoin(w) \/ LoseSession(w)
    BY <1>0, <2>5 DEF Rejoin, HeartbeatRefused, LoseSession, SessionLost,
       Untouched, flushVars, TypeOK, GroupTypeOK
  <2> QED
    BY <2>1, <2>2, <2>3, <2>4, <2>5 DEF WorkerStep
<1>3. ASSUME (\E e \in Events : ExpireMark(e)) \/ Refresh \/ Terminate \/ Idle
             \/ UNCHANGED vars
      PROVE  UNCHANGED LocalState(v)
  BY <1>3 DEF ExpireMark, Refresh, Terminate, Shutdown, Idle, Stopped, Untouched,
     vars, groupVars, flushVars, LocalState
<1>4. CASE Open(v)
  BY <1>0, <1>4 DEF Open, newReader, Untouched, flushVars, WorkerInv, ReadsExist,
     FlushProgress, SkipsNothing, TypeOK, GroupTypeOK
<1>5. CASE Fetch(v)
  <2>1. PICK p \in Partitions : FetchMessage(v, p)
    BY <1>5 DEF Fetch
  <2>2. /\ raw' = raw /\ pc'[v] = pc[v] /\ pc[v] = "fill" /\ p \in assigned[v]
        /\ UNCHANGED <<clean, dlq, valid, dead, assigned>>
        /\ pos[v][p] < Len(raw[p])
    BY <1>5, <2>1 DEF Fetch, FetchMessage, Untouched, topics, flushVars
  <2>3. batch[v] \in Seq(Message) /\ pos[v] \in [Partitions -> Nat]
    BY <1>0 DEF TypeOK, GroupTypeOK
  <2>4. PICK n \in Nat : n = pos[v][p] + 1
    BY <2>3
  <2>5. PICK k \in Nat : k = Len(batch[v])
    BY <2>3
  <2>6. PICK m \in Message : m = [part |-> p, off |-> n]
    <3>1. n \in Nat \ {0}
      BY <2>3, <2>4
    <3> QED
      BY <3>1 DEF Message
  <2>7. batch'[v] = Append(batch[v], m) /\ pos'[v] = [pos[v] EXCEPT ![p] = n]
    BY <1>0, <2>1, <2>4, <2>6 DEF FetchMessage, TypeOK, GroupTypeOK
  <2>8. /\ Len(batch'[v]) = k + 1
        /\ \A i \in 1 .. k : batch'[v][i] = batch[v][i]
        /\ batch'[v][k + 1] = m
    BY <2>3, <2>5, <2>7
  <2>9. ASSUME NEW q, NEW o, Handled(v, q, o) PROVE Handled(v, q, o)'
    <3>1. CASE Durable(raw[q][o])
      BY <2>2, <3>1 DEF Handled, Durable
    <3>2. CASE InBatch(v, q, o)
      BY <2>5, <2>8, <3>2 DEF Handled, InBatch
    <3> QED
      BY <2>9, <3>1, <3>2 DEF Handled
  <2>10. Handled(v, p, n)'
    BY <2>5, <2>6, <2>8 DEF Handled, InBatch
  <2>11. ASSUME NEW o \in 1 .. n PROVE Handled(v, p, o)'
    <3>1. CASE o = n
      BY <2>10, <3>1
    <3>2. CASE o \in 1 .. pos[v][p]
      BY <1>0, <2>2, <2>9, <3>2 DEF SkipsNothing
    <3> QED
      BY <2>3, <2>4, <3>1, <3>2
  <2>12. SkipsNothing(v)'
    <3>1. ASSUME NEW q \in assigned'[v], NEW o \in 1 .. pos'[v][q]
          PROVE  Handled(v, q, o)'
      <4>1. q \in Partitions /\ q \in assigned[v]
        BY <1>0, <2>2 DEF TypeOK, GroupTypeOK
      <4>2. CASE q = p
        BY <2>3, <2>7, <2>11, <4>1, <4>2
      <4>3. CASE q # p
        BY <1>0, <2>3, <2>7, <2>9, <4>1, <4>3 DEF SkipsNothing
      <4> QED
        BY <4>2, <4>3
    <3>2. ASSUME NEW i \in 1 .. Len(batch'[v]), NEW q, q = batch'[v][i].part,
                 NEW o \in 1 .. batch'[v][i].off
          PROVE  Handled(v, q, o)'
      <4>1. CASE i \in 1 .. k
        BY <1>0, <2>5, <2>8, <2>9, <3>2, <4>1 DEF SkipsNothing
      <4>2. CASE i = k + 1
        BY <2>6, <2>8, <2>11, <3>2, <4>2
      <4> QED
        BY <2>5, <2>8, <4>1, <4>2
    <3> QED
      BY <3>1, <3>2 DEF SkipsNothing
  <2>13. ReadsExist(v)'
    <3>1. \A q \in Partitions : Len(raw[q]) \in Nat
      BY <1>0, LogsAssumption DEF TypeOK, GroupTypeOK
    <3>2. ASSUME NEW q \in Partitions PROVE pos'[v][q] <= Len(raw'[q])
      BY <1>0, <2>2, <2>3, <2>4, <2>7, <3>1 DEF ReadsExist
    <3>3. ASSUME NEW i \in 1 .. k + 1
          PROVE  batch'[v][i].off <= Len(raw'[batch'[v][i].part])
      <4>1. CASE i \in 1 .. k
        BY <1>0, <2>2, <2>5, <2>8, <4>1 DEF ReadsExist
      <4>2. CASE i = k + 1
        BY <2>2, <2>3, <2>4, <2>6, <2>8, <3>1, <4>2
      <4> QED
        BY <4>1, <4>2
    <3> QED
      BY <2>8, <3>2, <3>3 DEF ReadsExist
  <2>14. FlushProgress(v)'
    BY <1>0, <2>2 DEF FlushProgress
  <2> QED
    BY <2>12, <2>13, <2>14 DEF WorkerInv
<1>6. CASE StartFlush(v)
  <2>1. /\ batch' = batch /\ raw' = raw /\ pos' = pos /\ assigned' = assigned
        /\ valid' = valid /\ dead' = dead /\ clean' = clean /\ dlq' = dlq
    BY <1>6 DEF StartFlush, fillBatchReturns, Untouched, flushVars, topics
  <2>2. pc[v] = "fill" /\ pc'[v] = "validate" /\ batch[v] # <<>>
    BY <1>0, <1>6 DEF StartFlush, fillBatchReturns, TypeOK, GroupTypeOK
  <2>3. valid[v] = <<>> /\ dead[v] = <<>> /\ batch[v] \in Seq(Message)
    BY <1>0, <2>2 DEF FlushProgress, TypeOK, GroupTypeOK
  <2>4. FlushProgress(v)'
    BY <2>1, <2>2, <2>3 DEF FlushProgress
  <2>5. ReadsExist(v)'
    BY <1>0, <2>1 DEF ReadsExist
  <2>6. SkipsNothing(v)'
    BY <1>0, <2>1 DEF SkipsNothing, Handled, InBatch, Durable
  <2> QED
    BY <2>4, <2>5, <2>6 DEF WorkerInv
<1>7. CASE Exit(v)
  BY <1>0, <1>7 DEF Exit, WorkerExits, Close, Untouched, flushVars, WorkerInv,
     ReadsExist, FlushProgress, SkipsNothing, TypeOK, GroupTypeOK
<1>8. CASE ValidateNext(v)
  <2>1. PICK n \in Nat : n = Len(valid[v]) + Len(dead[v])
    BY <1>0 DEF TypeOK
  <2>2. PICK e \in Events : e = Value(batch[v][n + 1])
    BY <1>0, <1>8, <2>1, JudgedEvent DEF ValidateNext
  <2>3. \/ valid'[v] = Append(valid[v], e) /\ dead'[v] = dead[v]
        \/ dead'[v] = Append(dead[v], e) /\ valid'[v] = valid[v]
    BY <1>0, <1>8, <2>1, <2>2 DEF ValidateNext, TypeOK
  <2>4. valid[v] \in Seq(Events) /\ dead[v] \in Seq(Events)
    BY <1>0 DEF TypeOK
  <2>5. /\ Len(valid'[v]) + Len(dead'[v]) = n + 1
        /\ e \in EventsIn(valid'[v]) \cup EventsIn(dead'[v])
        /\ EventsIn(valid[v]) \subseteq EventsIn(valid'[v])
        /\ EventsIn(dead[v]) \subseteq EventsIn(dead'[v])
    <3>1. /\ Len(Append(valid[v], e)) = Len(valid[v]) + 1
          /\ EventsIn(Append(valid[v], e)) = EventsIn(valid[v]) \cup {e}
          /\ Len(valid[v]) \in Nat
      BY <2>4, AppendEvents
    <3>2. /\ Len(Append(dead[v], e)) = Len(dead[v]) + 1
          /\ EventsIn(Append(dead[v], e)) = EventsIn(dead[v]) \cup {e}
          /\ Len(dead[v]) \in Nat
      BY <2>4, AppendEvents
    <3>3. Len(valid'[v]) + Len(dead'[v]) = n + 1
      <4>1. PICK j, k \in Nat : j = Len(valid[v]) /\ k = Len(dead[v])
        BY <3>1, <3>2
      <4>2. \/ Len(valid'[v]) = j + 1 /\ Len(dead'[v]) = k
            \/ Len(valid'[v]) = j /\ Len(dead'[v]) = k + 1
        BY <2>3, <3>1, <3>2, <4>1
      <4>3. n = j + k
        BY <2>1, <4>1
      <4>4. CASE Len(valid'[v]) = j + 1 /\ Len(dead'[v]) = k
        BY <4>3, <4>4
      <4>5. CASE Len(valid'[v]) = j /\ Len(dead'[v]) = k + 1
        BY <4>3, <4>5
      <4> QED
        BY <4>2, <4>4, <4>5
    <3>4. CASE valid'[v] = Append(valid[v], e) /\ dead'[v] = dead[v]
      BY <3>1, <3>3, <3>4, Zenon
    <3>5. CASE dead'[v] = Append(dead[v], e) /\ valid'[v] = valid[v]
      BY <3>2, <3>3, <3>5, Zenon
    <3> QED
      BY <2>3, <3>4, <3>5
  <2>6. /\ pc'[v] = IF n + 1 = Len(batch[v]) THEN "seen" ELSE "validate"
        /\ UNCHANGED <<raw, batch, pos, assigned, clean, dlq>> /\ pc[v] = "validate"
    BY <1>0, <1>8, <2>1 DEF ValidateNext, Goto, topics, TypeOK, GroupTypeOK
  <2>7. \A i \in 1 .. n + 1 :
          Value(batch[v][i]) \in EventsIn(valid'[v]) \cup EventsIn(dead'[v])
    <3>1. \A i \in 1 .. n :
            Value(batch[v][i]) \in EventsIn(valid[v]) \cup EventsIn(dead[v])
      BY <1>0, <2>1, <2>6 DEF FlushProgress
    <3> QED
      BY <2>2, <2>5, <3>1
  <2>8. n < Len(batch[v]) /\ Len(batch[v]) \in Nat
    BY <1>0, <2>1, <2>6 DEF FlushProgress, TypeOK, GroupTypeOK
  <2>9. \A i : Value(batch[v][i])' = Value(batch[v][i])
    BY <2>6 DEF Value
  <2>10. FlushProgress(v)'
    <3>1. CASE n + 1 = Len(batch[v])
      BY <2>5, <2>6, <2>7, <2>9, <3>1 DEF FlushProgress
    <3>2. CASE n + 1 # Len(batch[v])
      <4>1. pc'[v] = "validate" /\ n + 1 < Len(batch'[v])
        BY <2>6, <2>8, <3>2
      <4>2. \A i \in 1 .. Len(valid'[v]) + Len(dead'[v]) :
              Value(batch[v][i])' \in EventsIn(valid'[v]) \cup EventsIn(dead'[v])
        BY <2>5, <2>7, <2>9
      <4> QED
        BY <2>5, <4>1, <4>2 DEF FlushProgress
    <3> QED
      BY <3>1, <3>2
  <2> QED
    BY <1>0, <2>6, <2>10 DEF WorkerInv, ReadsExist, SkipsNothing, Handled, InBatch, Durable
<1>9. ASSUME SeenBatch(v) \/ SeenBatchFails(v) \/ WriteCleanBatch(v)
             \/ WriteDLQBatch(v) \/ MarkBatch(v) \/ MarkBatchFails(v)
      PROVE  WorkerInv(v)'
  <2>1. /\ UNCHANGED <<raw, batch, pos, assigned, session, valid, dead>>
        /\ pc[v] \in {"seen", "clean", "dlq", "mark"}
    BY <1>9 DEF SeenBatch, SeenBatchFails, WriteCleanBatch, WriteDLQBatch,
       MarkBatch, MarkBatchFails, Goto, flushVars
  <2>2. ReadsExist(v)'
    BY <1>0, <2>1 DEF ReadsExist
  <2>3. SkipsNothing(v)'
    BY <1>0, <2>1, SkipsNothingFrame
  <2>4. \A i \in 1 .. Len(batch'[v]) :
          Value(batch[v][i])' \in EventsIn(valid'[v]) \cup EventsIn(dead'[v])
    BY <1>0, <2>1 DEF FlushProgress, Value
  <2>5. /\ EventsIn(valid[v]) \subseteq Events /\ EventsIn(dead[v]) \subseteq Events
        /\ fresh[v] \subseteq Events
    <3>1. valid[v] \in Seq(Events) /\ dead[v] \in Seq(Events) /\ fresh[v] \subseteq Events
      BY <1>0 DEF TypeOK
    <3>2. \A s \in Seq(Events) : EventsIn(s) \subseteq Events
      BY DEF EventsIn
    <3> QED
      BY <3>1, <3>2
  <2>6. CASE SeenBatch(v) \/ SeenBatchFails(v)
    <3>1. pc'[v] = "clean" /\ UNCHANGED clean
      BY <1>0, <2>6 DEF SeenBatch, SeenBatchFails, Goto, topics, TypeOK, GroupTypeOK
    <3>2. EventsIn(valid[v]) \ marked \subseteq fresh'[v]
      BY <1>0, <2>6 DEF SeenBatch, SeenBatchFails, TypeOK
    <3>3. \A e \in EventsIn(valid'[v]) : e \in fresh'[v] \/ clean'[e] > 0
      BY <2>1, <3>1, <3>2 DEF IndInv, MarkedImpliesProduced
    <3> QED
      BY <2>2, <2>3, <2>4, <3>1, <3>3 DEF FlushProgress, WorkerInv
  <2>7. CASE WriteCleanBatch(v)
    <3>1. pc'[v] = "dlq" /\ fresh'[v] = fresh[v] /\ pc[v] = "clean"
      BY <1>0, <2>7 DEF WriteCleanBatch, Goto, flushVars, TypeOK, GroupTypeOK
    <3>2. \A e \in fresh[v] : clean'[e] > 0
      BY <1>0, <2>5, <2>7 DEF WriteCleanBatch, TypeOK
    <3>3. \A e \in EventsIn(valid'[v]) : e \in fresh'[v] \/ clean'[e] > 0
      BY <1>0, <2>1, <2>5, <3>1 DEF FlushProgress, OnlyGrows
    <3> QED
      BY <2>2, <2>3, <2>4, <3>1, <3>2, <3>3 DEF FlushProgress, WorkerInv
  <2>8. CASE WriteDLQBatch(v)
    <3>1. pc'[v] = "mark" /\ fresh'[v] = fresh[v] /\ pc[v] = "dlq" /\ clean' = clean
      BY <1>0, <2>8 DEF WriteDLQBatch, Goto, flushVars, TypeOK, GroupTypeOK
    <3>2. ASSUME NEW e \in EventsIn(dead[v]) PROVE dlq'[e] > 0
      <4>1. e \in Events /\ dead[v] \in Seq(Events) /\ dlq[e] \in Nat
        BY <1>0, <2>5 DEF TypeOK
      <4>2. Occurs(dead[v], e) \in Nat /\ Occurs(dead[v], e) > 0
        BY <4>1, OccursFacts
      <4>3. dlq'[e] = dlq[e] + Occurs(dead[v], e)
        BY <2>8, <4>1 DEF WriteDLQBatch
      <4> QED
        BY <4>1, <4>2, <4>3
    <3>3. /\ \A e \in EventsIn(valid'[v]) : e \in fresh'[v] \/ clean'[e] > 0
          /\ \A e \in fresh'[v] : clean'[e] > 0
          /\ \A e \in EventsIn(dead'[v]) : dlq'[e] > 0
      BY <1>0, <2>1, <3>1, <3>2 DEF FlushProgress
    <3> QED
      BY <2>2, <2>3, <2>4, <3>1, <3>3 DEF FlushProgress, WorkerInv
  <2>9. CASE MarkBatch(v) \/ MarkBatchFails(v)
    <3>1. pc'[v] = "commit" /\ pc[v] = "mark" /\ UNCHANGED <<fresh, clean, dlq>>
      BY <1>0, <2>9 DEF MarkBatch, MarkBatchFails, Goto, topics, flushVars, TypeOK,
         GroupTypeOK
    <3>2. /\ \A e \in EventsIn(valid'[v]) : e \in fresh'[v] \/ clean'[e] > 0
          /\ \A e \in fresh'[v] : clean'[e] > 0
          /\ \A e \in EventsIn(dead'[v]) : dlq'[e] > 0
      BY <1>0, <2>1, <3>1 DEF FlushProgress
    <3> QED
      BY <2>2, <2>3, <2>4, <3>1, <3>2 DEF FlushProgress, WorkerInv
  <2> QED
    BY <1>9, <2>6, <2>7, <2>8, <2>9
<1>10. ASSUME WriteCleanFails(v) \/ WriteDLQFails(v)
       PROVE  WorkerInv(v)'
  <2>1. FlushFails(v)
    BY <1>10 DEF WriteCleanFails, WriteDLQFails
  <2>2. /\ pc'[v] = "closed" /\ batch'[v] = <<>> /\ assigned'[v] = {}
        /\ session'[v] = "out" /\ valid'[v] = <<>> /\ dead'[v] = <<>>
        /\ UNCHANGED <<raw, pos>>
    BY <1>0, <2>1 DEF FlushFails, CloseReader, Close, TypeOK, GroupTypeOK
  <2> QED
    BY <1>0, <2>2 DEF WorkerInv, ReadsExist, FlushProgress, SkipsNothing
<1>11. CASE Commit(v)
  <2>1. /\ pc[v] = "commit" /\ pc'[v] = "fill" /\ batch'[v] = <<>>
        /\ valid'[v] = <<>> /\ dead'[v] = <<>>
        /\ UNCHANGED <<raw, pos, assigned, clean, dlq>>
    BY <1>0, <1>11 DEF Commit, CommitMessages, CommitFails, topics, TypeOK, GroupTypeOK
  <2>2. ASSUME NEW p \in assigned[v], NEW o \in 1 .. pos[v][p]
        PROVE  Handled(v, p, o)'
    <3>1. Durable(raw[p][o])
      BY <1>0, <2>1, HandledDurable DEF SkipsNothing
    <3> QED
      BY <2>1, <3>1 DEF Handled, Durable
  <2> QED
    BY <1>0, <2>1, <2>2 DEF WorkerInv, ReadsExist, FlushProgress, SkipsNothing
<1>12. CASE LoseSession(v)
  <2>1. /\ session[v] = "in" /\ UNCHANGED <<raw, pc, batch, pos, assigned, valid, dead,
                                           fresh, clean, dlq>>
    BY <1>12 DEF LoseSession, SessionLost, Untouched, topics, flushVars
  <2>2. pc[v] \notin {"closed", "stopped"}
    BY <1>0, <2>1 DEF FlushProgress
  <2>3. FlushProgress(v)'
    BY <1>0, <2>1, <2>2, FlushFrame
  <2>4. SkipsNothing(v)'
    BY <1>0, <2>1, SkipsNothingFrame
  <2> QED
    BY <1>0, <2>1, <2>3, <2>4 DEF WorkerInv, ReadsExist
<1>13. CASE Rejoin(v)
  <2>1. /\ session[v] = "lost" /\ assigned'[v] = {}
        /\ UNCHANGED <<raw, pc, batch, pos, valid, dead, fresh, clean, dlq>>
    BY <1>0, <1>13 DEF Rejoin, HeartbeatRefused, Untouched, topics, flushVars, TypeOK,
       GroupTypeOK
  <2>2. pc[v] \notin {"closed", "stopped"}
    BY <1>0, <2>1 DEF FlushProgress
  <2>3. FlushProgress(v)'
    BY <1>0, <2>1, <2>2, FlushFrame
  <2>4. SkipsNothing(v)'
    BY <1>0, <2>1 DEF SkipsNothing, Handled, InBatch, Durable
  <2> QED
    BY <1>0, <2>1, <2>3, <2>4 DEF WorkerInv, ReadsExist
<1>14. CASE Reassign
  <2> DEFINE member == session[v] \in {"joining", "in"}
  <2>1. UNCHANGED <<raw, committed, pc, batch, valid, dead, fresh, clean, dlq>>
    BY <1>14 DEF Reassign, Rebalance, Untouched, topics, flushVars
  <2>2. CASE ~member
    <3>1. UNCHANGED LocalState(v)
      BY <1>14, <2>1, <2>2 DEF Reassign, Rebalance, LocalState
    <3> QED
      BY <1>1, <3>1
  <2>3. CASE member
    <3>1. pos'[v] = committed /\ assigned'[v] \subseteq Partitions
      BY <1>0, <1>14, <2>3 DEF Reassign, Rebalance, TypeOK, GroupTypeOK
    <3>2. pc[v] \notin {"closed", "stopped"}
      BY <1>0, <2>3 DEF FlushProgress
    <3>3. FlushProgress(v)'
      BY <1>0, <2>1, <3>2, FlushFrame
    <3>4. ReadsExist(v)'
      BY <1>0, <2>1, <3>1 DEF ReadsExist, TypeOK, GroupTypeOK
    <3>5. \A p \in assigned'[v] : \A o \in 1 .. pos'[v][p] : Handled(v, p, o)'
      BY <2>1, <3>1 DEF IndInv, NoCommitBeforeDurable, Handled, Durable
    <3>6. SkipsNothing(v)'
      BY <1>0, <2>1, <3>5 DEF SkipsNothing, Handled, InBatch, Durable
    <3> QED
      BY <3>3, <3>4, <3>6 DEF WorkerInv
  <2> QED
    BY <2>2, <2>3
<1>15. CASE Start
  <2>1. /\ pc'[v] = "closed" /\ batch'[v] = <<>> /\ assigned'[v] = {}
        /\ session'[v] = "out" /\ valid'[v] = <<>> /\ dead'[v] = <<>>
        /\ raw' = raw /\ pos'[v] = [p \in Partitions |-> 0]
    BY <1>15 DEF Start, Crash, Restart, FreshProcess
  <2>2. \A p \in Partitions : Len(raw[p]) \in Nat
    BY <1>0, LogsAssumption DEF TypeOK, GroupTypeOK
  <2> QED
    BY <2>1, <2>2 DEF WorkerInv, ReadsExist, FlushProgress, SkipsNothing
<1> QED
  BY <1>1, <1>2, <1>3, <1>4, <1>5, <1>6, <1>7, <1>8, <1>9, <1>10, <1>11, <1>12,
     <1>13, <1>14, <1>15 DEF Next, WorkerStep

\* The inductive invariant is kept by every step.
LEMMA IndInvStep == IndInv /\ [Next]_vars => IndInv'
BY TypeStep, MarkedStep, CommitStep, WorkersStep
DEF IndInv, WorkerInv, NothingSkipped

----------------------------------------------------------------------------
(* Theorems *)

\* In every behaviour of the analytics group the inductive invariant holds.
THEOREM IndInvHolds == Spec => []IndInv
<1>1. Init => IndInv
  BY InitIndInv
<1>2. IndInv /\ [Next]_vars => IndInv'
  BY IndInvStep
<1> QED
  BY <1>1, <1>2, PTL DEF Spec

\* The analytics group's variables keep their types: in particular no commit
\* ever points past the end of a partition.
THEOREM TypeCorrect == Spec => []TypeOK
<1>1. IndInv => TypeOK
  BY DEF IndInv
<1> QED
  BY <1>1, IndInvHolds, PTL

\* No record is committed before its event is durable in the clean or in the
\* dead-letter topic (runAnalyticsBatchGroup's commit policy).
THEOREM CommitAfterDurable == Spec => []NoCommitBeforeDurable
<1>1. IndInv => NoCommitBeforeDurable
  BY DEF IndInv
<1> QED
  BY <1>1, IndInvHolds, PTL

\* A dedup key always stands for an event in the clean topic (flush marks
\* after the durable produce).
THEOREM MarkAfterProduce == Spec => []MarkedImpliesProduced
<1>1. IndInv => MarkedImpliesProduced
  BY DEF IndInv
<1> QED
  BY <1>1, IndInvHolds, PTL

\* No reader and no batch leaves a record behind that is neither downstream nor
\* in the same worker's hands.
THEOREM ReadersSkipNothing == Spec => []NothingSkipped
<1>1. IndInv => NothingSkipped
  BY DEF IndInv
<1> QED
  BY <1>1, IndInvHolds, PTL

\* The analytics group implements at-least-once delivery.
THEOREM DeliversAtLeastOnce == Spec => ImplementsAtLeastOnce
<1>1. Init => ALO!Init
  BY DEF Init, GroupInit, ALO!Init, Durable
<1>2. IndInv /\ IndInv' /\ [Next]_vars => [ALO!Next]_ALO!vars
  <2> SUFFICES ASSUME IndInv, IndInv', [Next]_vars PROVE [ALO!Next]_ALO!vars
    OBVIOUS
  <2>1. OnlyGrows /\ TypeOK /\ TypeOK' /\ NoCommitBeforeDurable'
    BY GrowStep DEF IndInv
  <2>2. CASE committed' = committed
    <3>1. {e \in Events : Durable(e)} \subseteq {e \in Events : Durable(e)}'
      BY <2>1 DEF OnlyGrows, Durable
    <3>2. ALO!Deliver
      BY <2>1, <2>2, <3>1 DEF ALO!Deliver, OnlyGrows
    <3> QED
      BY <3>2 DEF ALO!Next
  <2>3. CASE committed' # committed
    <3>1. UNCHANGED <<clean, dlq>>
      BY <2>3, CommitterMoves
    <3>2. UNCHANGED {e \in Events : Durable(e)}
      BY <3>1 DEF Durable
    <3>3. /\ committed' \in [Partitions -> Nat]
          /\ \A p \in Partitions : committed'[p] <= Len(raw[p])
      BY <2>1 DEF OnlyGrows, TypeOK, GroupTypeOK
    <3>4. \A p \in Partitions : \A o \in 1 .. committed'[p] :
             raw[p][o] \in {e \in Events : Durable(e)}
      <4>1. \A p \in Partitions : Len(raw[p]) \in Nat
        BY <2>1, LogsAssumption DEF TypeOK, GroupTypeOK
      <4>2. \A p \in Partitions : \A o \in 1 .. committed'[p] : raw[p][o] \in Events
        BY <2>1, <3>3, <4>1, RawEvents
      <4>3. \A p \in Partitions : \A o \in 1 .. committed'[p] : Durable(raw[p][o])
        BY <2>1, <3>1 DEF NoCommitBeforeDurable, OnlyGrows, Durable
      <4> QED
        BY <4>2, <4>3
    <3>5. ALO!Ack
      BY <2>1, <3>2, <3>3, <3>4 DEF ALO!Ack, OnlyGrows
    <3> QED
      BY <3>5 DEF ALO!Next
  <2> QED
    BY <2>2, <2>3
<1> QED
  BY <1>1, <1>2, IndInvHolds, PTL DEF Spec, ImplementsAtLeastOnce, ALO!Spec

=============================================================================
