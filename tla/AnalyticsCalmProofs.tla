------------------------ MODULE AnalyticsCalmProofs ------------------------
(***************************************************************************)
(* What the analytics group promises beyond at-least-once: one route per   *)
(* event while the registry stays the same, and, while nothing fails and   *)
(* no rebalance overtakes a batch, no duplicate in the clean topic, no     *)
(* commit that goes back, and no gap at shutdown.                          *)
(***************************************************************************)
EXTENDS AnalyticsPathProofs

BatchValues(w) == {Value(batch[w][i]) : i \in 1 .. Len(batch[w])}

\* flush works on its own batch only.
Contents(w) ==
    /\ EventsIn(valid[w]) \cup EventsIn(dead[w]) \subseteq BatchValues(w)
    /\ fresh[w] \subseteq EventsIn(valid[w])

\* Under one snapshot every verdict is the snapshot's.
Verdicts ==
    ~swapped =>
        /\ \A e \in Events : clean[e] > 0 => e \in roster
        /\ \A e \in Events : dlq[e] > 0 => e \notin roster
        /\ \A w \in Workers : EventsIn(valid[w]) \subseteq roster
        /\ \A w \in Workers : EventsIn(dead[w]) \cap roster = {}

\* In a calm group partitions have one reader each, a batch holds records of its
\* reader's partitions, and it holds all of them from the commit to the position.
OneReader ==
    /\ \A w \in Workers : session[w] \in {"joining", "in"} \/ assigned[w] = {}
    /\ \A v, w \in Workers : \A p \in Partitions :
         p \in assigned[v] /\ p \in assigned[w] => v = w
BatchAssigned(w) == \A i \in 1 .. Len(batch[w]) : batch[w][i].part \in assigned[w]
BatchExact(w) ==
    \A p \in assigned[w] :
        /\ committed[p] <= pos[w][p]
        /\ \A o \in Nat : InBatch(w, p, o) <=> committed[p] < o /\ o <= pos[w][p]

CalmGroup == OneReader /\ \A w \in Workers : BatchAssigned(w) /\ BatchExact(w)

\* In a calm group an event is produced once, and marked or about to be.
Producing(e) == \E w \in Workers : pc[w] \in {"dlq", "mark"} /\ e \in fresh[w]
CalmDedup ==
    /\ \A e \in Events : clean[e] <= 1
    /\ \A e \in Events : clean[e] > 0 => e \in marked \/ Producing(e)
    /\ \A w \in Workers : pc[w] = "clean" => \A e \in fresh[w] : clean[e] = 0

\* In a calm group what is downstream is committed or still in hand.
Behind(e) == \E p \in Partitions : \E o \in 1 .. committed[p] : raw[p][o] = e
CalmGap ==
    \A e \in Events : Durable(e) => Behind(e) \/ \E w \in Workers : e \in BatchValues(w)

CalmInv ==
    /\ IndInv
    /\ \A w \in Workers : Contents(w)
    /\ Verdicts
    /\ calm => CalmGroup /\ CalmDedup /\ CalmGap

----------------------------------------------------------------------------
(* What flush works on *)

\* Only what occurs is counted.
LEMMA OccursOnly ==
    ASSUME NEW s \in Seq(Events), NEW e, NEW landed \in SUBSET (1 .. Len(s)),
           Cardinality({i \in landed : s[i] = e}) # 0
    PROVE  e \in EventsIn(s)
<1> DEFINE at == {i \in landed : s[i] = e}
<1>1. at # {}
  BY FS_EmptySet
<1> QED
  BY <1>1 DEF EventsIn

\* What one step does to the locals of one worker's flush.
LEMMA LocalKinds ==
    ASSUME IndInv, [Next]_vars, NEW v \in Workers
    PROVE  \/ ValidateNext(v)
           \/ SeenBatch(v) \/ SeenBatchFails(v)
           \/ Fetch(v)
           \/ valid'[v] = <<>> /\ dead'[v] = <<>> /\ fresh'[v] = {}
           \/ /\ batch'[v] = batch[v]
              /\ valid'[v] = valid[v] /\ dead'[v] = dead[v] /\ fresh'[v] = fresh[v]
<1>0. /\ batch \in [Workers -> Seq(Message)]
      /\ valid \in [Workers -> Seq(Events)] /\ dead \in [Workers -> Seq(Events)]
      /\ fresh \in [Workers -> SUBSET Events]
  BY DEF IndInv, TypeOK, GroupTypeOK
<1> DEFINE Goal ==
             \/ ValidateNext(v)
             \/ SeenBatch(v) \/ SeenBatchFails(v)
             \/ Fetch(v)
             \/ valid'[v] = <<>> /\ dead'[v] = <<>> /\ fresh'[v] = {}
             \/ /\ batch'[v] = batch[v]
                /\ valid'[v] = valid[v] /\ dead'[v] = dead[v] /\ fresh'[v] = fresh[v]
<1>1. ASSUME NEW w \in Workers,
             \/ Open(w) \/ StartFlush(w) \/ Exit(w) \/ LoseSession(w) \/ Rejoin(w)
             \/ WriteCleanBatch(w) \/ WriteDLQBatch(w) \/ MarkBatch(w) \/ MarkBatchFails(w)
      PROVE  Goal
  BY <1>1 DEF Open, newReader, StartFlush, fillBatchReturns, Exit, WorkerExits, LoseSession,
     SessionLost, Rejoin, HeartbeatRefused, Untouched, flushVars, WriteCleanBatch,
     WriteDLQBatch, MarkBatch, MarkBatchFails, Goto
<1>2. ASSUME NEW w \in Workers, WriteCleanFails(w) \/ WriteDLQFails(w) \/ Commit(w)
      PROVE  Goal
  <2>1. /\ batch' = [batch EXCEPT ![w] = <<>>] /\ valid' = [valid EXCEPT ![w] = <<>>]
        /\ dead' = [dead EXCEPT ![w] = <<>>] /\ fresh' = [fresh EXCEPT ![w] = {}]
    BY <1>2 DEF WriteCleanFails, WriteDLQFails, FlushFails, CloseReader, Commit,
       CommitMessages, CommitFails
  <2>2. CASE w = v
    BY <1>0, <2>1, <2>2
  <2>3. CASE w # v
    BY <1>0, <2>1, <2>3
  <2> QED
    BY <2>2, <2>3
<1>3. ASSUME NEW w \in Workers, w # v,
             ValidateNext(w) \/ SeenBatch(w) \/ SeenBatchFails(w)
      PROVE  Goal
  <2>1. batch' = batch
    BY <1>3 DEF ValidateNext, SeenBatch, SeenBatchFails, Goto
  <2>2. valid'[v] = valid[v] /\ dead'[v] = dead[v] /\ fresh'[v] = fresh[v]
    BY <1>0, <1>3 DEF ValidateNext, SeenBatch, SeenBatchFails
  <2> QED
    BY <2>1, <2>2
<1>4. ASSUME NEW w \in Workers, w # v, Fetch(w)
      PROVE  Goal
  <2>1. UNCHANGED <<valid, dead, fresh>> /\ batch'[v] = batch[v]
    BY <1>0, <1>4 DEF Fetch, FetchMessage, Untouched, flushVars
  <2> QED
    BY <2>1
<1>5. CASE Start
  BY <1>5 DEF Start
<1>6. CASE \/ \E e \in Events : ExpireMark(e)
           \/ Reassign \/ Refresh \/ Terminate \/ Idle \/ UNCHANGED vars
  BY <1>6 DEF ExpireMark, Reassign, Rebalance, Refresh, Terminate, Shutdown, Idle, Stopped,
     Untouched, vars, groupVars, flushVars
<1> QED
  BY <1>1, <1>2, <1>3, <1>4, <1>5, <1>6 DEF Next, WorkerStep

\* The worker goes on working on its own batch.
LEMMA ContentsStep ==
    ASSUME IndInv, [Next]_vars, NEW v \in Workers, Contents(v)
    PROVE  Contents(v)'
<1>0. /\ raw' = raw
      /\ batch[v] \in Seq(Message) /\ valid[v] \in Seq(Events) /\ dead[v] \in Seq(Events)
  BY GrowStep DEF IndInv, TypeOK, GroupTypeOK, OnlyGrows
<1>v. batch'[v] = batch[v] => BatchValues(v)' = BatchValues(v)
  <2>1. batch'[v] = batch[v] => \A i : Value(batch[v][i])' = Value(batch[v][i])
    BY <1>0 DEF Value
  <2> QED
    BY <2>1 DEF BatchValues
<1>e. /\ valid'[v] = valid[v] => EventsIn(valid[v])' = EventsIn(valid[v])
      /\ dead'[v] = dead[v] => EventsIn(dead[v])' = EventsIn(dead[v])
  BY DEF EventsIn
<1>1. CASE ValidateNext(v)
  <2>0. Len(valid[v]) \in Nat /\ Len(dead[v]) \in Nat /\ Len(batch[v]) \in Nat
    BY <1>0
  <2>1. PICK n \in Nat : n = Len(valid[v]) + Len(dead[v])
    <3>1. \A j, k \in Nat : j + k \in Nat
      OBVIOUS
    <3> QED
      BY <2>0, <3>1, Zenon
  <2>2. n + 1 \in 1 .. Len(batch[v])
    <3>1. pc[v] = "validate" /\ FlushProgress(v)
      BY <1>1 DEF IndInv, ValidateNext
    <3>2. n < Len(batch[v])
      BY <2>1, <3>1 DEF FlushProgress
    <3> QED
      BY <2>0, <3>2
  <2>3. PICK e \in Events : e = Value(batch[v][n + 1])
    BY <1>1, <2>1, JudgedEvent DEF IndInv, ValidateNext
  <2>4. \/ valid'[v] = Append(valid[v], e) /\ dead'[v] = dead[v]
        \/ dead'[v] = Append(dead[v], e) /\ valid'[v] = valid[v]
    BY <1>1, <2>1, <2>3 DEF ValidateNext, IndInv, TypeOK
  <2>5. batch'[v] = batch[v] /\ fresh'[v] = fresh[v]
    BY <1>1 DEF ValidateNext, Goto
  <2>6. BatchValues(v)' = BatchValues(v) /\ e \in BatchValues(v)
    BY <1>v, <2>2, <2>3, <2>5 DEF BatchValues
  <2>7. /\ EventsIn(Append(valid[v], e)) = EventsIn(valid[v]) \cup {e}
        /\ EventsIn(Append(dead[v], e)) = EventsIn(dead[v]) \cup {e}
    BY <1>0, AppendEvents
  <2>8. /\ EventsIn(valid[v])' = EventsIn(valid'[v])
        /\ EventsIn(dead[v])' = EventsIn(dead'[v])
    BY DEF EventsIn
  <2>9. CASE valid'[v] = Append(valid[v], e) /\ dead'[v] = dead[v]
    BY <2>5, <2>6, <2>7, <2>8, <2>9, Zenon DEF Contents
  <2>10. CASE dead'[v] = Append(dead[v], e) /\ valid'[v] = valid[v]
    BY <2>5, <2>6, <2>7, <2>8, <2>10, Zenon DEF Contents
  <2> QED
    BY <2>4, <2>9, <2>10
<1>2. CASE SeenBatch(v) \/ SeenBatchFails(v)
  <2>1. /\ UNCHANGED <<batch, valid, dead>>
        /\ fresh'[v] \subseteq EventsIn(valid[v])
    BY <1>2 DEF SeenBatch, SeenBatchFails, Goto, IndInv, TypeOK
  <2> QED
    BY <1>v, <1>e, <2>1 DEF Contents
<1>3. CASE Fetch(v)
  <2>1. PICK p \in Partitions : FetchMessage(v, p)
    BY <1>3 DEF Fetch
  <2>2. PICK m \in Message : batch'[v] = Append(batch[v], m)
    <3>1. [part |-> p, off |-> pos[v][p] + 1] \in Message
      BY DEF IndInv, TypeOK, GroupTypeOK, Message
    <3> QED
      BY <2>1, <3>1 DEF FetchMessage, IndInv, TypeOK, GroupTypeOK
  <2>3. UNCHANGED <<valid, dead, fresh>>
    BY <1>3 DEF Fetch, Untouched, flushVars
  <2>4. BatchValues(v) \subseteq BatchValues(v)'
    <3>1. Len(batch'[v]) = Len(batch[v]) + 1 /\ Len(batch[v]) \in Nat
      BY <1>0, <2>2
    <3>2. \A i \in 1 .. Len(batch[v]) : batch'[v][i] = batch[v][i]
      BY <1>0, <2>2
    <3>3. \A i \in 1 .. Len(batch[v]) :
            i \in 1 .. Len(batch'[v]) /\ Value(batch[v][i])' = Value(batch[v][i])
      BY <1>0, <3>1, <3>2 DEF Value
    <3> QED
      BY <3>3 DEF BatchValues
  <2> QED
    BY <2>3, <2>4 DEF Contents, EventsIn
<1>4. CASE valid'[v] = <<>> /\ dead'[v] = <<>> /\ fresh'[v] = {}
  BY <1>4 DEF Contents, EventsIn
<1>5. CASE /\ batch'[v] = batch[v]
           /\ valid'[v] = valid[v] /\ dead'[v] = dead[v] /\ fresh'[v] = fresh[v]
  BY <1>v, <1>e, <1>5 DEF Contents
<1> QED
  BY <1>1, <1>2, <1>3, <1>4, <1>5, LocalKinds

----------------------------------------------------------------------------
(* One route per event *)

\* An event enters the clean topic from a worker's fresh events, and the dead-letter
\* topic from a worker's rejects.
LEMMA TopicsGrowFrom ==
    ASSUME IndInv, [Next]_vars, NEW e \in Events
    PROVE  /\ clean'[e] > 0 => clean[e] > 0 \/ \E w \in Workers : e \in fresh[w]
           /\ dlq'[e] > 0 => dlq[e] > 0 \/ \E w \in Workers : e \in EventsIn(dead[w])
<1>0. TypeOK /\ clean[e] \in Nat /\ dlq[e] \in Nat
  BY DEF IndInv, TypeOK
<1>1. ASSUME NEW w \in Workers, WriteCleanBatch(w) \/ WriteCleanFails(w)
      PROVE  dlq' = dlq /\ (e \notin fresh[w] => clean'[e] = clean[e])
  BY <1>1 DEF WriteCleanBatch, WriteCleanFails
<1>2. ASSUME NEW w \in Workers, WriteDLQBatch(w) \/ WriteDLQFails(w)
      PROVE  clean' = clean /\ (e \notin EventsIn(dead[w]) => dlq'[e] = dlq[e])
  <2>1. dead[w] \in Seq(Events)
    BY <1>0 DEF TypeOK
  <2>2. PICK landed \in SUBSET (1 .. Len(dead[w])) :
          dlq'[e] = dlq[e] + Cardinality({i \in landed : dead[w][i] = e})
    <3>1. CASE WriteDLQBatch(w)
      <4>1. dlq'[e] = dlq[e] + Cardinality({i \in 1 .. Len(dead[w]) : dead[w][i] = e})
        BY <3>1, Zenon DEF WriteDLQBatch, Occurs
      <4> QED
        BY <4>1
    <3>2. CASE WriteDLQFails(w)
      <4>1. PICK landed \in SUBSET (1 .. Len(dead[w])) :
              dlq' = [x \in Events |->
                        dlq[x] + Cardinality({i \in landed : dead[w][i] = x})]
        BY <3>2 DEF WriteDLQFails
      <4>2. dlq'[e] = dlq[e] + Cardinality({i \in landed : dead[w][i] = e})
        BY <4>1, Zenon
      <4> QED
        BY <4>2
    <3> QED
      BY <1>2, <3>1, <3>2
  <2>3. e \notin EventsIn(dead[w]) => Cardinality({i \in landed : dead[w][i] = e}) = 0
    BY <2>1, OccursOnly
  <2>4. e \notin EventsIn(dead[w]) => dlq'[e] = dlq[e] + 0
    BY <2>2, <2>3
  <2> QED
    BY <1>0, <1>2, <2>4 DEF WriteDLQBatch, WriteDLQFails
<1>3. \/ \E w \in Workers : WriteCleanBatch(w) \/ WriteCleanFails(w)
      \/ \E w \in Workers : WriteDLQBatch(w) \/ WriteDLQFails(w)
      \/ UNCHANGED <<clean, dlq>>
  BY DEF Next, WorkerStep, Open, Fetch, StartFlush, Exit, ValidateNext, SeenBatch,
     SeenBatchFails, MarkBatch, MarkBatchFails, Commit, LoseSession, Rejoin, ExpireMark,
     Reassign, Refresh, Terminate, Start, Idle, Untouched, vars, topics
<1> QED
  BY <1>0, <1>1, <1>2, <1>3

\* Only a refresh or a start replaces the snapshot, and history notes it.
LEMMA SameRoster ==
    ASSUME [Next]_vars, ~swapped'
    PROVE  ~swapped /\ roster' = roster
<1>1. ASSUME NEW w \in Workers, WorkerStep(w) \/ LoseSession(w) \/ Rejoin(w)
      PROVE  UNCHANGED <<swapped, roster>>
  BY <1>1 DEF WorkerStep, Open, Fetch, StartFlush, Exit, ValidateNext, SeenBatch,
     SeenBatchFails, WriteCleanBatch, WriteCleanFails, WriteDLQBatch, WriteDLQFails,
     MarkBatch, MarkBatchFails, Commit, FlushFails, LoseSession, Rejoin, Untouched
<1>2. CASE (\E e \in Events : ExpireMark(e)) \/ Reassign \/ Terminate \/ Idle \/ UNCHANGED vars
  BY <1>2 DEF ExpireMark, Reassign, Terminate, Idle, Untouched, vars
<1>3. CASE Refresh
  BY <1>3, Zenon DEF Refresh
<1>4. CASE Start
  BY <1>4, Zenon DEF Start
<1> QED
  BY <1>1, <1>2, <1>3, <1>4 DEF Next

\* A verdict is the snapshot's.
LEMMA VerdictsStep ==
    ASSUME IndInv, \A w \in Workers : Contents(w), Verdicts, [Next]_vars
    PROVE  Verdicts'
<1> SUFFICES ASSUME ~swapped' PROVE
               /\ \A e \in Events : clean'[e] > 0 => e \in roster'
               /\ \A e \in Events : dlq'[e] > 0 => e \notin roster'
               /\ \A w \in Workers : EventsIn(valid'[w]) \subseteq roster'
               /\ \A w \in Workers : EventsIn(dead'[w]) \cap roster' = {}
  BY DEF Verdicts, EventsIn
<1>0. /\ ~swapped /\ roster' = roster
      /\ \A e \in Events : clean[e] > 0 => e \in roster
      /\ \A e \in Events : dlq[e] > 0 => e \notin roster
      /\ \A w \in Workers : EventsIn(valid[w]) \subseteq roster
      /\ \A w \in Workers : EventsIn(dead[w]) \cap roster = {}
      /\ \A w \in Workers : fresh[w] \subseteq EventsIn(valid[w])
  BY SameRoster DEF Verdicts, Contents
<1>1. \A e \in Events : /\ clean'[e] > 0 => e \in roster'
                        /\ dlq'[e] > 0 => e \notin roster'
  BY <1>0, TopicsGrowFrom
<1>2. ASSUME NEW v \in Workers
      PROVE  EventsIn(valid'[v]) \subseteq roster /\ EventsIn(dead'[v]) \cap roster = {}
  <2>0. valid[v] \in Seq(Events) /\ dead[v] \in Seq(Events)
    BY DEF IndInv, TypeOK
  <2>1. CASE ValidateNext(v)
    <3> DEFINE e == Value(batch[v][Len(valid[v]) + Len(dead[v]) + 1])
    <3>1. e \in Events
      BY <2>1, JudgedEvent DEF IndInv, ValidateNext
    <3>2. \/ e \in roster /\ valid'[v] = Append(valid[v], e) /\ dead'[v] = dead[v]
          \/ e \notin roster /\ dead'[v] = Append(dead[v], e) /\ valid'[v] = valid[v]
      BY <2>1 DEF ValidateNext, IndInv, TypeOK
    <3> HIDE DEF e
    <3>3. /\ EventsIn(Append(valid[v], e)) = EventsIn(valid[v]) \cup {e}
          /\ EventsIn(Append(dead[v], e)) = EventsIn(dead[v]) \cup {e}
      BY <2>0, <3>1, AppendEvents
    <3>4. EventsIn(valid[v]) \subseteq roster /\ EventsIn(dead[v]) \cap roster = {}
      BY <1>0
    <3>5. CASE e \in roster /\ valid'[v] = Append(valid[v], e) /\ dead'[v] = dead[v]
      BY <3>3, <3>4, <3>5, Zenon
    <3>6. CASE e \notin roster /\ dead'[v] = Append(dead[v], e) /\ valid'[v] = valid[v]
      <4>1. EventsIn(dead'[v]) = EventsIn(dead[v]) \cup {e}
        BY <3>3, <3>6
      <4> QED
        BY <3>4, <3>6, <4>1
    <3> QED
      BY <3>2, <3>5, <3>6
  <2>2. CASE SeenBatch(v) \/ SeenBatchFails(v) \/ Fetch(v)
    <3>1. UNCHANGED <<valid, dead>>
      BY <2>2 DEF SeenBatch, SeenBatchFails, Fetch, Untouched, flushVars
    <3> QED
      BY <1>0, <3>1
  <2>3. CASE valid'[v] = <<>> /\ dead'[v] = <<>>
    BY <2>3 DEF EventsIn
  <2>4. CASE valid'[v] = valid[v] /\ dead'[v] = dead[v]
    BY <1>0, <2>4
  <2> QED
    BY <2>1, <2>2, <2>3, <2>4, LocalKinds
<1> QED
  BY <1>0, <1>1, <1>2

----------------------------------------------------------------------------
(* A calm group *)

\* What can happen to the group while it stays calm.
LEMMA CalmKinds ==
    ASSUME IndInv, [Next]_vars, calm'
    PROVE  /\ calm
           /\ \/ \E w \in Workers : newReader(w) \/ WorkerExits(w) \/ HeartbeatRefused(w)
              \/ \E w \in Workers : \E p \in Partitions : FetchMessage(w, p)
              \/ \E w \in Workers : CommitMessages(w)
              \/ Rebalance /\ \A w \in Workers : batch[w] = <<>>
              \/ Restart
              \/ UNCHANGED <<committed, session, assigned, pos, batch>>
<1>0. calm \in BOOLEAN
  BY DEF IndInv, TypeOK, GroupTypeOK
<1>1. ~Fault
  BY Zenon DEF Fault
<1>2. NoFault => calm
  BY DEF NoFault
<1>3. ASSUME NEW w \in Workers, Open(w) \/ Exit(w) \/ Rejoin(w) \/ Fetch(w)
      PROVE  /\ NoFault
             /\ \/ newReader(w) \/ WorkerExits(w) \/ HeartbeatRefused(w)
                \/ \E p \in Partitions : FetchMessage(w, p)
  BY <1>3 DEF Open, newReader, Exit, WorkerExits, Rejoin, HeartbeatRefused, Fetch, FetchMessage
<1>4. ASSUME NEW w \in Workers, Commit(w)
      PROVE  NoFault /\ CommitMessages(w)
  BY <1>1, <1>4 DEF Commit, CommitMessages, CommitFails
<1>5. ASSUME NEW w \in Workers,
             \/ StartFlush(w) \/ ValidateNext(w) \/ SeenBatch(w) \/ WriteCleanBatch(w)
             \/ WriteDLQBatch(w) \/ MarkBatch(w)
      PROVE  NoFault /\ UNCHANGED <<committed, session, assigned, pos, batch>>
  BY <1>5 DEF StartFlush, fillBatchReturns, ValidateNext, SeenBatch, WriteCleanBatch,
     WriteDLQBatch, MarkBatch, Goto
<1>6. ASSUME NEW w \in Workers,
             \/ SeenBatchFails(w) \/ WriteCleanFails(w) \/ WriteDLQFails(w)
             \/ MarkBatchFails(w) \/ LoseSession(w)
      PROVE  FALSE
  BY <1>1, <1>6 DEF SeenBatchFails, WriteCleanFails, WriteDLQFails, FlushFails,
     MarkBatchFails, LoseSession, SessionLost
<1>7. ~\E e \in Events : ExpireMark(e)
  BY <1>1 DEF ExpireMark
<1>8. CASE Reassign
  <2>1. Rebalance /\ calm /\ \A w \in Workers : batch[w] = <<>>
    BY <1>8, Zenon DEF Reassign, Rebalance
  <2> QED
    BY <2>1
<1>9. CASE Start
  BY <1>1, <1>9 DEF Start, Crash, Restart
<1>10. CASE Refresh \/ Terminate \/ Idle \/ UNCHANGED vars
  BY <1>10 DEF Refresh, NoFault, Terminate, Shutdown, Idle, Stopped, vars, groupVars
<1> QED
  BY <1>2, <1>3, <1>4, <1>5, <1>6, <1>7, <1>8, <1>9, <1>10 DEF Next, WorkerStep

\* In a calm group a commit reaches exactly what its reader has fetched.
LEMMA CommitReaches ==
    ASSUME IndInv, CalmGroup, NEW w \in Workers, CommitMessages(w), NEW p \in Partitions
    PROVE  committed'[p] = IF p \in assigned[w] THEN pos[w][p] ELSE committed[p]
<1>0. /\ batch[w] \in Seq(Message) /\ pos[w][p] \in Nat /\ committed[p] \in Nat
      /\ BatchAssigned(w) /\ BatchExact(w) /\ StoreOffsets(batch[w])
  BY DEF IndInv, TypeOK, GroupTypeOK, CalmGroup, CommitMessages
<1>1. \A i \in 1 .. Len(batch[w]) : batch[w][i] \in Message
  BY <1>0
<1>2. \A o : o \in Offsets(batch[w], p) <=> InBatch(w, p, o)
  BY <1>1 DEF Offsets, InBatch, Message
<1>3. Offsets(batch[w], p) \subseteq Nat
  BY <1>1 DEF Offsets, Message
<1>4. CASE p \notin assigned[w]
  <2>1. Offsets(batch[w], p) = {}
    BY <1>0, <1>4 DEF Offsets, BatchAssigned
  <2> QED
    BY <1>0, <1>4, <2>1 DEF StoreOffsets
<1>5. CASE p \in assigned[w]
  <2>1. /\ committed[p] <= pos[w][p]
        /\ \A o \in Nat : o \in Offsets(batch[w], p) <=> committed[p] < o /\ o <= pos[w][p]
    BY <1>0, <1>2, <1>5 DEF BatchExact
  <2>2. CASE Offsets(batch[w], p) = {}
    <3>1. committed'[p] = committed[p]
      BY <1>0, <2>2 DEF StoreOffsets
    <3>2. ~(committed[p] < pos[w][p])
      BY <1>0, <2>1, <2>2
    <3> QED
      BY <1>0, <1>5, <2>1, <3>1, <3>2
  <2>3. CASE Offsets(batch[w], p) # {}
    <3>1. /\ committed'[p] \in Offsets(batch[w], p)
          /\ \A o \in Offsets(batch[w], p) : o <= committed'[p]
      BY <1>0, <2>3 DEF StoreOffsets
    <3>2. committed'[p] \in Nat /\ committed[p] < committed'[p] /\ committed'[p] <= pos[w][p]
      BY <1>3, <2>1, <3>1
    <3>3. pos[w][p] \in Offsets(batch[w], p)
      BY <1>0, <2>1, <3>2
    <3> QED
      BY <1>0, <1>5, <3>1, <3>2, <3>3
  <2> QED
    BY <2>2, <2>3
<1> QED
  BY <1>4, <1>5

\* A reader that keeps its partitions, its position and its batch stays exact as
\* long as the commits of its partitions do.
LEMMA ExactFrame ==
    ASSUME NEW v \in Workers, BatchAssigned(v), BatchExact(v),
           assigned'[v] = assigned[v], pos'[v] = pos[v], batch'[v] = batch[v],
           \A p \in assigned[v] : committed'[p] = committed[p]
    PROVE  BatchAssigned(v)' /\ BatchExact(v)'
<1>1. \A p, o : InBatch(v, p, o)' <=> InBatch(v, p, o)
  BY DEF InBatch
<1> QED
  BY <1>1 DEF BatchAssigned, BatchExact

\* A calm group stays in order.
LEMMA CalmGroupStep ==
    ASSUME IndInv, CalmGroup, [Next]_vars, calm'
    PROVE  CalmGroup'
<1>0. TypeOK /\ GroupTypeOK(Stages) /\ GroupTypeOK(Stages)'
  BY TypeStep DEF IndInv, TypeOK
<1>t. /\ assigned \in [Workers -> SUBSET Partitions]
      /\ session \in [Workers -> {"out", "joining", "in", "lost"}]
      /\ batch \in [Workers -> Seq(Message)] /\ pos \in [Workers -> [Partitions -> Nat]]
      /\ committed \in [Partitions -> Nat]
  BY <1>0 DEF GroupTypeOK
<1>1. ASSUME NEW w \in Workers, newReader(w)
      PROVE  CalmGroup'
  <2>1. /\ UNCHANGED <<committed, assigned, pos, batch>>
        /\ session' = [session EXCEPT ![w] = "joining"]
    BY <1>1 DEF newReader
  <2>2. OneReader'
    BY <1>t, <2>1 DEF CalmGroup, OneReader
  <2> QED
    BY <2>1, <2>2, ExactFrame DEF CalmGroup
<1>2. ASSUME NEW w \in Workers, WorkerExits(w)
      PROVE  CalmGroup'
  <2>1. /\ UNCHANGED <<committed, pos, batch>> /\ batch[w] = <<>>
        /\ assigned' = [assigned EXCEPT ![w] = {}]
        /\ session' = [session EXCEPT ![w] = "out"]
    BY <1>2 DEF WorkerExits, Close
  <2>2. OneReader'
    BY <1>t, <2>1 DEF CalmGroup, OneReader
  <2>3. ASSUME NEW v \in Workers PROVE BatchAssigned(v)' /\ BatchExact(v)'
    <3>1. CASE v = w
      BY <1>t, <2>1, <3>1 DEF BatchAssigned, BatchExact
    <3>2. CASE v # w
      BY <1>t, <2>1, <3>2, ExactFrame DEF CalmGroup
    <3> QED
      BY <3>1, <3>2
  <2> QED
    BY <2>2, <2>3 DEF CalmGroup
<1>3. ASSUME NEW w \in Workers, HeartbeatRefused(w)
      PROVE  CalmGroup'
  <2>1. /\ UNCHANGED <<committed, pos, batch>> /\ session[w] = "lost"
        /\ assigned' = [assigned EXCEPT ![w] = {}]
        /\ session' = [session EXCEPT ![w] = "joining"]
    BY <1>3 DEF HeartbeatRefused
  <2>2. assigned[w] = {}
    BY <2>1 DEF CalmGroup, OneReader
  <2>3. assigned' = assigned
    BY <1>t, <2>1, <2>2
  <2>4. OneReader'
    BY <1>t, <2>1, <2>3 DEF CalmGroup, OneReader
  <2> QED
    BY <2>1, <2>3, <2>4, ExactFrame DEF CalmGroup
<1>4. ASSUME NEW w \in Workers, NEW p \in Partitions, FetchMessage(w, p)
      PROVE  CalmGroup'
  <2> DEFINE m == [part |-> p, off |-> pos[w][p] + 1]
  <2>1. /\ UNCHANGED <<committed, session, assigned>> /\ p \in assigned[w]
        /\ batch' = [batch EXCEPT ![w] = Append(@, m)]
        /\ pos' = [pos EXCEPT ![w][p] = @ + 1]
    BY <1>4 DEF FetchMessage
  <2>2. OneReader'
    BY <2>1 DEF CalmGroup, OneReader
  <2>3. ASSUME NEW v \in Workers, v # w PROVE BatchAssigned(v)' /\ BatchExact(v)'
    <3>1. assigned'[v] = assigned[v] /\ pos'[v] = pos[v] /\ batch'[v] = batch[v]
      BY <1>t, <2>1, <2>3
    <3> QED
      BY <2>1, <3>1, ExactFrame DEF CalmGroup
  <2>4. m \in Message /\ batch[w] \in Seq(Message)
    <3>1. pos[w][p] + 1 \in Nat \ {0}
      BY <1>t
    <3> QED
      BY <1>t, <3>1 DEF Message
  <2> HIDE DEF m
  <2>5. /\ batch'[w] = Append(batch[w], m) /\ Len(batch'[w]) = Len(batch[w]) + 1
        /\ Len(batch[w]) \in Nat
        /\ \A i \in 1 .. Len(batch[w]) : batch'[w][i] = batch[w][i]
        /\ batch'[w][Len(batch[w]) + 1] = m
    BY <1>t, <2>1, <2>4
  <2>6. BatchAssigned(w)'
    <3>1. m.part \in assigned[w]
      BY <2>1 DEF m
    <3> QED
      BY <2>1, <2>5, <3>1 DEF CalmGroup, BatchAssigned
  <2>7. \A q, o : InBatch(w, q, o)' <=> InBatch(w, q, o) \/ m = [part |-> q, off |-> o]
    BY <2>5 DEF InBatch
  <2>8. ASSUME NEW q \in assigned[w], NEW o \in Nat
        PROVE  /\ committed[q] <= pos'[w][q]
               /\ InBatch(w, q, o)' <=> committed[q] < o /\ o <= pos'[w][q]
    <3>1. /\ q \in Partitions /\ committed[q] \in Nat /\ pos[w][q] \in Nat
          /\ committed[q] <= pos[w][q]
          /\ InBatch(w, q, o) <=> committed[q] < o /\ o <= pos[w][q]
      BY <1>t DEF CalmGroup, BatchExact
    <3>2. CASE q = p
      <4>1. pos'[w][q] = pos[w][q] + 1
        BY <1>t, <2>1, <3>2
      <4>2. m = [part |-> q, off |-> o] <=> o = pos[w][q] + 1
        BY <3>2 DEF m
      <4> QED
        BY <2>7, <3>1, <4>1, <4>2
    <3>3. CASE q # p
      <4>1. pos'[w][q] = pos[w][q]
        BY <1>t, <2>1, <3>3
      <4>2. m # [part |-> q, off |-> o]
        BY <3>3 DEF m
      <4> QED
        BY <2>7, <3>1, <4>1, <4>2
    <3> QED
      BY <3>2, <3>3
  <2>9. BatchExact(w)'
    BY <2>1, <2>8 DEF BatchExact
  <2> QED
    BY <2>2, <2>3, <2>6, <2>9 DEF CalmGroup
<1>5. ASSUME NEW w \in Workers, CommitMessages(w)
      PROVE  CalmGroup'
  <2>1. UNCHANGED <<session, assigned, pos>> /\ batch' = [batch EXCEPT ![w] = <<>>]
    BY <1>5 DEF CommitMessages
  <2>2. OneReader'
    BY <2>1 DEF CalmGroup, OneReader
  <2>3. ASSUME NEW v \in Workers, v # w PROVE BatchAssigned(v)' /\ BatchExact(v)'
    <3>1. assigned'[v] = assigned[v] /\ pos'[v] = pos[v] /\ batch'[v] = batch[v]
      BY <1>t, <2>1, <2>3
    <3>2. \A p \in assigned[v] : p \in Partitions /\ p \notin assigned[w]
      BY <1>t, <2>3 DEF CalmGroup, OneReader
    <3>3. \A p \in assigned[v] : committed'[p] = committed[p]
      BY <1>5, <3>2, CommitReaches
    <3> QED
      BY <3>1, <3>3, ExactFrame DEF CalmGroup
  <2>4. batch'[w] = <<>>
    BY <1>t, <2>1
  <2>5. BatchAssigned(w)'
    BY <2>4 DEF BatchAssigned
  <2>6. BatchExact(w)'
    <3>1. \A p, o : ~InBatch(w, p, o)'
      BY <2>4 DEF InBatch
    <3>2. \A p \in assigned[w] : committed'[p] = pos[w][p] /\ pos[w][p] \in Nat
      BY <1>t, <1>5, CommitReaches
    <3> QED
      BY <2>1, <3>1, <3>2 DEF BatchExact
  <2> QED
    BY <2>2, <2>3, <2>5, <2>6 DEF CalmGroup
<1>6. CASE Rebalance /\ \A w \in Workers : batch[w] = <<>>
  <2> DEFINE members == {w \in Workers : session[w] \in {"joining", "in"}}
  <2>1. PICK share \in [Partitions -> members] :
          assigned' = [w \in Workers |-> IF w \in members THEN {p \in Partitions : share[p] = w}
                                                          ELSE assigned[w]]
    BY <1>6 DEF Rebalance
  <2>2. /\ session' = [w \in Workers |-> IF w \in members THEN "in" ELSE session[w]]
        /\ pos' = [w \in Workers |-> IF w \in members THEN committed ELSE pos[w]]
        /\ UNCHANGED <<committed, batch>>
    BY <1>6 DEF Rebalance
  <2>3. \A w \in Workers : w \notin members => assigned[w] = {}
    BY DEF CalmGroup, OneReader
  <2> HIDE DEF members
  <2>4. \A w \in Workers : assigned'[w] = {p \in Partitions : w \in members /\ share[p] = w}
    BY <2>1, <2>3
  <2>5. OneReader'
    <3>1. \A w \in Workers : session'[w] \in {"joining", "in"} \/ assigned'[w] = {}
      BY <2>2, <2>4
    <3>2. \A v, w \in Workers : \A p \in Partitions :
            p \in assigned'[v] /\ p \in assigned'[w] => v = w
      BY <2>4
    <3> QED
      BY <3>1, <3>2 DEF OneReader
  <2>6. ASSUME NEW v \in Workers PROVE BatchAssigned(v)' /\ BatchExact(v)'
    <3>1. batch'[v] = <<>>
      BY <1>6, <2>2
    <3>2. \A p, o : ~InBatch(v, p, o)'
      BY <3>1 DEF InBatch
    <3>3. \A p \in assigned'[v] : p \in Partitions /\ pos'[v][p] = committed[p]
      BY <2>2, <2>4
    <3>4. \A p \in assigned'[v] : committed'[p] = pos'[v][p] /\ committed'[p] \in Nat
      BY <1>t, <2>2, <3>3
    <3> QED
      BY <3>1, <3>2, <3>4 DEF BatchAssigned, BatchExact
  <2> QED
    BY <2>5, <2>6 DEF CalmGroup
<1>7. CASE Restart
  <2>1. \A v \in Workers : batch'[v] = <<>> /\ assigned'[v] = {}
    BY <1>7 DEF Restart, FreshProcess
  <2> QED
    BY <2>1 DEF CalmGroup, OneReader, BatchAssigned, BatchExact
<1>8. CASE UNCHANGED <<committed, session, assigned, pos, batch>>
  <2>1. OneReader'
    BY <1>8 DEF CalmGroup, OneReader
  <2> QED
    BY <1>8, <2>1, ExactFrame DEF CalmGroup
<1> QED
  BY <1>1, <1>2, <1>3, <1>4, <1>5, <1>6, <1>7, <1>8, CalmKinds

\* While the group stays calm, commits only go forward.
LEMMA CommitsForward ==
    ASSUME IndInv, CalmGroup, [Next]_vars, calm', NEW p \in Partitions
    PROVE  committed[p] <= committed'[p]
<1>0. committed[p] \in Nat /\ \A w \in Workers : pos[w][p] \in Nat
  BY DEF IndInv, TypeOK, GroupTypeOK
<1>1. ASSUME NEW w \in Workers, CommitMessages(w)
      PROVE  committed[p] <= committed'[p]
  <2>1. committed'[p] = IF p \in assigned[w] THEN pos[w][p] ELSE committed[p]
    BY <1>1, CommitReaches
  <2>2. p \in assigned[w] => committed[p] <= pos[w][p]
    BY DEF CalmGroup, BatchExact
  <2> QED
    BY <1>0, <2>1, <2>2
<1>2. CASE UNCHANGED committed
  BY <1>0, <1>2
<1>3. (\E w \in Workers : CommitMessages(w)) \/ UNCHANGED committed
  BY CalmKinds DEF newReader, WorkerExits, HeartbeatRefused, FetchMessage, Rebalance,
     Restart, FreshProcess
<1> QED
  BY <1>1, <1>2, <1>3

\* In a calm group an event is in one worker's hands only.
LEMMA SharedEvent ==
    ASSUME IndInv, CalmGroup, NEW v \in Workers, NEW w \in Workers, NEW e,
           e \in BatchValues(v), e \in BatchValues(w)
    PROVE  v = w
<1>1. ASSUME NEW u \in Workers, e \in BatchValues(u)
      PROVE  \E p \in Partitions : /\ p \in assigned[u]
                                   /\ \E i \in 1 .. Len(raw[p]) : raw[p][i] = e
  <2>1. PICK i \in 1 .. Len(batch[u]) : Value(batch[u][i]) = e
    BY <1>1 DEF BatchValues
  <2> DEFINE m == batch[u][i]
  <2>2. m \in Message /\ m.off <= Len(raw[m.part]) /\ m.part \in assigned[u]
    <3>1. ReadsExist(u) /\ BatchAssigned(u) /\ batch[u] \in Seq(Message)
      BY DEF IndInv, TypeOK, GroupTypeOK, CalmGroup
    <3>2. m \in Message
      BY <3>1
    <3> QED
      BY <3>1, <3>2 DEF ReadsExist, BatchAssigned
  <2>3. m.part \in Partitions /\ m.off \in Nat \ {0} /\ raw[m.part][m.off] = e
    BY <2>1, <2>2 DEF Message, Value
  <2>4. Len(raw[m.part]) \in Nat
    <3>1. raw \in [Partitions -> Seq(Events)]
      BY LogsAssumption DEF IndInv, TypeOK, GroupTypeOK
    <3>2. raw[m.part] \in Seq(Events)
      BY <2>3, <3>1
    <3> QED
      BY <3>2
  <2> HIDE DEF m
  <2>5. m.off \in 1 .. Len(raw[m.part])
    BY <2>2, <2>3, <2>4
  <2> QED
    BY <2>2, <2>3, <2>5
<1>2. PICK p \in Partitions : /\ p \in assigned[v]
                              /\ \E i \in 1 .. Len(raw[p]) : raw[p][i] = e
  BY <1>1
<1>3. PICK q \in Partitions : /\ q \in assigned[w]
                              /\ \E i \in 1 .. Len(raw[q]) : raw[q][i] = e
  BY <1>1
<1>4. p = q
  <2>1. raw \in Logs
    BY DEF IndInv, TypeOK, GroupTypeOK
  <2> QED
    BY <1>2, <1>3, <2>1, KeyedAssumption
<1> QED
  BY <1>2, <1>3, <1>4 DEF CalmGroup, OneReader

----------------------------------------------------------------------------
(* No duplicates and no gap in a calm group *)

\* What can happen to the dedup while the group stays calm.
LEMMA DedupKinds ==
    ASSUME IndInv, [Next]_vars, calm'
    PROVE  \/ \E w \in Workers : \/ SeenBatch(w) \/ WriteCleanBatch(w)
                                 \/ WriteDLQBatch(w) \/ MarkBatch(w) \/ Commit(w)
           \/ Start /\ AllStopped
           \/ /\ UNCHANGED <<clean, marked, fresh>>
              /\ \A w \in Workers :
                   \/ pc'[w] = pc[w]
                   \/ /\ pc[w] \notin {"clean", "dlq", "mark"}
                      /\ pc'[w] \notin {"clean", "dlq", "mark"}
<1>0. pc \in [Workers -> Stages]
  BY DEF IndInv, TypeOK, GroupTypeOK
<1>1. ~Fault
  BY Zenon DEF Fault
<1>2. ASSUME NEW v \in Workers,
             Open(v) \/ Fetch(v) \/ StartFlush(v) \/ Exit(v) \/ ValidateNext(v) \/ Rejoin(v)
      PROVE  /\ UNCHANGED <<clean, marked, fresh>>
             /\ \A w \in Workers :
                   \/ pc'[w] = pc[w]
                   \/ /\ pc[w] \notin {"clean", "dlq", "mark"}
                      /\ pc'[w] \notin {"clean", "dlq", "mark"}
  <2>1. UNCHANGED <<clean, marked, fresh>>
    BY <1>2 DEF Open, Fetch, StartFlush, Exit, ValidateNext, Rejoin, Untouched, topics, flushVars
  <2>2. \/ pc' = pc
        \/ \E s \in {"fill", "validate", "stopped", "seen"} :
             /\ pc' = [pc EXCEPT ![v] = s]
             /\ pc[v] \in {"closed", "fill", "validate"}
    BY <1>2 DEF Open, newReader, Fetch, FetchMessage, StartFlush, fillBatchReturns, Exit,
       WorkerExits, ValidateNext, Goto, Rejoin, HeartbeatRefused
  <2> QED
    BY <1>0, <2>1, <2>2
<1>3. ASSUME NEW w \in Workers,
             \/ SeenBatchFails(w) \/ WriteCleanFails(w) \/ WriteDLQFails(w)
             \/ MarkBatchFails(w) \/ LoseSession(w)
      PROVE  FALSE
  BY <1>1, <1>3 DEF SeenBatchFails, WriteCleanFails, WriteDLQFails, FlushFails,
     MarkBatchFails, LoseSession, SessionLost
<1>4. ~\E e \in Events : ExpireMark(e)
  BY <1>1 DEF ExpireMark
<1>5. Start => AllStopped
  BY <1>1 DEF Start, Crash, Restart
<1>6. CASE Reassign \/ Refresh \/ Terminate \/ Idle \/ UNCHANGED vars
  BY <1>6 DEF Reassign, Rebalance, Refresh, Terminate, Shutdown, Idle, Stopped, Untouched,
     vars, groupVars, topics, flushVars
<1> QED
  BY <1>2, <1>3, <1>4, <1>5, <1>6 DEF Next, WorkerStep

\* A calm group produces an event once.
LEMMA CalmDedupStep ==
    ASSUME IndInv, \A w \in Workers : Contents(w), CalmGroup, CalmDedup, [Next]_vars, calm'
    PROVE  CalmDedup'
<1>0. /\ pc \in [Workers -> Stages] /\ fresh \in [Workers -> SUBSET Events]
      /\ clean \in [Events -> Nat] /\ \A e \in Events : clean[e] \in Nat
      /\ \A w \in Workers : fresh[w] \subseteq BatchValues(w)
  BY DEF IndInv, TypeOK, GroupTypeOK, Contents
<1>1. /\ \A e \in Events : clean[e] <= 1
      /\ \A e \in Events : clean[e] > 0 => e \in marked \/ Producing(e)
      /\ \A w \in Workers : pc[w] = "clean" => \A e \in fresh[w] : clean[e] = 0
  BY DEF CalmDedup
<1>2. ASSUME NEW w \in Workers, SeenBatch(w)
      PROVE  CalmDedup'
  <2>1. /\ UNCHANGED <<clean, marked>> /\ pc[w] = "seen"
        /\ pc' = [pc EXCEPT ![w] = "clean"]
        /\ fresh' = [fresh EXCEPT ![w] = EventsIn(valid[w]) \ marked]
    BY <1>2 DEF SeenBatch, Goto, topics
  <2>2. \A v \in Workers : v # w => pc'[v] = pc[v] /\ fresh'[v] = fresh[v]
    BY <1>0, <2>1
  <2>3. \A e : Producing(e) => Producing(e)'
    BY <2>1, <2>2 DEF Producing
  <2>4. ASSUME NEW e \in EventsIn(valid[w]) \ marked
        PROVE  e \in Events /\ clean[e] = 0
    <3>1. e \in Events /\ e \in BatchValues(w)
      BY DEF Contents, IndInv, TypeOK, EventsIn
    <3>2. \A v \in Workers : e \in fresh[v] => v = w
      BY <1>0, <3>1, SharedEvent
    <3>3. ~Producing(e)
      BY <2>1, <3>2 DEF Producing
    <3> QED
      BY <1>0, <1>1, <3>1, <3>3
  <2>5. pc'[w] = "clean" /\ fresh'[w] = EventsIn(valid[w]) \ marked
    BY <1>0, <2>1
  <2> QED
    BY <1>1, <2>1, <2>2, <2>3, <2>4, <2>5 DEF CalmDedup
<1>3. ASSUME NEW w \in Workers, WriteCleanBatch(w)
      PROVE  CalmDedup'
  <2>1. /\ UNCHANGED <<marked, fresh>> /\ pc[w] = "clean"
        /\ pc' = [pc EXCEPT ![w] = "dlq"]
        /\ \A e \in Events : clean'[e] = IF e \in fresh[w] THEN clean[e] + 1 ELSE clean[e]
    BY <1>3 DEF WriteCleanBatch, Goto, flushVars
  <2>2. pc'[w] = "dlq" /\ \A v \in Workers : v # w => pc'[v] = pc[v]
    BY <1>0, <2>1
  <2>3. \A e \in Events : clean'[e] <= 1
    BY <1>0, <1>1, <2>1
  <2>4. \A e : Producing(e) => Producing(e)'
    BY <2>1, <2>2 DEF Producing
  <2>5. \A e \in fresh[w] : Producing(e)'
    BY <2>1, <2>2 DEF Producing
  <2>6. \A e \in Events : clean'[e] > 0 => e \in marked' \/ Producing(e)'
    BY <1>1, <2>1, <2>4, <2>5
  <2>7. ASSUME NEW v \in Workers, pc'[v] = "clean", NEW e \in fresh[v]
        PROVE  clean'[e] = 0
    <3>1. v # w /\ pc[v] = "clean" /\ e \in Events
      BY <1>0, <2>2, <2>7
    <3>2. e \notin fresh[w]
      BY <1>0, <3>1, SharedEvent
    <3> QED
      BY <1>1, <2>1, <3>1, <3>2
  <2> QED
    BY <2>1, <2>3, <2>6, <2>7 DEF CalmDedup
<1>4. ASSUME NEW w \in Workers, WriteDLQBatch(w)
      PROVE  CalmDedup'
  <2>1. /\ UNCHANGED <<clean, marked, fresh>> /\ pc' = [pc EXCEPT ![w] = "mark"]
    BY <1>4 DEF WriteDLQBatch, Goto, flushVars
  <2>2. pc'[w] = "mark" /\ \A v \in Workers : v # w => pc'[v] = pc[v]
    BY <1>0, <2>1
  <2>3. \A e : Producing(e) => Producing(e)'
    BY <2>1, <2>2 DEF Producing
  <2> QED
    BY <1>1, <2>1, <2>2, <2>3 DEF CalmDedup
<1>5. ASSUME NEW w \in Workers, MarkBatch(w)
      PROVE  CalmDedup'
  <2>1. /\ UNCHANGED <<clean, fresh>> /\ marked' = marked \cup fresh[w]
        /\ pc' = [pc EXCEPT ![w] = "commit"]
    BY <1>5 DEF MarkBatch, Goto, topics, flushVars
  <2>2. pc'[w] = "commit" /\ \A v \in Workers : v # w => pc'[v] = pc[v]
    BY <1>0, <2>1
  <2>3. \A e : Producing(e) => e \in marked' \/ Producing(e)'
    BY <2>1, <2>2 DEF Producing
  <2> QED
    BY <1>1, <2>1, <2>2, <2>3 DEF CalmDedup
<1>6. ASSUME NEW w \in Workers, Commit(w)
      PROVE  CalmDedup'
  <2>1. /\ UNCHANGED <<clean, marked>> /\ pc[w] = "commit" /\ pc' = [pc EXCEPT ![w] = "fill"]
        /\ fresh' = [fresh EXCEPT ![w] = {}]
    BY <1>6 DEF Commit, CommitMessages, CommitFails, topics
  <2>2. pc'[w] = "fill" /\ \A v \in Workers : v # w => pc'[v] = pc[v] /\ fresh'[v] = fresh[v]
    BY <1>0, <2>1
  <2>3. \A e : Producing(e) => Producing(e)'
    BY <2>1, <2>2 DEF Producing
  <2> QED
    BY <1>1, <2>1, <2>2, <2>3 DEF CalmDedup
<1>7. CASE Start /\ AllStopped
  <2>1. UNCHANGED <<clean, marked>> /\ \A w \in Workers : pc'[w] = "closed"
    BY <1>7 DEF Start, Crash, Restart, FreshProcess, topics
  <2>2. \A e : ~Producing(e)
    BY <1>7 DEF Producing, AllStopped
  <2> QED
    BY <1>1, <2>1, <2>2 DEF CalmDedup
<1>8. CASE /\ UNCHANGED <<clean, marked, fresh>>
           /\ \A w \in Workers :
                \/ pc'[w] = pc[w]
                \/ /\ pc[w] \notin {"clean", "dlq", "mark"}
                   /\ pc'[w] \notin {"clean", "dlq", "mark"}
  <2>1. \A e : Producing(e) => Producing(e)'
    BY <1>8 DEF Producing
  <2> QED
    BY <1>1, <1>8, <2>1 DEF CalmDedup
<1> QED
  BY <1>2, <1>3, <1>4, <1>5, <1>6, <1>7, <1>8, DedupKinds

\* In a calm group a batch in hand is kept, or its records become committed.
LEMMA CalmBatch ==
    ASSUME IndInv, CalmGroup, [Next]_vars, calm', NEW w \in Workers, NEW e \in BatchValues(w)
    PROVE  e \in BatchValues(w)' \/ Behind(e)'
<1>0. /\ raw' = raw /\ batch \in [Workers -> Seq(Message)]
      /\ pos \in [Workers -> [Partitions -> Nat]] /\ \A p \in Partitions : committed[p] \in Nat
      /\ BatchAssigned(w) /\ BatchExact(w) /\ assigned[w] \subseteq Partitions
  BY GrowStep DEF IndInv, TypeOK, GroupTypeOK, OnlyGrows, CalmGroup
<1>1. PICK i \in 1 .. Len(batch[w]) : Value(batch[w][i]) = e
  BY DEF BatchValues
<1>2. batch[w][i] \in Message /\ Len(batch[w]) \in Nat
  BY <1>0
<1>3. CASE batch'[w] = batch[w]
  <2>1. Value(batch[w][i])' = e
    BY <1>0, <1>1, <1>3 DEF Value
  <2> QED
    BY <1>1, <1>3, <2>1 DEF BatchValues
<1>4. ASSUME NEW v \in Workers, NEW p \in Partitions, FetchMessage(v, p)
      PROVE  e \in BatchValues(w)'
  <2>1. CASE v = w
    <3>1. PICK m \in Message : batch'[w] = Append(batch[w], m)
      <4>1. [part |-> p, off |-> pos[w][p] + 1] \in Message
        BY <1>0 DEF Message
      <4> QED
        BY <1>0, <1>4, <2>1, <4>1 DEF FetchMessage
    <3>2. batch'[w][i] = batch[w][i] /\ Len(batch'[w]) = Len(batch[w]) + 1
      BY <1>0, <1>1, <3>1
    <3>3. Value(batch[w][i])' = e /\ i \in 1 .. Len(batch'[w])
      BY <1>0, <1>1, <1>2, <3>2 DEF Value
    <3> QED
      BY <3>3 DEF BatchValues
  <2>2. CASE v # w
    <3>1. batch'[w] = batch[w]
      BY <1>0, <1>4, <2>2 DEF FetchMessage
    <3> QED
      BY <1>0, <1>1, <3>1 DEF BatchValues, Value
  <2> QED
    BY <2>1, <2>2
<1>5. CASE CommitMessages(w)
  <2> DEFINE q == batch[w][i].part
             o == batch[w][i].off
  <2>1. q \in assigned[w] /\ q \in Partitions /\ o \in Nat \ {0} /\ raw[q][o] = e
    BY <1>0, <1>1, <1>2 DEF BatchAssigned, Message, Value
  <2>2. InBatch(w, q, o)
    BY <1>1, <1>2 DEF InBatch, Message
  <2> HIDE DEF q, o
  <2>3. o <= pos[w][q]
    BY <1>0, <2>1, <2>2 DEF BatchExact
  <2>4. committed'[q] = pos[w][q] /\ pos[w][q] \in Nat
    BY <1>0, <1>5, <2>1, CommitReaches
  <2>5. o \in 1 .. committed'[q]
    BY <2>1, <2>3, <2>4
  <2> QED
    BY <1>0, <2>1, <2>5 DEF Behind
<1>6. ASSUME NEW v \in Workers, v # w, CommitMessages(v)
      PROVE  batch'[w] = batch[w]
  BY <1>0, <1>6 DEF CommitMessages
<1>7. ~Restart
  <2>1. batch[w] # <<>>
    BY <1>1, <1>2
  <2>2. pc[w] # "stopped"
    BY <2>1 DEF IndInv, FlushProgress
  <2> QED
    BY <2>2 DEF Restart, AllStopped
<1>8. ASSUME \/ \E v \in Workers : newReader(v) \/ WorkerExits(v) \/ HeartbeatRefused(v)
             \/ Rebalance \/ UNCHANGED <<committed, session, assigned, pos, batch>>
      PROVE  batch'[w] = batch[w]
  BY <1>8 DEF newReader, WorkerExits, HeartbeatRefused, Rebalance
<1> QED
  BY <1>3, <1>4, <1>5, <1>6, <1>7, <1>8, CalmKinds

\* In a calm group what is downstream stays committed or in hand.
LEMMA CalmGapStep ==
    ASSUME IndInv, \A w \in Workers : Contents(w), CalmGroup, CalmGap, [Next]_vars, calm'
    PROVE  CalmGap'
<1> SUFFICES ASSUME NEW e \in Events, Durable(e)'
             PROVE  Behind(e)' \/ \E w \in Workers : e \in BatchValues(w)'
  BY DEF CalmGap
<1>1. Behind(e) \/ \E w \in Workers : e \in BatchValues(w)
  <2>1. Durable(e) \/ \E w \in Workers : e \in fresh[w] \/ e \in EventsIn(dead[w])
    BY TopicsGrowFrom DEF Durable
  <2> QED
    BY <2>1 DEF CalmGap, Contents
<1>2. ASSUME Behind(e) PROVE Behind(e)'
  <2>1. PICK p \in Partitions : \E o \in 1 .. committed[p] : raw[p][o] = e
    BY <1>2 DEF Behind
  <2>2. PICK o \in 1 .. committed[p] : raw[p][o] = e
    BY <2>1
  <2>3. committed[p] <= committed'[p] /\ committed[p] \in Nat /\ committed'[p] \in Nat
    BY CommitsForward, TypeStep DEF IndInv, TypeOK, GroupTypeOK
  <2>4. o \in 1 .. committed'[p] /\ raw' = raw
    BY <2>3, GrowStep DEF IndInv, OnlyGrows
  <2> QED
    BY <2>2, <2>4 DEF Behind
<1> QED
  BY <1>1, <1>2, CalmBatch

----------------------------------------------------------------------------
(* Theorems *)

\* In every behaviour of the analytics group the stronger invariant holds as well.
THEOREM CalmInvHolds == Spec => []CalmInv
<1>1. Init => CalmInv
  <2> SUFFICES ASSUME Init PROVE CalmInv
    OBVIOUS
  <2>1. IndInv
    BY InitIndInv
  <2>2. \A w \in Workers : Contents(w)
    BY DEF Init, Contents, EventsIn
  <2>3. Verdicts
    BY DEF Init, Verdicts, EventsIn
  <2>4. CalmGroup
    BY DEF Init, GroupInit, CalmGroup, OneReader, BatchAssigned, BatchExact
  <2>5. CalmDedup /\ CalmGap
    BY DEF Init, GroupInit, CalmDedup, CalmGap, Durable
  <2> QED
    BY <2>1, <2>2, <2>3, <2>4, <2>5 DEF CalmInv
<1>2. CalmInv /\ [Next]_vars => CalmInv'
  <2> SUFFICES ASSUME CalmInv, [Next]_vars PROVE CalmInv'
    OBVIOUS
  <2>1. IndInv /\ \A w \in Workers : Contents(w)
    BY DEF CalmInv
  <2>2. IndInv'
    BY <2>1, IndInvStep
  <2>3. \A w \in Workers : Contents(w)'
    BY <2>1, ContentsStep
  <2>4. Verdicts'
    BY <2>1, VerdictsStep DEF CalmInv
  <2>5. ASSUME calm' PROVE CalmGroup' /\ CalmDedup' /\ CalmGap'
    <3>1. CalmGroup /\ CalmDedup /\ CalmGap
      BY <2>1, <2>5, CalmKinds DEF CalmInv
    <3> QED
      BY <2>1, <2>5, <3>1, CalmGroupStep, CalmDedupStep, CalmGapStep
  <2> QED
    BY <2>2, <2>3, <2>4, <2>5 DEF CalmInv
<1> QED
  BY <1>1, <1>2, PTL DEF Spec

\* While the registry stays the same, no event is both in the clean and in the
\* dead-letter topic, however often its batch is delivered again (flush).
THEOREM OneWay == Spec => []RoutedOneWay
<1>1. CalmInv => RoutedOneWay
  BY DEF CalmInv, Verdicts, RoutedOneWay
<1> QED
  BY <1>1, CalmInvHolds, PTL

\* Dedup works: the clean topic holds an event twice only after a fault or after a
\* rebalance over a batch in hand.
THEOREM NoDuplicateWhenCalm == Spec => []DuplicateNeedsDisturbance
<1>1. CalmInv => DuplicateNeedsDisturbance
  BY DEF CalmInv, CalmDedup, DuplicateNeedsDisturbance
<1> QED
  BY <1>1, CalmInvHolds, PTL

\* An undisturbed group that has shut down has committed whatever it has produced.
THEOREM NoGapAtShutdown == Spec => []NoShutdownGap
<1>1. CalmInv => NoShutdownGap
  <2> SUFFICES ASSUME CalmInv, calm, AllStopped, NEW e \in Events, Durable(e)
               PROVE  Behind(e)
    BY DEF NoShutdownGap, Behind
  <2>1. \A w \in Workers : batch[w] = <<>>
    BY DEF CalmInv, IndInv, FlushProgress, AllStopped
  <2>2. \A w \in Workers : BatchValues(w) = {}
    BY <2>1 DEF BatchValues
  <2> QED
    BY <2>2 DEF CalmInv, CalmGap
<1> QED
  BY <1>1, CalmInvHolds, PTL

\* Blind commits do not rewind an undisturbed group: committed offsets go forward
\* until something fails or a rebalance overtakes a batch.
THEOREM CommitsNeverRewind == Spec => CommitsMoveForward
<1>1. CalmInv /\ [Next]_vars =>
        [calm' => \A p \in Partitions : committed[p] <= committed'[p]]_vars
  BY CalmKinds, CommitsForward DEF CalmInv
<1> QED
  BY <1>1, CalmInvHolds, PTL DEF Spec, CommitsMoveForward
=============================================================================
