-------------------------- MODULE WarehouseProofs --------------------------
(***************************************************************************)
(* What holds of the warehouse for every set of events, every assignment   *)
(* to partitions and every bound: types, that a committed row is in        *)
(* events_raw, that the rollup never understates, and that an undisturbed  *)
(* recompute is exact.                                                     *)
(***************************************************************************)
EXTENDS Warehouse, SumProofs, SequenceTheorems

Stages == {"idle", "polled", "landed", "summed"}

QueueType ==
    /\ clean \in [Partitions -> Seq(Rows)]
    /\ offset \in [Partitions -> Nat]
    /\ stage \in [Partitions -> Stages]
    /\ upto \in [Partitions -> Nat]

\* A block in flight lies within the topic after the offset.
BlockBounds ==
    \A p \in Partitions :
        /\ offset[p] <= Len(clean[p])
        /\ stage[p] # "idle" => offset[p] < upto[p] /\ upto[p] <= Len(clean[p])

TableType == raw \in [Rows -> Nat] /\ revenue \in [Keys -> Nat]

DagType ==
    /\ task \in {"none", "freshness", "optimize", "bounds", "delete", "read", "insert",
                 "gate", "ttl"}
    /\ target \in Days
    /\ recomputed \in [{0, 1} -> Nat]
    /\ hole \subseteq Days /\ raced \in BOOLEAN

\* How far a partition is in events_raw, and how far in the rollup: a block that was
\* pushed counts before its offsets are committed.
LandedTo(p) == IF stage[p] \in {"landed", "summed"} THEN upto[p] ELSE offset[p]
SummedTo(p) == IF stage[p] = "summed" THEN upto[p] ELSE offset[p]

PushedLanded == \A p \in Partitions : \A i \in 1 .. LandedTo(p) : raw[clean[p][i]] > 0

Summed == {r \in Rows : \E p \in Partitions : \E i \in 1 .. SummedTo(p) : clean[p][i] = r}

\* What a key must hold at least.
Owed(k) == SumFunctionOnSet(Cost, Stops(k[1], k[2]) \cap Summed)

Covered ==
    \A k \in Keys : \/ Owed(k) <= revenue[k]
                    \/ k[1] = target /\ Overwriting
                    \/ k[1] \in hole

\* What the SELECT has read makes up for what the DELETE removed.
Refilled ==
    task = "insert" =>
        \A b \in {0, 1} : Owed(<<target, b>>) <= revenue[<<target, b>>] + recomputed[b]

\* As long as no row of the day arrives, the day stays deleted and what the SELECT
\* has read stays what FINAL reads.
Undisturbed ==
    ~raced => \A b \in {0, 1} :
        /\ Overwriting => revenue[<<target, b>>] = 0
        /\ task = "insert" => recomputed[b] = FinalRevenue(target, b)

\* The inductive invariant.
WarehouseInv ==
    /\ QueueType /\ BlockBounds /\ TableType /\ DagType
    /\ PushedLanded /\ Covered /\ Refilled /\ Undisturbed

----------------------------------------------------------------------------
(* Rows, days and counts *)

\* The columns of a row.
LEMMA RowFields ==
    ASSUME NEW r \in Rows
    PROVE  /\ r.id \in Events /\ PartitionOf[r.id] \in Partitions
           /\ r.day \in Nat \ {0} /\ r.day \in {e.day : e \in Events}
           /\ r.cost_eur \in Nat /\ Cost[r] \in Nat
           /\ r.is_peak_priced \in {0, 1}
<1>1. PICK e \in Events : r = Flatten(e)
  BY DEF Rows
<1>2. r.id = e /\ r.day = e.day /\ r.cost_eur = e.cost /\ r.is_peak_priced \in {0, 1}
  BY <1>1 DEF Flatten
<1> QED
  BY <1>2, EventAssumption DEF Cost, Partitions

\* There are finitely many rows.
LEMMA RowsFinite == IsFiniteSet(Rows) /\ \A d, b : IsFiniteSet(Stops(d, b))
<1>1. IsFiniteSet(Rows)
  <2> DEFINE F == [e \in Events |-> Flatten(e)]
  <2>1. Rows = {F[e] : e \in Events}
    BY DEF Rows
  <2> HIDE DEF F
  <2> QED
    BY <2>1, ImageFinite, EventAssumption
<1>2. \A d, b : Stops(d, b) \subseteq Rows
  BY DEF Stops
<1> QED
  BY <1>1, <1>2, FS_Subset

\* The days reach up to the last event's.
LEMMA DaysReach ==
    /\ 0 \in Days /\ Days \subseteq Nat
    /\ \A r \in Rows : r.day \in Days /\ r.day - 1 \in Days
<1> DEFINE D == {e.day : e \in Events}
<1>1. IsFiniteSet(D) /\ D \subseteq Nat /\ D # {}
  <2> DEFINE F == [e \in Events |-> e.day]
  <2>1. D = {F[e] : e \in Events}
    OBVIOUS
  <2>2. IsFiniteSet({F[e] : e \in Events})
    <3> HIDE DEF F
    <3> QED
      BY ImageFinite, EventAssumption
  <2> QED
    BY <2>1, <2>2, EventAssumption
<1> HIDE DEF D
<1>2. Max(D) \in D /\ \A y \in D : y <= Max(D)
  BY <1>1, MaxExists
<1>3. Days = 0 .. Max(D)
  BY DEF Days, D
<1>4. \A r \in Rows : r.day \in D /\ r.day \in Nat \ {0}
  BY RowFields DEF D
<1>5. PICK m \in Nat : m = Max(D)
  BY <1>1, <1>2
<1>6. ASSUME NEW r \in Rows
      PROVE  r.day \in 0 .. m /\ r.day - 1 \in 0 .. m
  <2>1. PICK d \in Nat \ {0} : d = r.day /\ d <= m
    BY <1>2, <1>4, <1>5
  <2> QED
    BY <2>1
<1> QED
  BY <1>3, <1>5, <1>6

\* A count is a natural number, and positive just if the row is there.
LEMMA CountPositive ==
    ASSUME NEW p, NEW r, NEW m \in Int, NEW n \in Int
    PROVE  /\ Count(p, r, m, n) \in Nat
           /\ Count(p, r, m, n) > 0 <=> \E i \in m .. n : clean[p][i] = r
<1> DEFINE I == {i \in m .. n : clean[p][i] = r}
<1>1. IsFiniteSet(I)
  BY FS_Interval, FS_Subset
<1>2. Cardinality(I) \in Nat /\ (Cardinality(I) = 0 <=> I = {})
  BY <1>1, FS_CardinalityType, FS_EmptySet
<1> QED
  BY <1>2 DEF Count

\* The same for the block in flight.
LEMMA InBlockPositive ==
    ASSUME QueueType, NEW p \in Partitions, NEW r
    PROVE  /\ InBlock(p, r) \in Nat
           /\ InBlock(p, r) > 0 <=> \E i \in (offset[p] + 1) .. upto[p] : clean[p][i] = r
<1>1. offset[p] + 1 \in Int /\ upto[p] \in Int
  BY DEF QueueType
<1> QED
  BY <1>1, CountPositive DEF InBlock

\* Whatever rows of a key are summed, their cost is a natural number.
LEMMA CostNat ==
    ASSUME NEW d, NEW b, NEW R
    PROVE  SumFunctionOnSet(Cost, Stops(d, b) \cap R) \in Nat
<1>1. IsFiniteSet(Stops(d, b) \cap R) /\ Stops(d, b) \cap R \subseteq Rows
  BY RowsFinite, FS_Subset DEF Stops
<1> QED
  BY <1>1, RowFields, SumNat

\* Revenue of FINAL reads, and what a block adds, are natural numbers.
LEMMA RevenueNat ==
    ASSUME QueueType, NEW d, NEW b
    PROVE  /\ FinalRevenue(d, b) \in Nat
           /\ \A p \in Partitions : BlockRevenue(p, d, b) \in Nat
<1>1. /\ IsFiniteSet(Stops(d, b)) /\ Stops(d, b) \subseteq Rows
      /\ IsFiniteSet(Stops(d, b) \cap Landed)
  BY RowsFinite, FS_Subset DEF Stops
<1>2. FinalRevenue(d, b) \in Nat
  BY <1>1, RowFields, SumNat DEF FinalRevenue
<1>3. ASSUME NEW p \in Partitions
      PROVE  BlockRevenue(p, d, b) \in Nat
  <2> DEFINE g == [r \in Rows |-> InBlock(p, r) * Cost[r]]
  <2>1. \A r \in Rows : g[r] \in Nat
    <3> TAKE r \in Rows
    <3>1. InBlock(p, r) \in Nat /\ Cost[r] \in Nat
      BY InBlockPositive, RowFields
    <3> QED
      BY <3>1
  <2> HIDE DEF g
  <2>2. SumFunctionOnSet(g, Stops(d, b)) \in Nat
    BY <1>1, <2>1, SumNat
  <2> QED
    BY <2>2 DEF BlockRevenue, g
<1> QED
  BY <1>2, <1>3

----------------------------------------------------------------------------
(* The queue and its positions *)

\* A push or its failure moves one partition's block; the DAG moves none.
LEMMA QueueActions ==
    ASSUME [Next]_vars
    PROVE  \/ \E e \in Events : Produce(e)
           \/ \E p \in Partitions : Push(p) \/ PushFails(p)
           \/ CrashServer
           \/ UNCHANGED queueVars
BY DEF Next, Merge, Trigger, Dag, freshness_check, optimize_closed_partition,
       reconcile_bounds, DeleteDay, SelectFinal, InsertDay, dq_psi_gate, enforce_ttl,
       TaskFails, vars

\* A row appended to a partition leaves the others where they are.
LEMMA ProduceAppends ==
    ASSUME QueueType, NEW e \in Events, Produce(e)
    PROVE  /\ clean' \in [Partitions -> Seq(Rows)]
           /\ \A p \in Partitions :
                /\ Len(clean[p]) <= Len(clean'[p])
                /\ \A i \in 1 .. Len(clean[p]) : clean'[p][i] = clean[p][i]
<1> DEFINE q == PartitionOf[e]
           r == Flatten(e)
<1>1. q \in Partitions /\ r \in Rows
  BY DEF Partitions, Rows
<1>2. clean' = [clean EXCEPT ![q] = Append(@, r)]
  BY DEF Produce
<1> HIDE DEF q, r
<1>3. \A p \in Partitions : clean'[p] = IF p = q THEN Append(clean[p], r) ELSE clean[p]
  BY <1>1, <1>2 DEF QueueType
<1>4. clean' \in [Partitions -> Seq(Rows)]
  BY <1>1, <1>2 DEF QueueType
<1>5. ASSUME NEW p \in Partitions
      PROVE  /\ Len(clean[p]) <= Len(clean'[p])
             /\ \A i \in 1 .. Len(clean[p]) : clean'[p][i] = clean[p][i]
  <2>1. clean[p] \in Seq(Rows)
    BY DEF QueueType
  <2>2. CASE p = q
    <3>1. clean'[p] = Append(clean[p], r)
      BY <1>3, <2>2
    <3>2. /\ Len(Append(clean[p], r)) = Len(clean[p]) + 1 /\ Len(clean[p]) \in Nat
          /\ \A i \in 1 .. Len(clean[p]) : Append(clean[p], r)[i] = clean[p][i]
      BY <1>1, <2>1, AppendProperties
    <3> QED
      BY <3>1, <3>2
  <2>3. CASE p # q
    BY <1>3, <2>1, <2>3
  <2> QED
    BY <2>2, <2>3
<1> QED
  BY <1>4, <1>5

\* Types of the queue.
LEMMA QueueStep == WarehouseInv /\ [Next]_vars => QueueType' /\ BlockBounds'
<1> SUFFICES ASSUME WarehouseInv, [Next]_vars
             PROVE  QueueType' /\ BlockBounds'
  OBVIOUS
<1>0. /\ QueueType /\ BlockBounds
      /\ \A p \in Partitions : Len(clean[p]) \in Nat
  BY DEF WarehouseInv, QueueType
<1>1. ASSUME NEW e \in Events, Produce(e)
      PROVE  QueueType' /\ BlockBounds'
  <2>1. UNCHANGED <<offset, stage, upto>>
    BY <1>1 DEF Produce
  <2>2. QueueType'
    BY <1>0, <1>1, <2>1, ProduceAppends DEF QueueType
  <2>3. \A p \in Partitions : Len(clean'[p]) \in Nat /\ Len(clean[p]) <= Len(clean'[p])
    BY <1>0, <1>1, <2>2, ProduceAppends DEF QueueType
  <2> QED
    BY <1>0, <2>1, <2>2, <2>3 DEF BlockBounds, QueueType
<1>2. ASSUME NEW p \in Partitions, Push(p) \/ PushFails(p)
      PROVE  QueueType' /\ BlockBounds'
  <2>1. CASE Poll(p)
    BY <1>0, <2>1 DEF Poll, QueueType, BlockBounds, Stages
  <2>2. CASE events_mv(p)
    BY <1>0, <2>2 DEF events_mv, QueueType, BlockBounds, Stages
  <2>3. CASE revenue_hourly_mv(p)
    BY <1>0, <2>3 DEF revenue_hourly_mv, QueueType, BlockBounds, Stages
  <2>4. CASE Commit(p)
    BY <1>0, <2>4 DEF Commit, QueueType, BlockBounds, Stages
  <2>5. CASE PushFails(p)
    BY <1>0, <2>5 DEF PushFails, QueueType, BlockBounds, Stages
  <2> QED
    BY <1>2, <2>1, <2>2, <2>3, <2>4, <2>5 DEF Push
<1>3. CASE CrashServer
  BY <1>0, <1>3 DEF CrashServer, QueueType, BlockBounds, Stages
<1>4. CASE UNCHANGED queueVars
  BY <1>0, <1>4 DEF queueVars, QueueType, BlockBounds
<1> QED
  BY <1>1, <1>2, <1>3, <1>4, QueueActions

\* Only events_mv moves the landed position forward, and only revenue_hourly_mv the
\* summed one: a commit keeps both, a failure takes them back.
LEMMA Positions ==
    ASSUME WarehouseInv, [Next]_vars, NEW p \in Partitions
    PROVE  /\ \A i \in 1 .. Len(clean[p]) : clean'[p][i] = clean[p][i]
           /\ LandedTo(p)' <= LandedTo(p) \/ events_mv(p)
           /\ SummedTo(p)' <= SummedTo(p) \/ revenue_hourly_mv(p)
<1>0. /\ QueueType /\ BlockBounds
      /\ \A q \in Partitions : Len(clean[q]) \in Nat
  BY DEF WarehouseInv, QueueType
<1>1. ASSUME NEW e \in Events, Produce(e)
      PROVE  /\ \A i \in 1 .. Len(clean[p]) : clean'[p][i] = clean[p][i]
             /\ LandedTo(p)' <= LandedTo(p) /\ SummedTo(p)' <= SummedTo(p)
  <2>1. UNCHANGED <<offset, stage, upto>>
    BY <1>1 DEF Produce
  <2>2. LandedTo(p) \in Nat /\ SummedTo(p) \in Nat
    BY <1>0 DEF LandedTo, SummedTo, QueueType
  <2>3. LandedTo(p)' = LandedTo(p) /\ SummedTo(p)' = SummedTo(p)
    BY <2>1 DEF LandedTo, SummedTo
  <2> QED
    BY <1>0, <1>1, <2>2, <2>3, ProduceAppends
<1>2. ASSUME NEW q \in Partitions, Push(q) \/ PushFails(q)
      PROVE  /\ clean' = clean
             /\ LandedTo(p)' <= LandedTo(p) \/ events_mv(p)
             /\ SummedTo(p)' <= SummedTo(p) \/ revenue_hourly_mv(p)
  <2>1. CASE Poll(q)
    BY <1>0, <2>1 DEF Poll, QueueType, BlockBounds, Stages, LandedTo, SummedTo
  <2>2. CASE events_mv(q)
    <3>1. CASE p = q
      <4>1. clean' = clean /\ SummedTo(p)' = offset[p] /\ SummedTo(p) = offset[p]
        BY <1>0, <2>2, <3>1 DEF events_mv, QueueType, SummedTo
      <4> QED
        BY <1>0, <2>2, <3>1, <4>1 DEF QueueType
    <3>2. CASE p # q
      <4>1. clean' = clean /\ stage'[p] = stage[p] /\ upto' = upto /\ offset' = offset
        BY <1>0, <2>2, <3>2 DEF events_mv, QueueType
      <4> QED
        BY <1>0, <4>1 DEF LandedTo, SummedTo, QueueType
    <3> QED
      BY <3>1, <3>2
  <2>3. CASE revenue_hourly_mv(q)
    <3>1. CASE p = q
      <4>1. clean' = clean /\ LandedTo(p)' = upto[p] /\ LandedTo(p) = upto[p]
        BY <1>0, <2>3, <3>1 DEF revenue_hourly_mv, QueueType, LandedTo
      <4> QED
        BY <1>0, <2>3, <3>1, <4>1 DEF QueueType
    <3>2. CASE p # q
      <4>1. clean' = clean /\ stage'[p] = stage[p] /\ upto' = upto /\ offset' = offset
        BY <1>0, <2>3, <3>2 DEF revenue_hourly_mv, QueueType
      <4> QED
        BY <1>0, <4>1 DEF LandedTo, SummedTo, QueueType
    <3> QED
      BY <3>1, <3>2
  <2>4. CASE Commit(q)
    BY <1>0, <2>4 DEF Commit, QueueType, BlockBounds, Stages, LandedTo, SummedTo
  <2>5. CASE PushFails(q)
    BY <1>0, <2>5 DEF PushFails, QueueType, BlockBounds, Stages, LandedTo, SummedTo
  <2> QED
    BY <1>2, <2>1, <2>2, <2>3, <2>4, <2>5 DEF Push
<1>3. CASE CrashServer
  <2>1. /\ clean' = clean /\ offset' = offset
        /\ LandedTo(p)' = offset[p] /\ SummedTo(p)' = offset[p]
    <3>1. clean' = clean /\ offset' = offset /\ stage'[p] = "idle"
      BY <1>3 DEF CrashServer, tableVars
    <3> QED
      BY <3>1 DEF LandedTo, SummedTo
  <2>2. offset[p] <= LandedTo(p) /\ offset[p] <= SummedTo(p)
    <3>1. offset[p] \in Nat /\ upto[p] \in Nat /\ (stage[p] # "idle" => offset[p] < upto[p])
      BY <1>0 DEF BlockBounds, QueueType
    <3>2. CASE stage[p] = "idle"
      BY <3>1, <3>2 DEF LandedTo, SummedTo
    <3>3. CASE stage[p] # "idle"
      BY <3>1, <3>3 DEF LandedTo, SummedTo
    <3> QED
      BY <3>2, <3>3
  <2> QED
    BY <2>1, <2>2
<1>4. CASE UNCHANGED queueVars
  BY <1>0, <1>4 DEF queueVars, QueueType, LandedTo, SummedTo
<1> QED
  BY <1>1, <1>2, <1>3, <1>4, QueueActions

\* Merges and inserts take no row out of events_raw.
LEMMA RowsStay ==
    ASSUME WarehouseInv, [Next]_vars
    PROVE  raw' \in [Rows -> Nat] /\ \A r \in Rows : raw[r] > 0 => raw'[r] > 0
<1>0. raw \in [Rows -> Nat] /\ QueueType
  BY DEF WarehouseInv, TableType
<1>1. ASSUME NEW p \in Partitions, events_mv(p)
      PROVE  raw' \in [Rows -> Nat] /\ \A r \in Rows : raw[r] > 0 => raw'[r] > 0
  <2>1. \A r \in Rows : InBlock(p, r) \in Nat
    BY <1>0, InBlockPositive
  <2> QED
    BY <1>0, <1>1, <2>1 DEF events_mv
<1>2. ASSUME NEW r \in Rows, Merge(r)
      PROVE  raw' \in [Rows -> Nat] /\ \A s \in Rows : raw[s] > 0 => raw'[s] > 0
  BY <1>0, <1>2 DEF Merge
<1>3. CASE optimize_closed_partition
  BY <1>0, <1>3 DEF optimize_closed_partition
<1>4. \/ \E p \in Partitions : events_mv(p)
      \/ \E r \in Rows : Merge(r)
      \/ optimize_closed_partition
      \/ UNCHANGED raw
  BY DEF Next, Push, Dag, Produce, Poll, revenue_hourly_mv, Commit, PushFails,
         CrashServer, Trigger, freshness_check, reconcile_bounds, DeleteDay,
         SelectFinal, InsertDay, dq_psi_gate, enforce_ttl, TaskFails, vars, tableVars
<1> QED
  BY <1>0, <1>1, <1>2, <1>3, <1>4

\* What has been pushed to events_raw is there.
LEMMA PushedStep == WarehouseInv /\ [Next]_vars => PushedLanded'
<1> SUFFICES ASSUME WarehouseInv, [Next]_vars, NEW p \in Partitions,
                    NEW i \in 1 .. LandedTo(p)'
             PROVE  raw'[clean'[p][i]] > 0
  BY DEF PushedLanded
<1>0. /\ QueueType /\ BlockBounds /\ PushedLanded /\ raw \in [Rows -> Nat]
      /\ clean[p] \in Seq(Rows) /\ Len(clean[p]) \in Nat
      /\ offset[p] \in Nat /\ upto[p] \in Nat
  BY DEF WarehouseInv, QueueType, TableType
<1>1. CASE LandedTo(p)' <= LandedTo(p)
  <2>1. LandedTo(p) \in Nat /\ LandedTo(p) <= Len(clean[p])
    BY <1>0 DEF LandedTo, BlockBounds
  <2>2. LandedTo(p)' \in Nat
    BY QueueStep DEF LandedTo, QueueType
  <2>3. i \in 1 .. LandedTo(p) /\ i \in 1 .. Len(clean[p])
    BY <1>1, <2>1, <2>2
  <2>4. clean[p][i] \in Rows /\ raw[clean[p][i]] > 0
    BY <1>0, <2>3 DEF PushedLanded
  <2> QED
    BY <2>3, <2>4, Positions, RowsStay
<1>2. CASE events_mv(p)
  <2>1. LandedTo(p)' = upto[p] /\ clean' = clean /\ LandedTo(p) = offset[p]
    BY <1>0, <1>2 DEF events_mv, LandedTo, QueueType
  <2>2. upto[p] <= Len(clean[p]) /\ offset[p] < upto[p]
    BY <1>0, <1>2 DEF BlockBounds, events_mv
  <2>3. clean[p][i] \in Rows
    BY <1>0, <2>1, <2>2
  <2>4. CASE i \in 1 .. offset[p]
    BY <1>0, <2>1, <2>3, <2>4, RowsStay DEF PushedLanded
  <2>5. CASE i \in (offset[p] + 1) .. upto[p]
    <3>1. InBlock(p, clean[p][i]) \in Nat /\ InBlock(p, clean[p][i]) > 0
      BY <1>0, <2>5, InBlockPositive
    <3>2. raw'[clean[p][i]] = raw[clean[p][i]] + InBlock(p, clean[p][i])
      BY <1>2, <2>3 DEF events_mv
    <3>3. raw[clean[p][i]] \in Nat
      BY <1>0, <2>3
    <3> QED
      BY <2>1, <3>1, <3>2, <3>3
  <2> QED
    BY <1>0, <2>1, <2>2, <2>4, <2>5
<1> QED
  BY <1>1, <1>2, Positions

----------------------------------------------------------------------------
(* What the rollup owes *)

\* The summed rows lie in the topic.
LEMMA SummedInTopic ==
    ASSUME QueueType, BlockBounds, NEW p \in Partitions
    PROVE  SummedTo(p) \in Nat /\ SummedTo(p) <= Len(clean[p]) /\ Len(clean[p]) \in Nat
<1>1. /\ offset[p] \in Nat /\ upto[p] \in Nat /\ clean[p] \in Seq(Rows)
      /\ offset[p] <= Len(clean[p]) /\ (stage[p] = "summed" => upto[p] <= Len(clean[p]))
  BY DEF QueueType, BlockBounds
<1> QED
  BY <1>1 DEF SummedTo

\* Without a push to the rollup no key is owed more.
LEMMA OwedFalls ==
    ASSUME WarehouseInv, [Next]_vars, \A p \in Partitions : ~revenue_hourly_mv(p), NEW k
    PROVE  Owed(k)' <= Owed(k)
<1>0. QueueType /\ BlockBounds /\ QueueType' /\ BlockBounds'
  BY QueueStep DEF WarehouseInv
<1>1. Summed' \subseteq Summed
  <2> SUFFICES ASSUME NEW r \in Rows, NEW p \in Partitions,
                      NEW i \in 1 .. SummedTo(p)', clean'[p][i] = r
               PROVE  \E j \in 1 .. SummedTo(p) : clean[p][j] = r
    BY DEF Summed
  <2>1. SummedTo(p)' <= SummedTo(p) /\ \A j \in 1 .. Len(clean[p]) : clean'[p][j] = clean[p][j]
    BY Positions
  <2>2. /\ SummedTo(p) \in Nat /\ SummedTo(p) <= Len(clean[p]) /\ Len(clean[p]) \in Nat
        /\ SummedTo(p)' \in Nat
    BY <1>0, SummedInTopic DEF SummedTo, QueueType
  <2>3. i \in 1 .. SummedTo(p) /\ i \in 1 .. Len(clean[p])
    BY <2>1, <2>2
  <2> QED
    BY <2>1, <2>3
<1> DEFINE A == Stops(k[1], k[2]) \cap Summed'
           S == Stops(k[1], k[2]) \cap Summed
<1>2. /\ A \subseteq S /\ IsFiniteSet(S)
      /\ \A r \in S : Cost[r] \in Nat
  BY <1>1, RowsFinite, RowFields, FS_Subset DEF Stops
<1>3. SumFunctionOnSet(Cost, A) <= SumFunctionOnSet(Cost, S)
  <2> HIDE DEF A, S
  <2> QED
    BY <1>2, SumMonotone
<1> QED
  BY <1>3 DEF Owed

\* A push to the rollup adds at least what its rows are owed.
LEMMA OwedRises ==
    ASSUME QueueType, BlockBounds, NEW q \in Partitions, revenue_hourly_mv(q), NEW k
    PROVE  Owed(k)' <= Owed(k) + BlockRevenue(q, k[1], k[2])
<1>1. /\ clean' = clean /\ offset' = offset /\ upto' = upto
      /\ \A p \in Partitions : stage'[p] = IF p = q THEN "summed" ELSE stage[p]
      /\ stage[q] = "landed"
  BY DEF revenue_hourly_mv, QueueType
<1>2. ASSUME NEW r \in Summed' \ Summed
      PROVE  InBlock(q, r) \in Nat /\ InBlock(q, r) > 0
  <2>1. r \in Rows
    BY DEF Summed
  <2>2. PICK p \in Partitions : \E i \in 1 .. SummedTo(p)' : clean[p][i] = r
    BY <1>1 DEF Summed
  <2>3. PICK i \in 1 .. SummedTo(p)' : clean[p][i] = r
    BY <2>2
  <2>4. i \notin 1 .. SummedTo(p)
    BY <2>1, <2>3 DEF Summed
  <2>5. p = q
    BY <1>1, <2>3, <2>4 DEF SummedTo
  <2>6. SummedTo(p)' = upto[q] /\ SummedTo(p) = offset[q]
    BY <1>1, <2>5 DEF SummedTo
  <2>7. i \in (offset[q] + 1) .. upto[q]
    BY <2>3, <2>4, <2>6 DEF QueueType
  <2> QED
    BY <2>3, <2>5, <2>7, InBlockPositive
<1> DEFINE S == Stops(k[1], k[2])
           A == S \cap Summed'
           C == S \cap Summed
           g == [r \in Rows |-> InBlock(q, r) * Cost[r]]
<1>3. IsFiniteSet(S) /\ S \subseteq Rows /\ A \subseteq S /\ C \subseteq S
  <2>1. IsFiniteSet(S)
    BY RowsFinite
  <2>2. S \subseteq Rows
    BY DEF Stops
  <2> QED
    BY <2>1, <2>2
<1>4. \A r \in S : Cost[r] \in Nat /\ g[r] \in Nat
  <2> SUFFICES ASSUME NEW r \in S PROVE Cost[r] \in Nat /\ g[r] \in Nat
    OBVIOUS
  <2>1. r \in Rows /\ InBlock(q, r) \in Nat /\ Cost[r] \in Nat
    BY <1>3, RowFields, InBlockPositive
  <2> QED
    BY <2>1
<1>5. \A r \in A \ C : Cost[r] <= g[r]
  <2> SUFFICES ASSUME NEW r \in A \ C PROVE Cost[r] <= g[r]
    OBVIOUS
  <2>1. r \in Rows /\ InBlock(q, r) \in Nat /\ InBlock(q, r) > 0 /\ Cost[r] \in Nat
    BY <1>2, <1>3, RowFields
  <2>2. \A n \in Nat, c \in Nat : n > 0 => c <= n * c
    OBVIOUS
  <2> QED
    BY <2>1, <2>2
<1>6. SumFunctionOnSet(Cost, A) <= SumFunctionOnSet(Cost, C) + SumFunctionOnSet(g, S)
  <2> HIDE DEF A, C, S, g
  <2> QED
    BY <1>3, <1>4, <1>5, SumCovered
<1> QED
  BY <1>6 DEF Owed, BlockRevenue

\* What is summed has landed, so a FINAL read returns at least what is owed.
LEMMA FinalCoversOwed ==
    ASSUME WarehouseInv, NEW d, NEW b
    PROVE  Owed(<<d, b>>) <= FinalRevenue(d, b)
<1>1. Summed \subseteq Landed
  <2> SUFFICES ASSUME NEW r \in Rows, NEW p \in Partitions,
                      NEW i \in 1 .. SummedTo(p), clean[p][i] = r
               PROVE  raw[r] > 0
    BY DEF Summed, Landed
  <2>1. /\ offset[p] \in Nat /\ upto[p] \in Nat
        /\ stage[p] # "idle" => offset[p] < upto[p]
    BY DEF WarehouseInv, QueueType, BlockBounds
  <2>2. i \in 1 .. LandedTo(p)
    BY <2>1 DEF LandedTo, SummedTo
  <2> QED
    BY <2>2 DEF WarehouseInv, PushedLanded
<1> DEFINE A == Stops(d, b) \cap Summed
           S == Stops(d, b) \cap Landed
<1>2. /\ A \subseteq S /\ IsFiniteSet(S)
      /\ \A r \in S : Cost[r] \in Nat
  BY <1>1, RowsFinite, RowFields, FS_Subset DEF Stops
<1>3. SumFunctionOnSet(Cost, A) <= SumFunctionOnSet(Cost, S)
  <2> HIDE DEF A, S
  <2> QED
    BY <1>2, SumMonotone
<1> QED
  BY <1>3 DEF Owed, FinalRevenue

----------------------------------------------------------------------------
(* The DAG *)

\* A step of the DAG outside the overwrite leaves the rollup and its accounts alone.
Elsewhere ==
    /\ ~Overwriting /\ ~Overwriting'
    /\ target' \in Days
    /\ UNCHANGED <<revenue, recomputed, hole, raced>>

\* Every step is one of these.
LEMMA StepKinds ==
    ASSUME WarehouseInv, [Next]_vars
    PROVE  \/ \E p \in Partitions : events_mv(p) \/ revenue_hourly_mv(p)
           \/ DeleteDay \/ SelectFinal \/ InsertDay \/ TaskFails
           \/ Elsewhere
           \/ UNCHANGED <<revenue, dagVars, history>> /\ Landed' = Landed
<1>0. target \in Days /\ raw \in [Rows -> Nat]
  BY DEF WarehouseInv, DagType, TableType
<1>1. CASE Trigger \/ freshness_check \/ optimize_closed_partition \/ dq_psi_gate \/ enforce_ttl
  <2>1. CASE Trigger
    BY <1>0, <2>1 DEF Trigger, Goto, Overwriting, Elsewhere, tableVars, history
  <2>2. CASE freshness_check
    BY <1>0, <2>2 DEF freshness_check, Goto, Overwriting, Elsewhere, tableVars, history
  <2>3. CASE optimize_closed_partition
    BY <1>0, <2>3 DEF optimize_closed_partition, Goto, Overwriting, Elsewhere, history
  <2>4. CASE dq_psi_gate
    BY <1>0, <2>4 DEF dq_psi_gate, Goto, Overwriting, Elsewhere, tableVars, history
  <2>5. CASE enforce_ttl
    BY <2>5, DaysReach DEF enforce_ttl, Goto, Overwriting, Elsewhere, tableVars, history
  <2> QED
    BY <1>1, <2>1, <2>2, <2>3, <2>4, <2>5
<1>2. CASE reconcile_bounds
  <2>1. target' \in Days
    <3>1. CASE Landed = {}
      BY <1>0, <1>2, <3>1 DEF reconcile_bounds
    <3>2. CASE Landed # {}
      <4> DEFINE F == [r \in Rows |-> r.day]
                 D == {r.day : r \in Landed}
      <4>1. Landed \subseteq Rows /\ IsFiniteSet(Landed)
        BY RowsFinite, FS_Subset DEF Landed
      <4>2. D = {F[r] : r \in Landed}
        BY <4>1
      <4>3. IsFiniteSet(D)
        <5> HIDE DEF F, D
        <5> QED
          BY <4>1, <4>2, ImageFinite
      <4>4. D \subseteq Nat /\ D # {}
        BY <3>2, <4>1, RowFields
      <4>5. Max(D) \in D
        <5> HIDE DEF D
        <5> QED
          BY <4>3, <4>4, MaxExists
      <4>6. PICK r \in Rows : Max(D) = r.day
        BY <4>1, <4>5
      <4>7. target' = Max(D) - 1
        BY <1>2, <3>2 DEF reconcile_bounds
      <4> QED
        BY <4>6, <4>7, DaysReach
    <3> QED
      BY <3>1, <3>2
  <2> QED
    BY <1>2, <2>1 DEF reconcile_bounds, Goto, Overwriting, Elsewhere, tableVars, history
<1>3. ASSUME NEW r \in Rows, Merge(r)
      PROVE  UNCHANGED <<revenue, dagVars, history>> /\ Landed' = Landed
  BY <1>0, <1>3 DEF Merge, Landed
<1>4. ASSUME NEW e \in Events, Produce(e)
      PROVE  UNCHANGED <<revenue, dagVars, history>> /\ Landed' = Landed
  BY <1>4 DEF Produce, Landed, tableVars
<1>5. ASSUME NEW p \in Partitions, Poll(p) \/ Commit(p) \/ PushFails(p)
      PROVE  UNCHANGED <<revenue, dagVars, history>> /\ Landed' = Landed
  BY <1>5 DEF Poll, Commit, PushFails, Landed, tableVars
<1>6. CASE CrashServer \/ UNCHANGED vars
  BY <1>6 DEF CrashServer, vars, Landed, tableVars
<1> QED
  BY <1>1, <1>2, <1>3, <1>4, <1>5, <1>6 DEF Next, Push, Dag

\* Types of the tables and of the DAG.
LEMMA TypesStep == WarehouseInv /\ [Next]_vars => TableType' /\ DagType'
<1> SUFFICES ASSUME WarehouseInv, [Next]_vars
             PROVE  TableType' /\ DagType'
  OBVIOUS
<1>0. QueueType /\ TableType /\ DagType
  BY DEF WarehouseInv
<1>r. raw' \in [Rows -> Nat]
  BY RowsStay
<1>k. ASSUME NEW k \in Keys
      PROVE  k[1] \in Days /\ k[2] \in {0, 1} /\ revenue[k] \in Nat
  BY <1>0 DEF Keys, TableType
<1>1. ASSUME NEW p \in Partitions, events_mv(p)
      PROVE  TableType' /\ DagType'
  BY <1>0, <1>r, <1>1 DEF events_mv, TableType, DagType, dagVars, Race
<1>2. ASSUME NEW p \in Partitions, revenue_hourly_mv(p)
      PROVE  TableType' /\ DagType'
  <2>1. \A k \in Keys : revenue[k] + BlockRevenue(p, k[1], k[2]) \in Nat
    <3> SUFFICES ASSUME NEW k \in Keys PROVE revenue[k] + BlockRevenue(p, k[1], k[2]) \in Nat
      OBVIOUS
    <3>1. \A d, b : BlockRevenue(p, d, b) \in Nat
      BY <1>0, RevenueNat
    <3>2. BlockRevenue(p, k[1], k[2]) \in Nat /\ revenue[k] \in Nat
      BY <1>k, <3>1
    <3> QED
      BY <3>2
  <2>2. revenue' \in [Keys -> Nat]
    BY <1>2, <2>1 DEF revenue_hourly_mv
  <2> QED
    BY <1>0, <1>r, <1>2, <2>2 DEF revenue_hourly_mv, TableType, DagType, dagVars, Race
<1>3. CASE DeleteDay
  <2>1. revenue' \in [Keys -> Nat]
    BY <1>k, <1>3 DEF DeleteDay
  <2> QED
    BY <1>0, <1>r, <1>3, <2>1 DEF DeleteDay, Goto, TableType, DagType
<1>4. CASE SelectFinal
  <2>1. recomputed' \in [{0, 1} -> Nat]
    BY <1>0, <1>4, RevenueNat DEF SelectFinal
  <2> QED
    BY <1>0, <1>r, <1>4, <2>1 DEF SelectFinal, Goto, TableType, DagType, tableVars, history
<1>5. CASE InsertDay
  <2>1. \A k \in Keys : revenue[k] + (IF k[1] = target THEN recomputed[k[2]] ELSE 0) \in Nat
    <3> TAKE k \in Keys
    <3>1. revenue[k] \in Nat /\ recomputed[k[2]] \in Nat
      BY <1>0, <1>k DEF DagType
    <3> QED
      BY <3>1
  <2>2. revenue' \in [Keys -> Nat]
    BY <1>5, <2>1 DEF InsertDay
  <2> QED
    BY <1>0, <1>r, <1>5, <2>2 DEF InsertDay, Goto, TableType, DagType, Nothing
<1>6. CASE TaskFails
  BY <1>0, <1>r, <1>6, DaysReach DEF TaskFails, TableType, DagType, Nothing, tableVars
<1>7. CASE Elsewhere
  <2>1. task' \in {"none", "freshness", "optimize", "bounds", "delete", "read", "insert",
                   "gate", "ttl"}
    BY <1>0 DEF Next, Push, Dag, Merge, Produce, Poll, events_mv, revenue_hourly_mv, Commit,
           PushFails, CrashServer, Trigger, freshness_check, optimize_closed_partition,
           reconcile_bounds, DeleteDay, SelectFinal, InsertDay, dq_psi_gate, enforce_ttl,
           TaskFails, Goto, vars, dagVars, DagType
  <2> QED
    BY <1>0, <1>r, <1>7, <2>1 DEF Elsewhere, TableType, DagType
<1>8. CASE UNCHANGED <<revenue, dagVars, history>>
  BY <1>0, <1>r, <1>8 DEF TableType, DagType, dagVars, history
<1> QED
  BY <1>1, <1>2, <1>3, <1>4, <1>5, <1>6, <1>7, <1>8, StepKinds

\* A key is a day and a peak flag.
LEMMA KeyParts ==
    ASSUME NEW k \in Keys
    PROVE  k[1] \in Days /\ k[2] \in {0, 1} /\ k = <<k[1], k[2]>>
BY DEF Keys

\* The rollup stays covered: a push adds what it owes, and the recompute puts back at
\* least what it deleted.
LEMMA CoveredStep == WarehouseInv /\ [Next]_vars => Covered'
<1> SUFFICES ASSUME WarehouseInv, [Next]_vars, NEW k \in Keys
             PROVE  \/ Owed(k)' <= revenue'[k]
                    \/ k[1] = target' /\ Overwriting'
                    \/ k[1] \in hole'
  BY DEF Covered
<1>0. /\ QueueType /\ BlockBounds /\ TableType /\ DagType /\ Covered /\ Refilled
      /\ Owed(k) \in Nat /\ Owed(k)' \in Nat /\ revenue[k] \in Nat
  <2>1. Owed(k) \in Nat
    BY CostNat DEF Owed
  <2>2. Owed(k)' \in Nat
    BY CostNat DEF Owed
  <2> QED
    BY <2>1, <2>2 DEF WarehouseInv, TableType
<1>1. ASSUME NEW p \in Partitions, revenue_hourly_mv(p)
      PROVE  \/ Owed(k)' <= revenue'[k]
             \/ k[1] = target' /\ Overwriting'
             \/ k[1] \in hole'
  <2>1. Owed(k)' <= Owed(k) + BlockRevenue(p, k[1], k[2])
    BY <1>0, <1>1, OwedRises
  <2>2. revenue'[k] = revenue[k] + BlockRevenue(p, k[1], k[2])
    BY <1>1 DEF revenue_hourly_mv
  <2>3. BlockRevenue(p, k[1], k[2]) \in Nat
    BY <1>0, RevenueNat
  <2>4. Owed(k) <= revenue[k] => Owed(k)' <= revenue'[k]
    BY <1>0, <2>1, <2>2, <2>3
  <2>5. UNCHANGED <<task, target, hole>>
    BY <1>1 DEF revenue_hourly_mv, dagVars
  <2> QED
    BY <1>0, <2>4, <2>5 DEF Covered, Overwriting
<1>2. CASE \A p \in Partitions : ~revenue_hourly_mv(p)
  <2>0. Owed(k)' <= Owed(k)
    BY <1>2, OwedFalls
  <2>1. ASSUME UNCHANGED <<task, target, hole, revenue>>
        PROVE  \/ Owed(k)' <= revenue'[k]
               \/ k[1] = target' /\ Overwriting'
               \/ k[1] \in hole'
    BY <1>0, <2>0, <2>1 DEF Covered, Overwriting
  <2>2. ASSUME NEW p \in Partitions, events_mv(p)
        PROVE  UNCHANGED <<task, target, hole, revenue>>
    BY <2>2 DEF events_mv, dagVars
  <2>3. CASE DeleteDay
    <3>1. /\ task = "delete" /\ task' = "read" /\ target' = target /\ hole' = hole
          /\ k[1] # target => revenue'[k] = revenue[k]
      BY <2>3 DEF DeleteDay, Goto
    <3> QED
      BY <1>0, <2>0, <3>1 DEF Covered, Overwriting
  <2>4. CASE SelectFinal
    BY <1>0, <2>0, <2>4 DEF SelectFinal, Goto, Covered, Overwriting, tableVars, history
  <2>5. CASE InsertDay
    <3>1. CASE k[1] = target
      <4>1. k[2] \in {0, 1} /\ k = <<target, k[2]>> /\ task = "insert"
        BY <2>5, <3>1, KeyParts DEF InsertDay, Goto
      <4>2. Owed(<<target, k[2]>>) <= revenue[<<target, k[2]>>] + recomputed[k[2]]
        BY <1>0, <4>1 DEF Refilled
      <4>3. Owed(k) <= revenue[k] + recomputed[k[2]] /\ recomputed[k[2]] \in Nat
        BY <1>0, <4>1, <4>2 DEF DagType
      <4>4. revenue'[k] = revenue[k] + recomputed[k[2]]
        BY <2>5, <3>1 DEF InsertDay
      <4> QED
        BY <1>0, <2>0, <4>3, <4>4
    <3>2. CASE k[1] # target
      <4>1. /\ revenue'[k] = revenue[k] + 0 /\ hole' = hole \ {target}
        BY <2>5, <3>2 DEF InsertDay
      <4> QED
        BY <1>0, <2>0, <3>2, <4>1 DEF Covered
    <3> QED
      BY <3>1, <3>2
  <2>6. CASE TaskFails
    <3>1. /\ revenue' = revenue
          /\ hole' = IF Overwriting THEN hole \cup {target} ELSE hole
      BY <2>6 DEF TaskFails, tableVars
    <3> QED
      BY <1>0, <2>0, <3>1 DEF Covered
  <2>7. CASE Elsewhere
    BY <1>0, <2>0, <2>7 DEF Elsewhere, Covered
  <2>8. CASE UNCHANGED <<revenue, dagVars, history>>
    BY <2>1, <2>8 DEF dagVars, history
  <2> QED
    BY <1>2, <2>1, <2>2, <2>3, <2>4, <2>5, <2>6, <2>7, <2>8, StepKinds
<1> QED
  BY <1>1, <1>2

\* What is owed to the target day stays covered between the SELECT and the INSERT.
LEMMA RefilledStep == WarehouseInv /\ [Next]_vars => Refilled'
<1> SUFFICES ASSUME WarehouseInv, [Next]_vars, task' = "insert", NEW b \in {0, 1}
             PROVE  (Owed(<<target, b>>) <= revenue[<<target, b>>] + recomputed[b])'
  BY DEF Refilled
<1>0. QueueType /\ BlockBounds /\ TableType /\ DagType /\ Refilled
  BY DEF WarehouseInv
<1>1. PICK d \in Days : d = target
  BY <1>0 DEF DagType
<1> DEFINE k == <<d, b>>
<1>2. k \in Keys /\ k[1] = d /\ k[2] = b
  BY DEF Keys
<1>3. Owed(k) \in Nat /\ Owed(k)' \in Nat /\ revenue[k] \in Nat /\ recomputed[b] \in Nat
  <2>1. Owed(k) \in Nat
    BY CostNat DEF Owed
  <2>2. Owed(k)' \in Nat
    BY CostNat DEF Owed
  <2> HIDE DEF k
  <2> QED
    BY <1>0, <1>2, <2>1, <2>2 DEF TableType, DagType
<1>4. task = "insert" => Owed(k) <= revenue[k] + recomputed[b]
  BY <1>0, <1>1 DEF Refilled
<1> SUFFICES target' = d /\ Owed(k)' <= revenue'[k] + recomputed'[b]
  OBVIOUS
<1> HIDE DEF k
<1>5. ASSUME NEW p \in Partitions, revenue_hourly_mv(p)
      PROVE  target' = d /\ Owed(k)' <= revenue'[k] + recomputed'[b]
  <2>1. Owed(k)' <= Owed(k) + BlockRevenue(p, k[1], k[2])
    BY <1>0, <1>5, OwedRises
  <2>2. revenue'[k] = revenue[k] + BlockRevenue(p, k[1], k[2])
    BY <1>2, <1>5 DEF revenue_hourly_mv
  <2>3. BlockRevenue(p, k[1], k[2]) \in Nat
    BY <1>0, RevenueNat
  <2>4. UNCHANGED <<task, target, recomputed>>
    BY <1>5 DEF revenue_hourly_mv, dagVars
  <2>5. Owed(k) <= revenue[k] + recomputed[b]
    BY <1>4, <2>4
  <2> QED
    BY <1>1, <1>3, <2>1, <2>2, <2>3, <2>4, <2>5
<1>6. CASE \A p \in Partitions : ~revenue_hourly_mv(p)
  <2>0. Owed(k)' <= Owed(k)
    BY <1>6, OwedFalls
  <2>1. ASSUME UNCHANGED <<task, target, recomputed, revenue>>
        PROVE  target' = d /\ Owed(k)' <= revenue'[k] + recomputed'[b]
    BY <1>1, <1>3, <1>4, <2>0, <2>1
  <2>2. ASSUME NEW p \in Partitions, events_mv(p)
        PROVE  UNCHANGED <<task, target, recomputed, revenue>>
    BY <2>2 DEF events_mv, dagVars
  <2>3. CASE SelectFinal
    <3>1. target' = target /\ revenue' = revenue /\ recomputed'[b] = FinalRevenue(d, b)
      BY <1>1, <2>3 DEF SelectFinal, tableVars
    <3>2. Owed(k) <= FinalRevenue(d, b) /\ FinalRevenue(d, b) \in Nat
      BY <1>0, FinalCoversOwed, RevenueNat DEF k
    <3> QED
      BY <1>1, <1>3, <2>0, <3>1, <3>2
  <2>4. CASE DeleteDay \/ InsertDay \/ TaskFails \/ Elsewhere
    BY <2>4 DEF DeleteDay, InsertDay, TaskFails, Elsewhere, Goto, Overwriting
  <2>5. CASE UNCHANGED <<revenue, dagVars, history>>
    BY <2>1, <2>5 DEF dagVars, history
  <2> QED
    BY <1>6, <2>1, <2>2, <2>3, <2>4, <2>5, StepKinds
<1> QED
  BY <1>5, <1>6

\* A block without stops of a day adds neither revenue nor rows to it.
LEMMA UntouchedDay ==
    ASSUME QueueType, NEW p \in Partitions, NEW d, ~Touches(p, d), NEW b \in {0, 1}
    PROVE  /\ \A r \in Stops(d, b) : InBlock(p, r) = 0
           /\ BlockRevenue(p, d, b) = 0
<1> DEFINE g == [r \in Rows |-> InBlock(p, r) * Cost[r]]
           S == Stops(d, b)
<1>1. \A r \in S : r \in Rows /\ InBlock(p, r) = 0
  <2> SUFFICES ASSUME NEW r \in S PROVE r \in Rows /\ InBlock(p, r) = 0
    OBVIOUS
  <2>1. r \in Rows
    BY DEF Stops
  <2>2. InBlock(p, r) \in Nat /\ ~(InBlock(p, r) > 0)
    BY InBlockPositive DEF Touches
  <2> QED
    BY <2>1, <2>2
<1>2. \A r \in S : g[r] = 0
  <2> SUFFICES ASSUME NEW r \in S PROVE g[r] = 0
    OBVIOUS
  <2>1. r \in Rows /\ InBlock(p, r) = 0 /\ Cost[r] \in Nat
    BY <1>1, RowFields
  <2> QED
    BY <2>1
<1>3. IsFiniteSet(S)
  BY RowsFinite
<1>4. SumFunctionOnSet(g, S) = 0
  <2> HIDE DEF g, S
  <2> QED
    BY <1>2, <1>3, SumZero
<1> QED
  BY <1>1, <1>4 DEF BlockRevenue

\* An overwrite that no row of the day interrupts stays undisturbed.
LEMMA UndisturbedStep == WarehouseInv /\ [Next]_vars => Undisturbed'
<1> SUFFICES ASSUME WarehouseInv, [Next]_vars, ~raced', NEW b \in {0, 1}
             PROVE  /\ Overwriting' => (revenue[<<target, b>>] = 0)'
                    /\ task' = "insert" => (recomputed[b] = FinalRevenue(target, b))'
  BY DEF Undisturbed
<1>0. QueueType /\ TableType /\ DagType /\ Undisturbed
  BY DEF WarehouseInv
<1>1. PICK d \in Days : d = target
  BY <1>0 DEF DagType
<1> DEFINE k == <<d, b>>
           Goal == /\ Overwriting' => target' = d /\ revenue'[k] = 0
                   /\ task' = "insert" => recomputed'[b] = FinalRevenue(d, b)'
<1>2. k \in Keys /\ k[1] = d /\ k[2] = b
  BY DEF Keys
<1>3. ~raced => /\ Overwriting => revenue[k] = 0
                /\ task = "insert" => recomputed[b] = FinalRevenue(d, b)
  BY <1>0, <1>1 DEF Undisturbed
<1> SUFFICES Goal
  <2>1. task' = "insert" => Overwriting'
    BY DEF Overwriting
  <2> QED
    BY <2>1 DEF FinalRevenue
<1> HIDE DEF k
<1>4. ASSUME NEW p \in Partitions, events_mv(p)
      PROVE  Goal
  <2>1. UNCHANGED <<task, target, recomputed, revenue>> /\ Race(p)
    BY <1>4 DEF events_mv, dagVars
  <2>2. CASE Overwriting
    <3>1. ~raced /\ ~Touches(p, d)
      BY <1>1, <2>1, <2>2 DEF Race
    <3>2. Stops(d, b) \cap Landed' = Stops(d, b) \cap Landed
      <4>1. \A r \in Stops(d, b) : r \in Rows /\ raw'[r] = raw[r] + 0
        BY <1>0, <1>4, <3>1, UntouchedDay DEF events_mv, Stops
      <4>2. \A r \in Stops(d, b) : raw[r] \in Nat
        BY <1>0, <4>1 DEF TableType
      <4>3. \A r \in Stops(d, b) : r \in Landed' <=> r \in Landed
        BY <4>1, <4>2 DEF Landed
      <4> QED
        BY <4>3
    <3>3. FinalRevenue(d, b)' = FinalRevenue(d, b)
      BY <3>2 DEF FinalRevenue
    <3> QED
      BY <1>1, <1>3, <2>1, <2>2, <3>1, <3>3
  <2>3. CASE ~Overwriting
    BY <2>1, <2>3 DEF Overwriting
  <2> QED
    BY <2>2, <2>3
<1>5. ASSUME NEW p \in Partitions, revenue_hourly_mv(p)
      PROVE  Goal
  <2>1. UNCHANGED <<task, target, recomputed, raw>> /\ Race(p)
    BY <1>5 DEF revenue_hourly_mv, dagVars
  <2>2. CASE Overwriting
    <3>1. ~raced /\ ~Touches(p, d)
      BY <1>1, <2>1, <2>2 DEF Race
    <3>2. revenue'[k] = revenue[k] + BlockRevenue(p, d, b)
      BY <1>2, <1>5 DEF revenue_hourly_mv
    <3>3. BlockRevenue(p, d, b) = 0 /\ revenue[k] = 0
      BY <1>0, <1>3, <2>2, <3>1, UntouchedDay
    <3>4. FinalRevenue(d, b)' = FinalRevenue(d, b)
      BY <2>1 DEF FinalRevenue, Landed
    <3> QED
      BY <1>1, <1>3, <2>1, <3>1, <3>2, <3>3, <3>4
  <2>3. CASE ~Overwriting
    BY <2>1, <2>3 DEF Overwriting
  <2> QED
    BY <2>2, <2>3
<1>6. CASE DeleteDay
  <2>1. task' = "read" /\ target' = target
    BY <1>6 DEF DeleteDay, Goto
  <2>2. revenue'[k] = 0
    BY <1>1, <1>2, <1>6 DEF DeleteDay
  <2> QED
    BY <1>1, <2>1, <2>2
<1>7. CASE SelectFinal
  <2>1. /\ task = "read" /\ target' = target /\ UNCHANGED <<raw, revenue, raced>>
        /\ recomputed'[b] = FinalRevenue(d, b)
    BY <1>1, <1>7 DEF SelectFinal, Goto, tableVars, history
  <2>2. FinalRevenue(d, b)' = FinalRevenue(d, b)
    BY <2>1 DEF FinalRevenue, Landed
  <2> QED
    BY <1>1, <1>3, <2>1, <2>2 DEF Overwriting
<1>8. CASE InsertDay \/ TaskFails \/ Elsewhere
  <2>1. ~Overwriting'
    BY <1>8 DEF InsertDay, TaskFails, Elsewhere, Goto, Overwriting
  <2> QED
    BY <2>1 DEF Overwriting
<1>9. CASE UNCHANGED <<revenue, dagVars, history>> /\ Landed' = Landed
  BY <1>1, <1>3, <1>9 DEF dagVars, history, Overwriting, FinalRevenue
<1> QED
  BY <1>4, <1>5, <1>6, <1>7, <1>8, <1>9, StepKinds

----------------------------------------------------------------------------
(* The theorems *)

\* Before the first event everything is empty, and nothing is owed.
LEMMA InitWarehouseInv == Init => WarehouseInv
<1> SUFFICES ASSUME Init PROVE WarehouseInv
  OBVIOUS
<1>1. QueueType
  BY DEF Init, QueueType, Stages
<1>2. BlockBounds /\ PushedLanded
  BY DEF Init, BlockBounds, PushedLanded, LandedTo
<1>3. TableType /\ DagType
  BY DaysReach DEF Init, TableType, DagType, Nothing
<1>4. Covered
  <2>1. Summed = {}
    BY DEF Init, Summed, SummedTo
  <2>2. \A k : Owed(k) = 0
    BY <2>1, SumZero, FS_EmptySet DEF Owed
  <2> QED
    BY <2>2 DEF Covered, Init
<1>5. Refilled /\ Undisturbed
  BY DEF Init, Refilled, Undisturbed, Overwriting
<1> QED
  BY <1>1, <1>2, <1>3, <1>4, <1>5 DEF WarehouseInv

\* In every behaviour of the warehouse the inductive invariant holds.
THEOREM WarehouseInvariant == Spec => []WarehouseInv
<1>1. WarehouseInv /\ [Next]_vars => WarehouseInv'
  BY QueueStep, TypesStep, PushedStep, CoveredStep, RefilledStep, UndisturbedStep
     DEF WarehouseInv
<1> QED
  BY <1>1, InitWarehouseInv, PTL DEF Spec

\* Types: a block in flight always lies within the topic after the offset, and every
\* amount in the tables is a natural number.
THEOREM WarehouseTypeCorrect == Spec => []TypeOK
<1>1. WarehouseInv => TypeOK
  BY DEF WarehouseInv, QueueType, BlockBounds, TableType, DagType, Stages, TypeOK
<1> QED
  BY <1>1, WarehouseInvariant, PTL

\* Committed rows are among the summed ones.
LEMMA CommittedSummed ==
    ASSUME WarehouseInv
    PROVE  Committed \subseteq Summed
<1> SUFFICES ASSUME NEW r \in Committed PROVE r \in Summed
  OBVIOUS
<1> DEFINE p == PartitionOf[r.id]
<1>1. r \in Rows /\ p \in Partitions /\ Count(p, r, 1, offset[p]) > 0
  BY RowFields DEF Committed
<1> HIDE DEF p
<1>2. /\ offset[p] \in Nat /\ upto[p] \in Nat
      /\ stage[p] # "idle" => offset[p] < upto[p]
  BY <1>1 DEF WarehouseInv, QueueType, BlockBounds
<1>3. 1 \in Int /\ offset[p] \in Int
  BY <1>2
<1>4. PICK i \in 1 .. offset[p] : clean[p][i] = r
  BY <1>1, <1>3, CountPositive
<1>5. i \in 1 .. SummedTo(p)
  BY <1>2 DEF SummedTo
<1> QED
  BY <1>1, <1>4, <1>5 DEF Summed

\* A row whose offset the Kafka engine committed is in events_raw for good: crashes,
\* failed pushes, merges and the OPTIMIZE of the daily job do not lose it.
THEOREM CommittedNeverLost == Spec => []CommittedRowsLanded
<1>1. WarehouseInv => CommittedRowsLanded
  <2> SUFFICES ASSUME WarehouseInv, NEW r \in Committed PROVE r \in Landed
    BY DEF CommittedRowsLanded
  <2>1. r \in Rows /\ \E p \in Partitions : \E i \in 1 .. SummedTo(p) : clean[p][i] = r
    BY CommittedSummed DEF Summed
  <2>2. PICK p \in Partitions : \E i \in 1 .. SummedTo(p) : clean[p][i] = r
    BY <2>1
  <2>3. PICK i \in 1 .. SummedTo(p) : clean[p][i] = r
    BY <2>2
  <2>4. /\ offset[p] \in Nat /\ upto[p] \in Nat
        /\ stage[p] # "idle" => offset[p] < upto[p]
    BY DEF WarehouseInv, QueueType, BlockBounds
  <2>5. i \in 1 .. LandedTo(p)
    BY <2>4 DEF LandedTo, SummedTo
  <2> QED
    BY <2>1, <2>3, <2>5 DEF WarehouseInv, PushedLanded, Landed
<1> QED
  BY <1>1, WarehouseInvariant, PTL

\* The rollup of the dashboard never understates what is committed, whatever the two
\* views, retries and the overwrite of the day do in which order, except during an
\* overwrite of the day and after a run that died in one.
THEOREM RollupCovers == Spec => []RollupNeverUnderstates
<1>1. WarehouseInv => RollupNeverUnderstates
  <2> SUFFICES ASSUME WarehouseInv, NEW k \in Keys
               PROVE  \/ revenue[k] >= SumFunctionOnSet(Cost, Stops(k[1], k[2]) \cap Committed)
                      \/ k[1] = target /\ Overwriting
                      \/ k[1] \in hole
    BY DEF RollupNeverUnderstates
  <2> DEFINE A == Stops(k[1], k[2]) \cap Committed
             S == Stops(k[1], k[2]) \cap Summed
  <2>1. /\ A \subseteq S /\ IsFiniteSet(S)
        /\ \A r \in S : Cost[r] \in Nat
    BY CommittedSummed, RowsFinite, RowFields, FS_Subset DEF Stops
  <2>2. SumFunctionOnSet(Cost, A) <= SumFunctionOnSet(Cost, S)
    <3> HIDE DEF A, S
    <3> QED
      BY <2>1, SumMonotone
  <2>3. SumFunctionOnSet(Cost, A) \in Nat /\ SumFunctionOnSet(Cost, S) \in Nat
    BY CostNat
  <2>4. revenue[k] \in Nat
    BY DEF WarehouseInv, TableType
  <2> HIDE DEF A
  <2>5. Owed(k) <= revenue[k] => revenue[k] >= SumFunctionOnSet(Cost, A)
    BY <2>2, <2>3, <2>4 DEF Owed
  <2> QED
    BY <2>5 DEF WarehouseInv, Covered, A
<1> QED
  BY <1>1, WarehouseInvariant, PTL

\* A recompute that no row of its day interrupts leaves the day exact: whatever the
\* streaming view counted twice before is gone when the INSERT is done.
THEOREM RecomputeRepairs == Spec => ReconcileRepairs
<1>1. WarehouseInv /\ InsertDay /\ ~raced =>
        \A b \in {0, 1} : revenue'[<<target, b>>] = FinalRevenue(target, b)
  <2> SUFFICES ASSUME WarehouseInv, InsertDay, ~raced, NEW b \in {0, 1}
               PROVE  revenue'[<<target, b>>] = FinalRevenue(target, b)
    OBVIOUS
  <2>1. task = "insert" /\ target \in Days /\ recomputed[b] \in Nat
    BY DEF InsertDay, Goto, WarehouseInv, DagType
  <2>2. revenue[<<target, b>>] = 0 /\ recomputed[b] = FinalRevenue(target, b)
    BY <2>1 DEF WarehouseInv, Undisturbed, Overwriting
  <2>3. revenue'[<<target, b>>] = revenue[<<target, b>>] + recomputed[b]
    BY <2>1 DEF InsertDay, Keys
  <2> QED
    BY <2>1, <2>2, <2>3
<1>2. WarehouseInv =>
        [(InsertDay /\ ~raced) =>
           \A b \in {0, 1} : revenue'[<<target, b>>] = FinalRevenue(target, b)]_vars
  BY <1>1
<1> QED
  BY <1>2, WarehouseInvariant, PTL DEF ReconcileRepairs
=============================================================================
