--------------------------- MODULE ConsumerGroup ---------------------------
(***************************************************************************)
(* The consumer-group half of processor/consumer.go that both batch groups *)
(* share: readers joining and leaving the group, fillBatch's accumulation, *)
(* explicit commits, shutdown, crash and restart.                          *)
(*                                                                         *)
(* The raw topic is a log per partition that never changes in a behaviour: *)
(* a record not produced yet cannot be told from one not fetched yet.      *)
(*                                                                         *)
(* The broker's coordinator and the kafka-go reader are outside the        *)
(* repository.  They are modelled from how consumer.go relies on them:     *)
(*   - a rebalance hands every partition to some member, from the last     *)
(*     committed offset, and does not wait for a batch a worker has in     *)
(*     hand (kafka-go rejoins in the background);                          *)
(*   - a commit is made under the reader's current generation, stores the  *)
(*     highest offset of the batch per partition, and overwrites whatever  *)
(*     was committed before;                                               *)
(*   - a reader whose session the broker expired goes on fetching until    *)
(*     its next heartbeat fails.                                           *)
(***************************************************************************)
EXTENDS Integers, Sequences, FiniteSets

CONSTANTS
    Workers,      \* reader goroutines of the group (spec.workers)
    Partitions,   \* partitions of the raw topic
    Events,       \* payloads; a byte-identical resend is the same event
    Logs,         \* the raw topics to consider, each [Partitions -> Seq(Events)]
    BatchSize,    \* analytics.batch_size / realtime.batch_max_messages
    MaxFaults     \* bound on the faults and restarts of one behaviour

ASSUME LogsAssumption == Logs \subseteq [Partitions -> Seq(Events)]

\* A payload has one station id, which is the key the producer's hash balancer
\* partitions by: the same event is never in two partitions.
ASSUME KeyedAssumption ==
    \A log \in Logs : \A p, q \in Partitions : \A i \in 1 .. Len(log[p]) :
        \A j \in 1 .. Len(log[q]) : log[p][i] = log[q][j] => p = q

ASSUME BoundsAssumption == BatchSize \in Nat \ {0} /\ MaxFaults \in Nat

VARIABLES
    raw,        \* the raw topic
    committed,  \* committed[p]: how many records of p the group has committed
    session,    \* session[w]: the worker's standing with the coordinator
    assigned,   \* assigned[w]: the partitions w's reader fetches from
    pos,        \* pos[w][p]: how many records of p w's reader has fetched
    rejoin,     \* membership changed since the last assignment
    pc,         \* pc[w]: where the worker's loop stands
    batch,      \* batch[w]: the messages in hand, in fetch order
    stopping,   \* the process context is cancelled (SIGTERM)
    spent,      \* faults and restarts so far
    calm        \* history: no fault, and no rebalance over a batch in hand

groupVars == <<raw, committed, session, assigned, pos, rejoin, pc, batch,
               stopping, spent, calm>>

Message == [part : Partitions, off : Nat \ {0}]

\* The payload of a fetched message.
Value(m) == raw[m.part][m.off]

InBatch(w, p, o) == \E i \in 1 .. Len(batch[w]) : batch[w][i] = [part |-> p, off |-> o]

----------------------------------------------------------------------------

GroupTypeOK(stages) ==
    /\ raw \in Logs
    /\ committed \in [Partitions -> Nat]
    /\ session \in [Workers -> {"out", "joining", "in", "lost"}]
    /\ assigned \in [Workers -> SUBSET Partitions]
    /\ pos \in [Workers -> [Partitions -> Nat]]
    /\ rejoin \in BOOLEAN
    /\ pc \in [Workers -> stages]
    /\ batch \in [Workers -> Seq(Message)]
    /\ stopping \in BOOLEAN
    /\ spent \in 0 .. MaxFaults
    /\ calm \in BOOLEAN
    /\ \A p \in Partitions : committed[p] <= Len(raw[p])

GroupInit ==
    /\ raw \in Logs
    /\ committed = [p \in Partitions |-> 0]
    /\ session = [w \in Workers |-> "out"]
    /\ assigned = [w \in Workers |-> {}]
    /\ pos = [w \in Workers |-> [p \in Partitions |-> 0]]
    /\ rejoin = FALSE
    /\ pc = [w \in Workers |-> "closed"]
    /\ batch = [w \in Workers |-> <<>>]
    /\ stopping = FALSE
    /\ spent = 0
    /\ calm = TRUE

----------------------------------------------------------------------------
(* Bookkeeping of the environment's faults. *)

Fault == spent < MaxFaults /\ spent' = spent + 1 /\ calm' = FALSE

NoFault == UNCHANGED <<spent, calm>>

----------------------------------------------------------------------------
(* The coordinator and the reader (external). *)

\* Mutated: readers resume from the first record, not from the last commit.
RebalanceFromFirst ==
    LET members == {w \in Workers : session[w] \in {"joining", "in"}} IN
    /\ rejoin
    /\ \E share \in [Partitions -> members] :
         assigned' = [w \in Workers |->
                        IF w \in members THEN {p \in Partitions : share[p] = w}
                                         ELSE assigned[w]]
    /\ session' = [w \in Workers |-> IF w \in members THEN "in" ELSE session[w]]
    /\ pos' = [w \in Workers |->
                 IF w \in members THEN [p \in Partitions |-> 0] ELSE pos[w]]
    /\ rejoin' = FALSE
    /\ calm' = (calm /\ \A w \in Workers : batch[w] = <<>>)
    /\ UNCHANGED <<raw, committed, pc, batch, stopping, spent>>

\* Every member gets its share of the partitions and starts each from the
\* last commit, or from the first record if there is none.
Rebalance ==
    LET members == {w \in Workers : session[w] \in {"joining", "in"}} IN
    /\ rejoin
    /\ \E share \in [Partitions -> members] :
         assigned' = [w \in Workers |->
                        IF w \in members THEN {p \in Partitions : share[p] = w}
                                         ELSE assigned[w]]
    /\ session' = [w \in Workers |-> IF w \in members THEN "in" ELSE session[w]]
    /\ pos' = [w \in Workers |-> IF w \in members THEN committed ELSE pos[w]]
    /\ rejoin' = FALSE
    /\ calm' = (calm /\ \A w \in Workers : batch[w] = <<>>)
    /\ UNCHANGED <<raw, committed, pc, batch, stopping, spent>>

\* The coordinator drops a member (missed heartbeats, coordinator moved); its
\* reader does not know yet.
SessionLost(w) ==
    /\ session[w] = "in"
    /\ session' = [session EXCEPT ![w] = "lost"]
    /\ rejoin' = TRUE
    /\ Fault
    /\ UNCHANGED <<raw, committed, assigned, pos, pc, batch, stopping>>

\* The reader's next heartbeat is refused: its generation ends and it rejoins.
HeartbeatRefused(w) ==
    /\ session[w] = "lost"
    /\ session' = [session EXCEPT ![w] = "joining"]
    /\ assigned' = [assigned EXCEPT ![w] = {}]
    /\ rejoin' = TRUE
    /\ UNCHANGED <<raw, committed, pos, pc, batch, stopping>>
    /\ NoFault

\* r.Close(): the reader leaves the group.
Close(w) ==
    /\ session' = [session EXCEPT ![w] = "out"]
    /\ assigned' = [assigned EXCEPT ![w] = {}]
    /\ rejoin' = (rejoin \/ session[w] # "lost")

\* The offsets batch b holds of partition p.
Offsets(b, p) == {b[i].off : i \in {j \in 1 .. Len(b) : b[j].part = p}}

\* Mutated: the offset after the next one is stored.
StoreOffsetsPlusOne(b) ==
    committed' = [p \in Partitions |->
                    IF Offsets(b, p) = {} THEN committed[p]
                    ELSE 1 + CHOOSE o \in Offsets(b, p) :
                               \A q \in Offsets(b, p) : q <= o]

\* What a successful commit of batch b stores: per partition the highest
\* offset of the batch, whatever was stored before.
StoreOffsets(b) ==
    /\ committed' \in [Partitions -> {committed[p] : p \in Partitions}
                                       \cup {b[i].off : i \in 1 .. Len(b)}]
    /\ \A p \in Partitions :
         IF Offsets(b, p) = {}
         THEN committed'[p] = committed[p]
         ELSE /\ committed'[p] \in Offsets(b, p)
              /\ \A o \in Offsets(b, p) : o <= committed'[p]

----------------------------------------------------------------------------
(* The worker's loop up to the flush, and its end. *)

newReader(w) ==
    /\ pc[w] = "closed"
    /\ pc' = [pc EXCEPT ![w] = "fill"]
    /\ session' = [session EXCEPT ![w] = "joining"]
    /\ rejoin' = TRUE
    /\ UNCHANGED <<raw, committed, assigned, pos, batch, stopping>>
    /\ NoFault

\* One r.FetchMessage inside fillBatch: the next record of an assigned
\* partition.  A cancelled context does not rule it out: FetchMessage selects
\* between the cancel and a message that is ready.
FetchMessage(w, p) ==
    /\ pc[w] = "fill"
    /\ p \in assigned[w]
    /\ Len(batch[w]) < BatchSize
    /\ pos[w][p] < Len(raw[p])
    /\ batch' = [batch EXCEPT ![w] =
                   Append(@, [part |-> p, off |-> pos[w][p] + 1])]
    /\ pos' = [pos EXCEPT ![w][p] = @ + 1]
    /\ UNCHANGED <<raw, committed, session, assigned, rejoin, pc, stopping>>
    /\ NoFault

\* fillBatch returns a batch: it is full, its window has elapsed, or the
\* context was cancelled during the fill.
fillBatchReturns(w, stage) ==
    /\ pc[w] = "fill"
    /\ batch[w] # <<>>
    /\ pc' = [pc EXCEPT ![w] = stage]
    /\ UNCHANGED <<raw, committed, session, assigned, pos, rejoin, batch, stopping>>
    /\ NoFault

\* fillBatch finds the context cancelled before a first message; the worker
\* returns and its deferred r.Close() runs.
WorkerExits(w) ==
    /\ pc[w] = "fill"
    /\ batch[w] = <<>>
    /\ stopping
    /\ pc' = [pc EXCEPT ![w] = "stopped"]
    /\ Close(w)
    /\ UNCHANGED <<raw, committed, pos, batch, stopping>>
    /\ NoFault

\* The flush failed: r.Close(), and the loop goes on with a new reader so that
\* the uncommitted batch is delivered again.
CloseReader(w) ==
    /\ pc' = [pc EXCEPT ![w] = "closed"]
    /\ batch' = [batch EXCEPT ![w] = <<>>]
    /\ Close(w)
    /\ UNCHANGED <<raw, committed, pos, stopping>>

\* Mutated: the commit runs under the process context, which shutdown cancels.
CommitUnderProcessContext(w) ==
    /\ pc[w] = "commit"
    /\ session[w] = "in"
    /\ IF stopping THEN UNCHANGED committed ELSE StoreOffsets(batch[w])
    /\ pc' = [pc EXCEPT ![w] = "fill"]
    /\ batch' = [batch EXCEPT ![w] = <<>>]
    /\ UNCHANGED <<raw, session, assigned, pos, rejoin, stopping>>
    /\ NoFault

\* r.CommitMessages succeeds; the batch buffer is reused by the next fill.
CommitMessages(w) ==
    /\ pc[w] = "commit"
    /\ session[w] = "in"
    /\ StoreOffsets(batch[w])
    /\ pc' = [pc EXCEPT ![w] = "fill"]
    /\ batch' = [batch EXCEPT ![w] = <<>>]
    /\ UNCHANGED <<raw, session, assigned, pos, rejoin, stopping>>
    /\ NoFault

\* r.CommitMessages fails: logged, and the loop goes on with the next batch.
CommitFails(w) ==
    /\ pc[w] = "commit"
    /\ pc' = [pc EXCEPT ![w] = "fill"]
    /\ batch' = [batch EXCEPT ![w] = <<>>]
    /\ UNCHANGED <<raw, committed, session, assigned, pos, rejoin, stopping>>
    /\ Fault

----------------------------------------------------------------------------
(* The process. *)

\* SIGINT or SIGTERM cancels the context all workers fetch under.
Shutdown ==
    /\ ~stopping
    /\ stopping' = TRUE
    /\ UNCHANGED <<raw, committed, session, assigned, pos, rejoin, pc, batch>>
    /\ NoFault

AllStopped == \A w \in Workers : pc[w] = "stopped"

\* A process that begins with no reader open and nothing in hand; what the
\* old one had in hand is gone, and the coordinator has dropped its members.
FreshProcess ==
    /\ pc' = [w \in Workers |-> "closed"]
    /\ batch' = [w \in Workers |-> <<>>]
    /\ session' = [w \in Workers |-> "out"]
    /\ assigned' = [w \in Workers |-> {}]
    /\ pos' = [w \in Workers |-> [p \in Partitions |-> 0]]
    /\ rejoin' = FALSE
    /\ stopping' = FALSE
    /\ UNCHANGED <<raw, committed>>

\* The process is killed at any point and started again.
Crash == ~AllStopped /\ Fault /\ FreshProcess

\* A process that stopped on a signal is started again (a deploy).
Restart ==
    /\ AllStopped
    /\ spent < MaxFaults
    /\ spent' = spent + 1
    /\ UNCHANGED calm
    /\ FreshProcess

\* Every worker has returned and wg.Wait is over.
Stopped == AllStopped /\ UNCHANGED groupVars

=============================================================================
