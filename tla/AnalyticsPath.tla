--------------------------- MODULE AnalyticsPath ---------------------------
(***************************************************************************)
(* The analytics consumer group: runAnalyticsBatchGroup of consumer.go     *)
(* around analyticsHandler.flush, with the Redis dedup cache (dedup.go),   *)
(* the clean and dead-letter writers (producer.go) and the registry        *)
(* snapshot the validation reads (registry.go).                            *)
(*                                                                         *)
(* One action per step of flush that another worker, the broker, Redis, a  *)
(* registry refresh or a crash can fall between:                           *)
(*   validate (per message) -> EXISTS -> produce clean -> produce DLQ and  *)
(*   count -> SET -> commit.                                               *)
(* A call that can fail has a success action and a failure action.  An     *)
(* event is its payload; whether it validates depends only on the snapshot *)
(* in force, so the snapshot is the set of events it accepts.              *)
(***************************************************************************)
EXTENDS ConsumerGroup

CONSTANT Rosters   \* the snapshots the registry may hold, each a set of events

ASSUME RostersAssumption == Rosters \subseteq SUBSET Events

VARIABLES
    clean,     \* clean[e]: copies of e in the clean topic
    dlq,       \* dlq[e]: copies of e in the dead-letter topic
    marked,    \* the dedup keys Redis holds
    roster,    \* the registry snapshot: the events it accepts
    swapped,   \* history: the snapshot was replaced by a different one
    valid,     \* valid[w]: the batch's events that validated, in order
    dead,      \* dead[w]: the batch's events that did not
    fresh,     \* fresh[w]: the unique valid events not seen before
    consumed   \* consumed[e]: what the process's consumed counter got for e

topics == <<clean, dlq>>
flushVars == <<valid, dead, fresh>>
vars == <<groupVars, topics, marked, roster, swapped, flushVars, consumed>>

Stages == {"closed", "fill", "validate", "seen", "clean", "dlq", "mark",
           "commit", "stopped"}

\* How often e occurs in the sequence s, and the events that do.
Occurs(s, e) == Cardinality({i \in 1 .. Len(s) : s[i] = e})
EventsIn(s) == {s[i] : i \in 1 .. Len(s)}

Durable(e) == clean[e] > 0 \/ dlq[e] > 0

----------------------------------------------------------------------------

TypeOK ==
    /\ GroupTypeOK(Stages)
    /\ clean \in [Events -> Nat]
    /\ dlq \in [Events -> Nat]
    /\ marked \subseteq Events
    /\ roster \in Rosters
    /\ swapped \in BOOLEAN
    /\ valid \in [Workers -> Seq(Events)]
    /\ dead \in [Workers -> Seq(Events)]
    /\ fresh \in [Workers -> SUBSET Events]
    /\ consumed \in [Events -> Nat]

Init ==
    /\ GroupInit
    /\ clean = [e \in Events |-> 0]
    /\ dlq = [e \in Events |-> 0]
    /\ marked = {}
    /\ roster \in Rosters
    /\ swapped = FALSE
    /\ valid = [w \in Workers |-> <<>>]
    /\ dead = [w \in Workers |-> <<>>]
    /\ fresh = [w \in Workers |-> {}]
    /\ consumed = [e \in Events |-> 0]

----------------------------------------------------------------------------
(* The group's own steps, which leave flush's state alone. *)

Untouched == UNCHANGED <<topics, marked, roster, swapped, flushVars, consumed>>

Open(w) == newReader(w) /\ Untouched

Fetch(w) == (\E p \in Partitions : FetchMessage(w, p)) /\ Untouched

StartFlush(w) == fillBatchReturns(w, "validate") /\ Untouched

Exit(w) == WorkerExits(w) /\ Untouched

----------------------------------------------------------------------------
(* flush *)

\* Everything flush does not change while the worker moves to stage.
Goto(w, stage) ==
    /\ pc' = [pc EXCEPT ![w] = stage]
    /\ UNCHANGED <<raw, committed, session, assigned, pos, rejoin, batch, stopping>>

\* Mutated: after a failed flush the worker goes on with the reader it has.
FlushFailsKeepsReader(w) ==
    /\ pc' = [pc EXCEPT ![w] = "fill"]
    /\ batch' = [batch EXCEPT ![w] = <<>>]
    /\ UNCHANGED <<raw, committed, session, assigned, rejoin, pos, stopping>>
    /\ valid' = [valid EXCEPT ![w] = <<>>]
    /\ dead' = [dead EXCEPT ![w] = <<>>]
    /\ fresh' = [fresh EXCEPT ![w] = {}]
    /\ UNCHANGED <<marked, roster, swapped, consumed>>
    /\ Fault

\* flush returns an error: nothing is marked or counted, the reader is closed.
FlushFails(w) ==
    /\ CloseReader(w)
    /\ valid' = [valid EXCEPT ![w] = <<>>]
    /\ dead' = [dead EXCEPT ![w] = <<>>]
    /\ fresh' = [fresh EXCEPT ![w] = {}]
    /\ UNCHANGED <<marked, roster, swapped, consumed>>
    /\ Fault

\* Decode and Validate of the next message of the batch, under the snapshot in
\* force at that moment; after the last one the ids are deduplicated.
ValidateNext(w) ==
    LET i == Len(valid[w]) + Len(dead[w]) + 1
        e == Value(batch[w][i])
    IN
    /\ pc[w] = "validate"
    /\ \/ /\ e \in roster
          /\ valid' = [valid EXCEPT ![w] = Append(@, e)]
          /\ UNCHANGED dead
       \/ /\ e \notin roster
          /\ dead' = [dead EXCEPT ![w] = Append(@, e)]
          /\ UNCHANGED valid
    /\ Goto(w, IF i = Len(batch[w]) THEN "seen" ELSE "validate")
    /\ UNCHANGED <<topics, marked, roster, swapped, fresh, consumed>>
    /\ NoFault

\* Mutated: the check claims the ids at once (SET NX before the produce).
SeenBatchClaims(w) ==
    /\ pc[w] = "seen"
    /\ fresh' = [fresh EXCEPT ![w] = EventsIn(valid[w]) \ marked]
    /\ marked' = marked \cup EventsIn(valid[w])
    /\ Goto(w, "clean")
    /\ UNCHANGED <<topics, roster, swapped, valid, dead, consumed>>
    /\ NoFault

\* One pipelined EXISTS over the unique valid ids.
SeenBatch(w) ==
    /\ pc[w] = "seen"
    /\ fresh' = [fresh EXCEPT ![w] = EventsIn(valid[w]) \ marked]
    /\ Goto(w, "clean")
    /\ UNCHANGED <<topics, marked, roster, swapped, valid, dead, consumed>>
    /\ NoFault

\* The pipeline fails: flush fails open and treats every id as fresh.
SeenBatchFails(w) ==
    /\ pc[w] = "seen"
    /\ valid[w] # <<>>
    /\ fresh' = [fresh EXCEPT ![w] = EventsIn(valid[w])]
    /\ Goto(w, "clean")
    /\ UNCHANGED <<topics, marked, roster, swapped, valid, dead, consumed>>
    /\ Fault

\* Mutated: flush returns after the clean produce, the rejects unwritten.
WriteCleanSkipsDLQ(w) ==
    /\ pc[w] = "clean"
    /\ clean' = [e \in Events |-> IF e \in fresh[w] THEN clean[e] + 1 ELSE clean[e]]
    /\ Goto(w, "mark")
    /\ UNCHANGED <<dlq, marked, roster, swapped, flushVars, consumed>>
    /\ NoFault

\* One synchronous RequireAll write of the fresh events.
WriteCleanBatch(w) ==
    /\ pc[w] = "clean"
    /\ clean' = [e \in Events |-> IF e \in fresh[w] THEN clean[e] + 1 ELSE clean[e]]
    /\ Goto(w, "dlq")
    /\ UNCHANGED <<dlq, marked, roster, swapped, flushVars, consumed>>
    /\ NoFault

\* The write fails or times out.  What it had sent may or may not be in the
\* topic: the messages of one call go to several partitions.
WriteCleanFails(w) ==
    /\ pc[w] = "clean"
    /\ fresh[w] # {}
    /\ \E landed \in SUBSET fresh[w] :
         clean' = [e \in Events |-> IF e \in landed THEN clean[e] + 1 ELSE clean[e]]
    /\ UNCHANGED dlq
    /\ FlushFails(w)

\* Mutated: the whole batch is dead-lettered, not only its rejects.
WriteDLQWholeBatch(w) ==
    /\ pc[w] = "dlq"
    /\ dlq' = [e \in Events |-> dlq[e] + Occurs(dead[w], e) + Occurs(valid[w], e)]
    /\ consumed' = [e \in Events |-> consumed[e] + Occurs(valid[w], e)]
    /\ Goto(w, "mark")
    /\ UNCHANGED <<clean, marked, roster, swapped, flushVars>>
    /\ NoFault

\* The rejects are written, and with both produces durable the batch is
\* counted: once per valid message, duplicates included.
WriteDLQBatch(w) ==
    /\ pc[w] = "dlq"
    /\ dlq' = [e \in Events |-> dlq[e] + Occurs(dead[w], e)]
    /\ consumed' = [e \in Events |-> consumed[e] + Occurs(valid[w], e)]
    /\ Goto(w, "mark")
    /\ UNCHANGED <<clean, marked, roster, swapped, flushVars>>
    /\ NoFault

\* Mutated: the error of the dead-letter write is not returned.
WriteDLQErrorIgnored(w) ==
    /\ pc[w] = "dlq"
    /\ dead[w] # <<>>
    /\ Goto(w, "mark")
    /\ UNCHANGED <<topics, marked, roster, swapped, flushVars, consumed>>
    /\ Fault

\* The write of the rejects fails; some of them may be in the topic.
WriteDLQFails(w) ==
    /\ pc[w] = "dlq"
    /\ dead[w] # <<>>
    /\ \E landed \in SUBSET (1 .. Len(dead[w])) :
         dlq' = [e \in Events |->
                   dlq[e] + Cardinality({i \in landed : dead[w][i] = e})]
    /\ UNCHANGED clean
    /\ FlushFails(w)

\* Mutated: nothing is marked.
MarkBatchDropped(w) ==
    /\ pc[w] = "mark"
    /\ Goto(w, "commit")
    /\ UNCHANGED <<topics, marked, roster, swapped, flushVars, consumed>>
    /\ NoFault

\* One pipelined SET of the fresh ids.
MarkBatch(w) ==
    /\ pc[w] = "mark"
    /\ marked' = marked \cup fresh[w]
    /\ Goto(w, "commit")
    /\ UNCHANGED <<topics, roster, swapped, flushVars, consumed>>
    /\ NoFault

\* The pipeline fails, perhaps after some of its SETs: counted, not returned.
MarkBatchFails(w) ==
    /\ pc[w] = "mark"
    /\ fresh[w] # {}
    /\ \E landed \in SUBSET fresh[w] : marked' = marked \cup landed
    /\ Goto(w, "commit")
    /\ UNCHANGED <<topics, roster, swapped, flushVars, consumed>>
    /\ Fault

\* Mutated: a batch that produced nothing new is not committed.
CommitIfProduced(w) ==
    /\ \/ fresh[w] # {} /\ (CommitMessages(w) \/ CommitFails(w))
       \/ /\ fresh[w] = {}
          /\ pc[w] = "commit"
          /\ pc' = [pc EXCEPT ![w] = "fill"]
          /\ batch' = [batch EXCEPT ![w] = <<>>]
          /\ UNCHANGED <<raw, committed, session, assigned, pos, rejoin, stopping>>
          /\ NoFault
    /\ valid' = [valid EXCEPT ![w] = <<>>]
    /\ dead' = [dead EXCEPT ![w] = <<>>]
    /\ fresh' = [fresh EXCEPT ![w] = {}]
    /\ UNCHANGED <<topics, marked, roster, swapped, consumed>>

\* The caller's commit, after which flush's locals are gone.
Commit(w) ==
    /\ CommitMessages(w) \/ CommitFails(w)
    /\ valid' = [valid EXCEPT ![w] = <<>>]
    /\ dead' = [dead EXCEPT ![w] = <<>>]
    /\ fresh' = [fresh EXCEPT ![w] = {}]
    /\ UNCHANGED <<topics, marked, roster, swapped, consumed>>

----------------------------------------------------------------------------
(* Around the workers. *)

Reassign == Rebalance /\ Untouched

LoseSession(w) == SessionLost(w) /\ Untouched

Rejoin(w) == HeartbeatRefused(w) /\ Untouched

\* A dedup key leaves Redis: its TTL ran out, or the LRU policy evicted it.
ExpireMark(e) ==
    /\ e \in marked
    /\ marked' = marked \ {e}
    /\ UNCHANGED <<raw, committed, session, assigned, pos, rejoin, pc, batch, stopping>>
    /\ UNCHANGED <<topics, roster, swapped, flushVars, consumed>>
    /\ Fault

\* The refresher swaps in a snapshot that accepts other events; a refresh under
\* way when the context is cancelled still completes.
Refresh ==
    /\ ~AllStopped
    /\ roster' \in Rosters \ {roster}
    /\ swapped' = TRUE
    /\ UNCHANGED <<raw, committed, session, assigned, pos, rejoin, pc, batch, stopping>>
    /\ UNCHANGED <<topics, marked, flushVars, consumed>>
    /\ NoFault

Terminate == Shutdown /\ Untouched

\* The locals of flush and the process's counters do not survive the process,
\* and the new one loads the registry anew.
Start ==
    /\ Crash \/ Restart
    /\ valid' = [w \in Workers |-> <<>>]
    /\ dead' = [w \in Workers |-> <<>>]
    /\ fresh' = [w \in Workers |-> {}]
    /\ consumed' = [e \in Events |-> 0]
    /\ roster' \in Rosters
    /\ swapped' = (swapped \/ roster' # roster)
    /\ UNCHANGED <<topics, marked>>

Idle == Stopped /\ Untouched

----------------------------------------------------------------------------

WorkerStep(w) ==
    \/ Open(w)
    \/ Fetch(w)
    \/ StartFlush(w)
    \/ Exit(w)
    \/ ValidateNext(w)
    \/ SeenBatch(w)
    \/ SeenBatchFails(w)
    \/ WriteCleanBatch(w)
    \/ WriteCleanFails(w)
    \/ WriteDLQBatch(w)
    \/ WriteDLQFails(w)
    \/ MarkBatch(w)
    \/ MarkBatchFails(w)
    \/ Commit(w)

Next ==
    \/ \E w \in Workers : WorkerStep(w)
    \/ \E w \in Workers : LoseSession(w)
    \/ \E w \in Workers : Rejoin(w)
    \/ \E e \in Events : ExpireMark(e)
    \/ Reassign
    \/ Refresh
    \/ Terminate
    \/ Start
    \/ Idle

\* A worker whose next step stays possible takes it: goroutines are scheduled,
\* and flush and commit run under a 30 s context.  The coordinator completes a
\* rebalance and an expelled reader learns of it.  Nothing is assumed of
\* faults, refreshes, signals and restarts.
Fairness ==
    /\ \A w \in Workers : WF_vars(WorkerStep(w))
    /\ \A w \in Workers : WF_vars(Rejoin(w))
    /\ WF_vars(Reassign)

Spec == Init /\ [][Next]_vars

FairSpec == Spec /\ Fairness

----------------------------------------------------------------------------
(* Properties *)

\* "NEVER commit before a durable produce" (consumer.go, runAnalyticsBatchGroup):
\* whatever fails, crashes or is reassigned, every record below the committed
\* offset is in the clean topic or in the dead-letter topic.
NoCommitBeforeDurable ==
    \A p \in Partitions : \A o \in 1 .. committed[p] : Durable(raw[p][o])

\* MarkBatch comes after the durable produce (dedup.go): a key in Redis always
\* stands for an event that is in the clean topic, so dropping an event as a
\* duplicate never loses its only copy.
MarkedImpliesProduced == \A e \in marked : clean[e] > 0

\* The dedup layer sheds every duplicate in the ordinary run of things: a
\* second copy of an event in the clean topic takes a fault or a rebalance
\* over a batch in hand.  Shutdowns and restarts alone do not make one.
DuplicateNeedsDisturbance == calm => \A e \in Events : clean[e] <= 1

\* "an in-hand batch finishes even during shutdown (no produced-but-uncommitted
\* gap)" (consumer.go): when all workers of an undisturbed group have returned,
\* every event downstream lies below a committed offset.
NoShutdownGap ==
    calm /\ AllStopped =>
        \A e \in Events : Durable(e) =>
            \E p \in Partitions : \E o \in 1 .. committed[p] : raw[p][o] = e

\* An event is either clean or dead-lettered: flush routes each message one
\* way, and redelivery repeats the verdict unless a refresh or a restart
\* brought a different registry snapshot.
RoutedOneWay == ~swapped => \A e \in Events : ~(clean[e] > 0 /\ dlq[e] > 0)

\* Committed offsets go forward only, until a rebalance overtakes a batch in
\* hand or something fails: CommitMessages stores the batch's offsets blindly,
\* so a late commit of a worker that lost the partition can rewind it.
CommitsMoveForward ==
    [][calm' => \A p \in Partitions : committed[p] <= committed'[p]]_vars

\* What a worker has in hand or durably behind it: no reader has fetched past a
\* record, and no batch holds a record, below which something is neither
\* downstream nor in the same worker's batch.  It is what makes the blind commit
\* of a batch safe, and what the reader's close after a failed flush preserves.
Handled(w, p, o) == Durable(raw[p][o]) \/ InBatch(w, p, o)

SkipsNothing(w) ==
    /\ \A p \in assigned[w] : \A o \in 1 .. pos[w][p] : Handled(w, p, o)
    /\ \A i \in 1 .. Len(batch[w]) : \A o \in 1 .. batch[w][i].off :
         Handled(w, batch[w][i].part, o)

NothingSkipped == \A w \in Workers : SkipsNothing(w)

\* The group delivers at least once: it implements AtLeastOnce with "in the
\* clean or in the dead-letter topic" for delivered and the committed offsets
\* for acknowledged.
ALO == INSTANCE AtLeastOnce WITH
    delivered <- {e \in Events : Durable(e)},
    acked <- committed

ImplementsAtLeastOnce == ALO!Spec

\* Every record of the raw topic reaches one of the two output topics, whatever
\* failed before, unless the process is told to stop: a failed flush closes
\* its reader so that the batch is fetched again (consumer.go).
EventuallyDelivered ==
    \A e \in Events :
        (\E p \in Partitions : e \in EventsIn(raw[p])) ~> (Durable(e) \/ stopping)

\* An undisturbed group ends up with the whole topic committed, also when the
\* last batches hold nothing but duplicates.
EventuallyCommitted ==
    \A p \in Partitions :
        <>(committed[p] = Len(raw[p]) \/ ~calm \/ stopping)

\* "a redelivered batch is counted exactly once" (analytics.go): the consumed
\* counter of one process never exceeds the records the topic holds.
CountedOnce ==
    \A e \in Events :
        consumed[e] <= Cardinality({r \in UNION {{p} \X (1 .. Len(raw[p])) : p \in Partitions} :
                                       raw[r[1]][r[2]] = e})

----------------------------------------------------------------------------
(* The inductive invariant behind NoCommitBeforeDurable *)

\* What is fetched exists.
ReadsExist(w) ==
    /\ \A p \in Partitions : pos[w][p] <= Len(raw[p])
    /\ \A i \in 1 .. Len(batch[w]) : batch[w][i].off <= Len(raw[batch[w][i].part])

\* How far flush has come with the batch in hand.
FlushProgress(w) ==
    /\ pc[w] \in {"closed", "stopped"} =>
         batch[w] = <<>> /\ assigned[w] = {} /\ session[w] = "out"
    /\ pc[w] \in {"closed", "fill", "stopped"} => valid[w] = <<>> /\ dead[w] = <<>>
    /\ pc[w] = "validate" => Len(valid[w]) + Len(dead[w]) < Len(batch[w])
    /\ pc[w] = "validate" =>
         \A i \in 1 .. Len(valid[w]) + Len(dead[w]) :
            Value(batch[w][i]) \in EventsIn(valid[w]) \cup EventsIn(dead[w])
    /\ pc[w] \in {"seen", "clean", "dlq", "mark", "commit"} =>
         \A i \in 1 .. Len(batch[w]) :
            Value(batch[w][i]) \in EventsIn(valid[w]) \cup EventsIn(dead[w])
    /\ pc[w] \in {"clean", "dlq", "mark", "commit"} =>
         \A e \in EventsIn(valid[w]) : e \in fresh[w] \/ clean[e] > 0
    /\ pc[w] \in {"dlq", "mark", "commit"} => \A e \in fresh[w] : clean[e] > 0
    /\ pc[w] \in {"mark", "commit"} => \A e \in EventsIn(dead[w]) : dlq[e] > 0

IndInv ==
    /\ TypeOK
    /\ \A w \in Workers : ReadsExist(w) /\ FlushProgress(w)
    /\ NothingSkipped
    /\ MarkedImpliesProduced
    /\ NoCommitBeforeDurable

=============================================================================
