-------------------------- MODULE DelayQueueProofs --------------------------
(***************************************************************************)
(* Proofs about DelayQueue, for any number of senders, any plans, delays   *)
(* and bounds.                                                             *)
(***************************************************************************)
EXTENDS DelayQueue, Integers, TLAPS

\* What a sender has in hand at each step of Send and push.
SenderInv(s) ==
    /\ spc[s] = "again" => todo[s] # <<>>
    /\ spc[s] \in {"push", "nudge"} => hold[s] \in Items /\ wpc # "unborn"

\* NeverOversleeps says nothing about a state with a signal under way, so it is
\* inductive as it stands, given the types.
QueueInv ==
    /\ TypeOK
    /\ \A s \in Senders : SenderInv(s)
    /\ NeverOversleeps

\* The first event of a sender's remaining plan and the rest of it.
LEMMA NextOfPlan ==
    ASSUME TypeOK, NEW s \in Senders, todo[s] # <<>>
    PROVE  Head(todo[s]) \in Events /\ Tail(todo[s]) \in Seq(Events)
BY DEF TypeOK

\* A write keeps the topic's types, whether it succeeds or fails.
LEMMA WriteType ==
    ASSUME TypeOK, NEW e \in Events, write(e)
    PROVE  topic' \in Seq(Events) /\ failed' \subseteq Events /\ faults' \in 0 .. MaxFaults
<1>1. CASE topic' = Append(topic, e) /\ UNCHANGED <<failed, faults>>
  BY <1>1 DEF TypeOK
<1>2. CASE /\ cancelled \/ faults < MaxFaults
           /\ failed' = failed \cup {e}
           /\ faults' = IF cancelled THEN faults ELSE faults + 1
           /\ UNCHANGED topic
  BY <1>2, BoundsAssumption DEF TypeOK
<1> QED
  BY <1>1, <1>2 DEF write

\* The initial state: nothing is held and the worker is not born.
LEMMA InitQueueInv == Init => QueueInv
<1> SUFFICES ASSUME Init PROVE QueueInv
  OBVIOUS
<1>1. TypeOK
  <2>1. todo \in [Senders -> Seq(Events)]
    BY PlanAssumption DEF Init
  <2>2. topic \in Seq(Events)
    BY DEF Init
  <2>3. now \in 0 .. MaxTime /\ faults \in 0 .. MaxFaults
    BY BoundsAssumption DEF Init
  <2> QED
    BY <2>1, <2>2, <2>3 DEF Init, TypeOK
<1>2. \A s \in Senders : SenderInv(s)
  BY DEF Init, SenderInv
<1>3. NeverOversleeps
  BY DEF Init, NeverOversleeps
<1> QED
  BY <1>1, <1>2, <1>3 DEF QueueInv

\* A sender's own step keeps what it has in hand, and the others keep theirs.
LEMMA SenderStep ==
    ASSUME QueueInv, NEW s \in Senders,
           SendReturns(s) \/ SendNow(s) \/ SendDuplicate(s) \/ SendDelayed(s) \/ Pushing(s)
    PROVE  QueueInv'
<1> USE DEF QueueInv
<1>1. CASE SendReturns(s)
  <2>1. TypeOK'
    BY <1>1, NextOfPlan DEF SendReturns, Sends, NextEvent, queueVars, topicVars, TypeOK
  <2>2. \A t \in Senders : SenderInv(t)'
    BY <1>1 DEF SendReturns, Sends, NextEvent, queueVars, SenderInv, TypeOK
  <2>3. NeverOversleeps'
    BY <1>1 DEF SendReturns, queueVars, NeverOversleeps
  <2> QED
    BY <2>1, <2>2, <2>3
<1>2. CASE SendNow(s)
  <2>0. Head(todo[s]) \in Events /\ Tail(todo[s]) \in Seq(Events)
    BY <1>2, NextOfPlan DEF SendNow, Sends
  <2>1. topic' \in Seq(Events) /\ failed' \subseteq Events /\ faults' \in 0 .. MaxFaults
    BY <1>2, <2>0, WriteType DEF SendNow
  <2>2. TypeOK'
    BY <1>2, <2>0, <2>1 DEF SendNow, Proceed, NextEvent, queueVars, TypeOK
  <2>3. \A t \in Senders : SenderInv(t)'
    BY <1>2 DEF SendNow, Sends, Proceed, NextEvent, queueVars, SenderInv, TypeOK
  <2>4. NeverOversleeps'
    BY <1>2 DEF SendNow, Sends, Proceed, queueVars, NeverOversleeps, TypeOK
  <2> QED
    BY <2>2, <2>3, <2>4
<1>3. CASE SendDuplicate(s)
  <2>0. Head(todo[s]) \in Events /\ Tail(todo[s]) \in Seq(Events)
    BY <1>3, NextOfPlan DEF SendDuplicate, SenderInv
  <2>1. topic' \in Seq(Events) /\ failed' \subseteq Events /\ faults' \in 0 .. MaxFaults
    BY <1>3, <2>0, WriteType DEF SendDuplicate
  <2>2. TypeOK'
    BY <1>3, <2>0, <2>1 DEF SendDuplicate, Proceed, NextEvent, queueVars, TypeOK
  <2>3. \A t \in Senders : SenderInv(t)'
    BY <1>3 DEF SendDuplicate, Proceed, NextEvent, queueVars, SenderInv, TypeOK
  <2>4. NeverOversleeps'
    BY <1>3 DEF SendDuplicate, Proceed, queueVars, NeverOversleeps, TypeOK
  <2> QED
    BY <2>2, <2>3, <2>4
<1>4. CASE SendDelayed(s)
  <2>0. Head(todo[s]) \in Events /\ Tail(todo[s]) \in Seq(Events)
    BY <1>4, NextOfPlan DEF SendDelayed, Sends
  <2>1. PICK d \in Delays :
          /\ now + d <= MaxTime
          /\ hold' = [hold EXCEPT ![s] = [event |-> Head(todo[s]), fireAt |-> now + d]]
    BY <1>4 DEF SendDelayed
  <2>2. [event |-> Head(todo[s]), fireAt |-> now + d] \in Items
    BY <2>0, <2>1, BoundsAssumption DEF Items, TypeOK
  <2>3. TypeOK'
    BY <1>4, <2>0, <2>1, <2>2 DEF SendDelayed, Proceed, NextEvent, topicVars, TypeOK
  <2>4. \A t \in Senders : SenderInv(t)'
    BY <1>4, <2>1, <2>2 DEF SendDelayed, Sends, Proceed, NextEvent, SenderInv, TypeOK
  <2>5. NeverOversleeps'
    BY <1>4 DEF SendDelayed, Sends, Proceed, NeverOversleeps, TypeOK
  <2> QED
    BY <2>3, <2>4, <2>5
<1>5. CASE Push(s)
  <2>1. TypeOK'
    BY <1>5 DEF Push, Proceed, topicVars, SenderInv, TypeOK
  <2>2. \A t \in Senders : SenderInv(t)'
    BY <1>5 DEF Push, Proceed, SenderInv, TypeOK
  <2>3. NeverOversleeps'
    BY <1>5 DEF Push, Proceed, NeverOversleeps, TypeOK
  <2> QED
    BY <2>1, <2>2, <2>3
<1>6. CASE Nudge(s)
  <2>1. TypeOK'
    BY <1>6 DEF Nudge, Proceed, topicVars, TypeOK
  <2>2. \A t \in Senders : SenderInv(t)'
    BY <1>6 DEF Nudge, Proceed, SenderInv, TypeOK
  <2>3. NeverOversleeps'
    BY <1>6 DEF Nudge, NeverOversleeps
  <2> QED
    BY <2>1, <2>2, <2>3
<1> QED
  BY <1>1, <1>2, <1>3, <1>4, <1>5, <1>6 DEF Pushing

\* The worker's steps.  Only SetTimer reaches the select, and it has just read
\* the earliest deadline of the heap.
LEMMA WorkerStep ==
    ASSUME QueueInv, Worker
    PROVE  QueueInv'
<1> USE DEF QueueInv
<1>1. CASE SetTimer
  <2>1. timer' \in 0 .. MaxTime \cup {Never}
    BY <1>1 DEF SetTimer, Items, TypeOK
  <2>2. TypeOK'
    BY <1>1, <2>1 DEF SetTimer, topicVars, TypeOK
  <2>3. \A t \in Senders : SenderInv(t)'
    BY <1>1 DEF SetTimer, SenderInv
  <2>4. \A i \in heap : timer' # Never /\ timer' <= i.fireAt
    BY <1>1, BoundsAssumption DEF SetTimer, nextDeadline, Items, TypeOK
  <2>5. NeverOversleeps'
    BY <1>1, <2>4 DEF SetTimer, NeverOversleeps
  <2> QED
    BY <2>2, <2>3, <2>5
<1>2. CASE SelectDone
  BY <1>2 DEF SelectDone, topicVars, TypeOK, SenderInv, NeverOversleeps
<1>3. CASE SelectWake
  BY <1>3 DEF SelectWake, topicVars, TypeOK, SenderInv, NeverOversleeps
<1>4. CASE SelectTimer
  BY <1>4 DEF SelectTimer, popDue, topicVars, TypeOK, SenderInv, NeverOversleeps
<1>5. CASE WriteDue
  <2>1. PICK i \in due : write(i.event) /\ due' = due \ {i}
    BY <1>5 DEF WriteDue
  <2>2. i.event \in Events
    BY <2>1 DEF Items, TypeOK
  <2>3. topic' \in Seq(Events) /\ failed' \subseteq Events /\ faults' \in 0 .. MaxFaults
    BY <2>1, <2>2, WriteType
  <2>4. TypeOK'
    BY <1>5, <2>1, <2>3 DEF WriteDue, TypeOK
  <2>5. (\A t \in Senders : SenderInv(t)') /\ NeverOversleeps'
    BY <1>5 DEF WriteDue, SenderInv, NeverOversleeps
  <2> QED
    BY <2>4, <2>5
<1>6. CASE WroteAll
  BY <1>6 DEF WroteAll, topicVars, TypeOK, SenderInv, NeverOversleeps
<1> QED
  BY <1>1, <1>2, <1>3, <1>4, <1>5, <1>6 DEF Worker

\* Every step preserves the invariant.
LEMMA NextQueueInv == QueueInv /\ [Next]_vars => QueueInv'
<1> SUFFICES ASSUME QueueInv, [Next]_vars PROVE QueueInv'
  OBVIOUS
<1>1. CASE Tick
  BY <1>1, BoundsAssumption DEF Tick, queueVars, topicVars, QueueInv, TypeOK, SenderInv, NeverOversleeps
<1>2. CASE Cancel
  BY <1>2 DEF Cancel, queueVars, topicVars, QueueInv, TypeOK, SenderInv, NeverOversleeps
<1>3. CASE UNCHANGED vars
  BY <1>3 DEF vars, queueVars, topicVars, QueueInv, TypeOK, SenderInv, NeverOversleeps
<1> QED
  BY <1>1, <1>2, <1>3, SenderStep, WorkerStep DEF Next, Idle

\* The inductive invariant holds throughout.
THEOREM QueueInvariant == Spec => []QueueInv
BY InitQueueInv, NextQueueInv, PTL DEF Spec

\* Types, a heap that stays empty until the worker is born, and due items only
\* while the worker writes (delayqueue.go).
THEOREM QueueTypeCorrect == Spec => []TypeOK
<1>1. QueueInv => TypeOK
  BY DEF QueueInv
<1> QED
  BY <1>1, QueueInvariant, PTL

\* The worker never waits in its select past the earliest item on the heap once
\* the signals are in, so one coalesced signal is enough (push and worker).
THEOREM TimerCoversHeap == Spec => []NeverOversleeps
<1>1. QueueInv => NeverOversleeps
  BY DEF QueueInv
<1> QED
  BY <1>1, QueueInvariant, PTL

----------------------------------------------------------------------------
(* One route for every event *)

\* How many events of its plan s is done with.
Sent(s) == Len(Plan[s]) - Len(todo[s])

\* e has been through a write.
Gone(e) == Written(e) \/ e \in failed

Untold(e) == ~Held(e) /\ ~Gone(e)

Routed(e) == (Held(e) => ~Gone(e)) /\ (Held(e) \/ Gone(e) \/ cancelled)

\* What is left to send is the rest of the plan.
PlanRest(s) ==
    /\ Len(todo[s]) <= Len(Plan[s])
    /\ \A i \in 1 .. Len(todo[s]) : todo[s][i] = Plan[s][Sent(s) + i]

\* The events of the plan by how far s has come: those sent have their one
\* route, those to come have left no trace, and the one whose duplicate is
\* about to be sent has been written and is not held.
PlanKept(s) ==
    \A m \in 1 .. Len(Plan[s]) :
        /\ m <= Sent(s) => Routed(Plan[s][m])
        /\ m > Sent(s) + 1 => Untold(Plan[s][m])
        /\ m = Sent(s) + 1 /\ spc[s] = "again" => ~Held(Plan[s][m]) /\ Gone(Plan[s][m])
        /\ m = Sent(s) + 1 /\ spc[s] # "again" => Untold(Plan[s][m])

\* An event is held in one place only, and what was popped is due.
HeldOnce ==
    /\ heap \cap due = {}
    /\ \A i, j \in heap \cup due : i.event = j.event => i = j
    /\ \A s \in Senders : spc[s] = "push" => \A i \in heap \cup due : i.event # hold[s].event
    /\ \A s, t \in Senders :
         spc[s] = "push" /\ spc[t] = "push" /\ hold[s].event = hold[t].event => s = t

DueInTime == \A i \in due : i.fireAt <= now

RouteInv ==
    /\ QueueInv
    /\ \A s \in Senders : PlanRest(s) /\ PlanKept(s)
    /\ HeldOnce
    /\ DueInTime

\* Where e stands is the same after the step.
SameFate(e) == (Held(e)' <=> Held(e)) /\ (Gone(e)' <=> Gone(e))

\* Lengths of plans, and the events in them.
LEMMA PlanFacts ==
    ASSUME TypeOK, NEW s \in Senders
    PROVE  /\ Len(Plan[s]) \in Nat /\ Len(todo[s]) \in Nat
           /\ \A m \in 1 .. Len(Plan[s]) : Plan[s][m] \in Events
           /\ \A t \in Senders : \A m \in 1 .. Len(Plan[s]) : \A k \in 1 .. Len(Plan[t]) :
                Plan[s][m] = Plan[t][k] => s = t /\ m = k
<1>1. Plan[s] \in Seq(Events) /\ todo[s] \in Seq(Events)
  BY PlanAssumption DEF TypeOK
<1>2. \A m \in 1 .. Len(Plan[s]) : Plan[s][m] \in Events
  BY <1>1
<1>3. Len(Plan[s]) \in Nat /\ Len(todo[s]) \in Nat
  BY <1>1
<1> QED
  BY <1>2, <1>3, PlanAssumption

\* The event about to be sent: the plan's next one.
LEMMA NextInPlan ==
    ASSUME TypeOK, NEW s \in Senders, PlanRest(s), todo[s] # <<>>
    PROVE  /\ Sent(s) \in Nat /\ Sent(s) + 1 \in 1 .. Len(Plan[s])
           /\ Head(todo[s]) = Plan[s][Sent(s) + 1]
           /\ Len(Tail(todo[s])) = Len(todo[s]) - 1
           /\ \A i \in 1 .. Len(Tail(todo[s])) : Tail(todo[s])[i] = todo[s][i + 1]
<1>1. todo[s] \in Seq(Events) /\ Len(todo[s]) \in Nat \ {0} /\ Len(Plan[s]) \in Nat
  BY PlanFacts DEF TypeOK
<1>2. Sent(s) \in Nat /\ Sent(s) + 1 \in 1 .. Len(Plan[s])
  <2>1. PICK a, b \in Nat : a = Len(Plan[s]) /\ b = Len(todo[s])
    BY <1>1
  <2>2. b # 0 /\ b <= a /\ Sent(s) = a - b
    BY <1>1, <2>1 DEF PlanRest, Sent
  <2>3. a - b \in Nat /\ (a - b) + 1 \in 1 .. a
    BY <2>2
  <2> QED
    BY <2>1, <2>2, <2>3
<1>3. Head(todo[s]) = todo[s][1] /\ 1 \in 1 .. Len(todo[s])
  BY <1>1
<1>4. /\ Len(Tail(todo[s])) = Len(todo[s]) - 1
      /\ \A i \in 1 .. Len(Tail(todo[s])) : Tail(todo[s])[i] = todo[s][i + 1]
  BY <1>1
<1> QED
  BY <1>2, <1>3, <1>4 DEF PlanRest

\* What a write does to its event and to the others.
LEMMA WriteFate ==
    ASSUME TypeOK, NEW e \in Events, write(e)
    PROVE  /\ Gone(e)'
           /\ \A f \in Events : f # e => (Written(f)' <=> Written(f)) /\ (Gone(f)' <=> Gone(f))
<1>0. topic \in Seq(Events)
  BY DEF TypeOK
<1>1. CASE topic' = Append(topic, e) /\ UNCHANGED <<failed, faults>>
  <2>1. PICK k \in Nat : k = Len(topic)
    BY <1>0
  <2>2. /\ Len(topic') = k + 1 /\ topic'[k + 1] = e
        /\ \A i \in 1 .. k : topic'[i] = topic[i]
    BY <1>0, <1>1, <2>1
  <2>3. Written(e)'
    BY <2>1, <2>2 DEF Written
  <2>4. \A f \in Events : f # e => (Written(f)' <=> Written(f))
    <3> TAKE f \in Events
    <3> HAVE f # e
    <3>1. ASSUME Written(f) PROVE Written(f)'
      <4>1. PICK i \in 1 .. k : topic[i] = f
        BY <2>1, <3>1 DEF Written
      <4> QED
        BY <2>2, <4>1 DEF Written
    <3>2. ASSUME Written(f)' PROVE Written(f)
      <4>1. PICK i \in 1 .. k + 1 : topic'[i] = f
        BY <2>2, <3>2 DEF Written
      <4>2. i \in 1 .. k
        BY <2>2, <4>1
      <4> QED
        BY <2>1, <2>2, <4>1, <4>2 DEF Written
    <3> QED
      BY <3>1, <3>2
  <2> QED
    BY <1>1, <2>3, <2>4 DEF Gone
<1>2. CASE failed' = failed \cup {e} /\ UNCHANGED topic
  BY <1>2 DEF Gone, Written
<1> QED
  BY <1>1, <1>2 DEF write

\* A sender that stays where it is: its events keep their fate, or are routed.
LEMMA PlanFrame ==
    ASSUME TypeOK, NEW t \in Senders, PlanRest(t), PlanKept(t), todo'[t] = todo[t],
           (spc'[t] = "again") <=> (spc[t] = "again"), cancelled => cancelled',
           \A m \in 1 .. Len(Plan[t]) :
              \/ SameFate(Plan[t][m])
              \/ m <= Sent(t) /\ Routed(Plan[t][m])'
    PROVE  PlanRest(t)' /\ PlanKept(t)'
<1>1. Sent(t)' = Sent(t) /\ Sent(t) \in Int
  BY PlanFacts DEF Sent
<1>2. PlanRest(t)'
  BY <1>1 DEF PlanRest
<1>3. ASSUME NEW m \in 1 .. Len(Plan[t])
      PROVE  /\ m <= Sent(t) => Routed(Plan[t][m])'
             /\ m > Sent(t) + 1 => Untold(Plan[t][m])'
             /\ m = Sent(t) + 1 /\ spc'[t] = "again" => ~Held(Plan[t][m])' /\ Gone(Plan[t][m])'
             /\ m = Sent(t) + 1 /\ spc'[t] # "again" => Untold(Plan[t][m])'
  <2>1. CASE SameFate(Plan[t][m])
    BY <2>1 DEF PlanKept, SameFate, Routed, Untold
  <2>2. CASE m <= Sent(t) /\ Routed(Plan[t][m])'
    BY <1>1, <2>2
  <2> QED
    BY <2>1, <2>2
<1> QED
  BY <1>1, <1>2, <1>3 DEF PlanKept

\* A sender that is done with its next event.
LEMMA PlanAdvances ==
    ASSUME TypeOK, NEW s \in Senders, PlanRest(s), PlanKept(s), todo[s] # <<>>,
           todo'[s] = Tail(todo[s]), spc'[s] # "again", cancelled => cancelled',
           NEW e \in Events, e = Head(todo[s]), Routed(e)',
           \A f \in Events : f # e => SameFate(f)
    PROVE  PlanRest(s)' /\ PlanKept(s)'
<1>1. PICK k \in Nat : k = Sent(s)
  BY NextInPlan
<1>2. /\ k + 1 \in 1 .. Len(Plan[s]) /\ e = Plan[s][k + 1]
      /\ Len(todo'[s]) = Len(todo[s]) - 1
      /\ \A i \in 1 .. Len(todo'[s]) : todo'[s][i] = todo[s][i + 1]
  BY <1>1, NextInPlan
<1>3. Sent(s)' = k + 1
  <2>1. PICK a, b \in Nat : a = Len(Plan[s]) /\ b = Len(todo[s])
    BY PlanFacts
  <2>2. k = a - b /\ Sent(s)' = a - (b - 1)
    BY <1>1, <1>2, <2>1 DEF Sent
  <2> QED
    BY <2>2
<1>4. PlanRest(s)'
  <2>1. ASSUME NEW i \in 1 .. Len(todo'[s]) PROVE todo'[s][i] = Plan[s][(k + 1) + i]
    <3>1. i + 1 \in 1 .. Len(todo[s])
      BY <1>2, PlanFacts
    <3>2. todo[s][i + 1] = Plan[s][k + (i + 1)]
      BY <1>1, <3>1 DEF PlanRest
    <3>3. todo'[s][i] = todo[s][i + 1]
      BY <1>2
    <3>4. i \in Nat /\ k + (i + 1) = (k + 1) + i
      OBVIOUS
    <3> QED
      BY <3>2, <3>3, <3>4
  <2>2. Len(todo'[s]) <= Len(Plan[s])
    BY <1>2, PlanFacts DEF PlanRest
  <2> QED
    BY <1>3, <2>1, <2>2 DEF PlanRest
<1>5. ASSUME NEW m \in 1 .. Len(Plan[s])
      PROVE  /\ m <= k + 1 => Routed(Plan[s][m])'
             /\ m > k + 1 => Untold(Plan[s][m])'
  <2>1. CASE m = k + 1
    <3>1. Plan[s][m] = e
      BY <1>2, <2>1
    <3> QED
      BY <2>1, <3>1
  <2>2. CASE m # k + 1
    <3>1. PICK f \in Events : f = Plan[s][m]
      BY PlanFacts
    <3>2. f # e
      BY <1>2, <2>2, <3>1, PlanFacts
    <3>3. SameFate(f)
      BY <3>2
    <3>4. /\ m <= k => Routed(f)
          /\ m > k + 1 => Untold(f)
      BY <1>1, <3>1 DEF PlanKept
    <3>5. /\ m <= k => Routed(f)'
          /\ m > k + 1 => Untold(f)'
      BY <3>3, <3>4 DEF SameFate, Routed, Untold
    <3> QED
      BY <2>2, <3>1, <3>5
  <2> QED
    BY <2>1, <2>2
<1>6. PlanKept(s)'
  BY <1>3, <1>5 DEF PlanKept
<1> QED
  BY <1>4, <1>6

\* Every event of a plan keeps its fate.
LEMMA PlansFrame ==
    ASSUME TypeOK, \A t \in Senders : PlanRest(t) /\ PlanKept(t), todo' = todo,
           \A t \in Senders : (spc'[t] = "again") <=> (spc[t] = "again"),
           cancelled => cancelled', \A f \in Events : SameFate(f)
    PROVE  \A t \in Senders : PlanRest(t)' /\ PlanKept(t)'
<1> TAKE t \in Senders
<1>1. \A m \in 1 .. Len(Plan[t]) : SameFate(Plan[t][m])
  BY PlanFacts
<1> QED
  BY <1>1, PlanFrame

\* A step that moves nothing but items from the heap to the worker.
LEMMA QuietStep ==
    ASSUME RouteInv, QueueInv', UNCHANGED <<todo, spc, hold, topic, failed>>,
           heap' \cup due' = heap \cup due, heap' \cap due' = {}, DueInTime',
           cancelled => cancelled'
    PROVE  RouteInv'
<1>0. /\ TypeOK /\ HeldOnce /\ \A t \in Senders : PlanRest(t) /\ PlanKept(t)
  BY DEF RouteInv, QueueInv
<1>1. \A f \in Events : SameFate(f)
  BY DEF SameFate, Held, Gone, Written
<1>2. \A t \in Senders : PlanRest(t)' /\ PlanKept(t)'
  BY <1>0, <1>1, PlansFrame
<1>3. HeldOnce'
  BY <1>0 DEF HeldOnce
<1> QED
  BY <1>2, <1>3 DEF RouteInv

\* The event s is about to send has left no trace, or is about to be sent again.
LEMMA NextIsUntold ==
    ASSUME RouteInv, NEW s \in Senders, todo[s] # <<>>
    PROVE  \E e \in Events :
             /\ e = Head(todo[s]) /\ ~Held(e)
             /\ spc[s] # "again" => ~Gone(e)
             /\ \A t \in Senders : \A m \in 1 .. Len(Plan[t]) :
                  Plan[t][m] = e => t = s /\ m = Sent(s) + 1
<1>0. TypeOK /\ PlanRest(s) /\ PlanKept(s)
  BY DEF RouteInv, QueueInv
<1>1. PICK k \in 1 .. Len(Plan[s]) : k = Sent(s) + 1 /\ Head(todo[s]) = Plan[s][k]
  BY <1>0, NextInPlan
<1>2. PICK e \in Events : e = Plan[s][k]
  BY <1>0, PlanFacts
<1>3. ~Held(e) /\ (spc[s] # "again" => ~Gone(e))
  BY <1>0, <1>1, <1>2 DEF PlanKept, Untold
<1>4. \A t \in Senders : \A m \in 1 .. Len(Plan[t]) : Plan[t][m] = e => t = s /\ m = k
  BY <1>0, <1>2, PlanFacts
<1> QED
  BY <1>1, <1>2, <1>3, <1>4

\* The other senders' plans while s deals with its next event e.
LEMMA OthersFrame ==
    ASSUME RouteInv, NEW s \in Senders, NEW e \in Events, cancelled => cancelled',
           \A t \in Senders : \A m \in 1 .. Len(Plan[t]) : Plan[t][m] = e => t = s,
           \A f \in Events : f # e => SameFate(f),
           \A t \in Senders : t # s => todo'[t] = todo[t] /\ spc'[t] = spc[t]
    PROVE  \A t \in Senders : t # s => PlanRest(t)' /\ PlanKept(t)'
<1> SUFFICES ASSUME NEW t \in Senders, t # s PROVE PlanRest(t)' /\ PlanKept(t)'
  OBVIOUS
<1>0. TypeOK /\ PlanRest(t) /\ PlanKept(t)
  BY DEF RouteInv, QueueInv
<1>1. \A m \in 1 .. Len(Plan[t]) : SameFate(Plan[t][m])
  BY <1>0, PlanFacts
<1> QED
  BY <1>0, <1>1, PlanFrame

\* Send and push keep every event on one route.
LEMMA SenderRoutes ==
    ASSUME RouteInv, NEW s \in Senders,
           SendReturns(s) \/ SendNow(s) \/ SendDuplicate(s) \/ SendDelayed(s) \/ Pushing(s)
    PROVE  RouteInv'
<1>0. /\ TypeOK /\ QueueInv /\ QueueInv' /\ HeldOnce /\ DueInTime
      /\ \A t \in Senders : PlanRest(t) /\ PlanKept(t) /\ SenderInv(t)
      /\ PlanRest(s) /\ PlanKept(s)
  BY SenderStep DEF RouteInv, QueueInv
<1>1. CASE SendReturns(s)
  <2>1. /\ todo[s] # <<>> /\ cancelled /\ cancelled' /\ spc[s] = "idle"
        /\ todo' = [todo EXCEPT ![s] = Tail(@)]
        /\ UNCHANGED <<now, spc, hold, heap, due, topic, failed>>
    BY <1>1 DEF SendReturns, Sends, NextEvent, queueVars, topicVars
  <2>2. PICK e \in Events :
          /\ e = Head(todo[s]) /\ ~Held(e)
          /\ \A t \in Senders : \A m \in 1 .. Len(Plan[t]) : Plan[t][m] = e => t = s
    BY <2>1, NextIsUntold
  <2>3. \A f \in Events : SameFate(f)
    BY <2>1 DEF SameFate, Held, Gone, Written
  <2>4. Routed(e)'
    BY <2>1, <2>2, <2>3 DEF SameFate, Routed
  <2>5. /\ todo'[s] = Tail(todo[s])
        /\ \A t \in Senders : t # s => todo'[t] = todo[t] /\ spc'[t] = spc[t]
    BY <1>0, <2>1 DEF TypeOK
  <2>6. PlanRest(s)' /\ PlanKept(s)'
    BY <1>0, <2>1, <2>2, <2>3, <2>4, <2>5, PlanAdvances
  <2>7. \A t \in Senders : t # s => PlanRest(t)' /\ PlanKept(t)'
    BY <2>1, <2>2, <2>3, <2>5, OthersFrame
  <2>8. HeldOnce' /\ DueInTime'
    BY <1>0, <2>1 DEF HeldOnce, DueInTime
  <2> QED
    BY <1>0, <2>6, <2>7, <2>8 DEF RouteInv
<1>2. CASE SendNow(s) \/ SendDuplicate(s)
  <2>1. /\ todo[s] # <<>> /\ spc[s] \in {"idle", "again"} /\ write(Head(todo[s]))
        /\ UNCHANGED <<now, cancelled, hold, heap, due>>
    BY <1>0, <1>2 DEF SendNow, SendDuplicate, Sends, SenderInv, queueVars
  <2>2. PICK e \in Events :
          /\ e = Head(todo[s]) /\ ~Held(e)
          /\ \A t \in Senders : \A m \in 1 .. Len(Plan[t]) :
               Plan[t][m] = e => t = s /\ m = Sent(s) + 1
    BY <2>1, NextIsUntold
  <2>3. /\ \A t \in Senders : t # s => todo'[t] = todo[t] /\ spc'[t] = spc[t]
        /\ \/ todo'[s] = Tail(todo[s]) /\ spc'[s] = "idle"
           \/ todo'[s] = todo[s] /\ spc'[s] = "again"
    BY <1>0, <1>2 DEF SendNow, SendDuplicate, Sends, Proceed, NextEvent, TypeOK
  <2>4. Gone(e)' /\ \A f \in Events : f # e => (Gone(f)' <=> Gone(f))
    BY <1>0, <2>1, <2>2, WriteFate
  <2>5. \A t \in Senders : (spc'[t] = "push") <=> (spc[t] = "push")
    BY <2>1, <2>3
  <2>6. \A f \in Events : Held(f)' <=> Held(f)
    BY <2>1, <2>5 DEF Held
  <2>7. /\ \A f \in Events : f # e => SameFate(f)
        /\ Routed(e)' /\ ~Held(e)'
    BY <2>2, <2>4, <2>6 DEF SameFate, Routed
  <2>8. \A t \in Senders : t # s => PlanRest(t)' /\ PlanKept(t)'
    BY <2>1, <2>2, <2>3, <2>7, OthersFrame
  <2>9. HeldOnce' /\ DueInTime'
    BY <1>0, <2>1, <2>5 DEF HeldOnce, DueInTime
  <2>10. CASE todo'[s] = Tail(todo[s]) /\ spc'[s] = "idle"
    <3>1. PlanRest(s)' /\ PlanKept(s)'
      BY <1>0, <2>1, <2>2, <2>7, <2>10, PlanAdvances
    <3> QED
      BY <1>0, <2>8, <2>9, <3>1 DEF RouteInv
  <2>11. CASE todo'[s] = todo[s] /\ spc'[s] = "again"
    <3>1. Sent(s)' = Sent(s) /\ Sent(s) \in Nat
      BY <1>0, <2>1, <2>11, NextInPlan DEF Sent
    <3>2. PlanRest(s)'
      BY <1>0, <2>11, <3>1 DEF PlanRest
    <3>3. ASSUME NEW m \in 1 .. Len(Plan[s])
          PROVE  /\ m <= Sent(s) => Routed(Plan[s][m])'
                 /\ m > Sent(s) + 1 => Untold(Plan[s][m])'
                 /\ m = Sent(s) + 1 => ~Held(Plan[s][m])' /\ Gone(Plan[s][m])'
      <4>1. PICK f \in Events : f = Plan[s][m]
        BY <1>0, PlanFacts
      <4>2. CASE m = Sent(s) + 1
        <5>1. f = e
          BY <1>0, <2>1, <2>2, <4>1, <4>2, NextInPlan
        <5> QED
          BY <2>4, <2>7, <3>1, <4>1, <4>2, <5>1
      <4>3. CASE m # Sent(s) + 1
        <5>1. f # e
          BY <2>2, <4>1, <4>3
        <5>2. SameFate(f)
          BY <2>7, <5>1
        <5>3. /\ m <= Sent(s) => Routed(f)
              /\ m > Sent(s) + 1 => Untold(f)
          BY <1>0, <4>1 DEF PlanKept
        <5>4. /\ m <= Sent(s) => Routed(f)'
              /\ m > Sent(s) + 1 => Untold(f)'
          BY <2>1, <5>2, <5>3 DEF SameFate, Routed, Untold
        <5> QED
          BY <4>1, <4>3, <5>4
      <4> QED
        BY <4>2, <4>3
    <3>4. PlanKept(s)'
      BY <2>11, <3>1, <3>3 DEF PlanKept
    <3> QED
      BY <1>0, <2>8, <2>9, <3>2, <3>4 DEF RouteInv
  <2> QED
    BY <2>3, <2>10, <2>11
<1>3. CASE SendDelayed(s)
  <2>1. /\ todo[s] # <<>> /\ spc[s] = "idle"
        /\ UNCHANGED <<now, cancelled, heap, due, topic, failed>>
    BY <1>3 DEF SendDelayed, Sends, topicVars
  <2>2. PICK e \in Events :
          /\ e = Head(todo[s]) /\ ~Held(e) /\ ~Gone(e)
          /\ \A t \in Senders : \A m \in 1 .. Len(Plan[t]) : Plan[t][m] = e => t = s
    BY <2>1, NextIsUntold
  <2>3. /\ todo'[s] = Tail(todo[s]) /\ spc'[s] = "push" /\ hold'[s].event = e
        /\ \A t \in Senders : t # s => todo'[t] = todo[t] /\ spc'[t] = spc[t]
                                       /\ hold'[t] = hold[t]
    BY <1>0, <1>3, <2>2 DEF SendDelayed, Proceed, NextEvent, TypeOK
  <2>4. \A f \in Events : Gone(f)' <=> Gone(f)
    BY <2>1 DEF Gone, Written
  <2>5. Held(e)' /\ \A f \in Events : f # e => (Held(f)' <=> Held(f))
    BY <2>1, <2>3 DEF Held
  <2>6. Routed(e)' /\ \A f \in Events : f # e => SameFate(f)
    BY <2>2, <2>4, <2>5 DEF SameFate, Routed
  <2>7. PlanRest(s)' /\ PlanKept(s)'
    BY <1>0, <2>1, <2>2, <2>3, <2>6, PlanAdvances
  <2>8. \A t \in Senders : t # s => PlanRest(t)' /\ PlanKept(t)'
    BY <2>1, <2>2, <2>3, <2>6, OthersFrame
  <2>9. /\ \A i \in heap \cup due : i.event # e
        /\ \A t \in Senders : spc[t] = "push" => hold[t].event # e
    BY <2>2 DEF Held
  <2>10. HeldOnce' /\ DueInTime'
    BY <1>0, <2>1, <2>3, <2>9 DEF HeldOnce, DueInTime
  <2> QED
    BY <1>0, <2>7, <2>8, <2>10 DEF RouteInv
<1>4. CASE Push(s) \/ Nudge(s)
  <2>1. /\ UNCHANGED <<now, cancelled, todo, due, topic, failed>>
        /\ \A t \in Senders : t # s => spc'[t] = spc[t] /\ hold'[t] = hold[t]
        /\ \/ /\ spc[s] = "push" /\ spc'[s] = "nudge" /\ heap' = heap \cup {hold[s]}
           \/ /\ spc[s] = "nudge" /\ spc'[s] = "idle" /\ heap' = heap
    BY <1>0, <1>4 DEF Push, Nudge, Proceed, topicVars, TypeOK
  <2>2. \A f \in Events : SameFate(f)
    BY <2>1 DEF SameFate, Held, Gone, Written
  <2>3. \A t \in Senders : (spc'[t] = "again") <=> (spc[t] = "again")
    BY <2>1
  <2>4. \A t \in Senders : PlanRest(t)' /\ PlanKept(t)'
    BY <1>0, <2>1, <2>2, <2>3, PlansFrame
  <2>5. HeldOnce' /\ DueInTime'
    BY <1>0, <2>1 DEF HeldOnce, DueInTime
  <2> QED
    BY <1>0, <2>4, <2>5 DEF RouteInv
<1> QED
  BY <1>1, <1>2, <1>3, <1>4 DEF Pushing

\* The worker keeps every event on one route.
LEMMA WorkerRoutes ==
    ASSUME RouteInv, Worker
    PROVE  RouteInv'
<1>0. /\ TypeOK /\ QueueInv /\ QueueInv' /\ HeldOnce /\ DueInTime
      /\ \A t \in Senders : PlanRest(t) /\ PlanKept(t)
  BY WorkerStep DEF RouteInv, QueueInv
<1>1. CASE SetTimer \/ SelectDone \/ SelectWake \/ WroteAll
  <2>1. UNCHANGED <<now, cancelled, todo, spc, hold, heap, due, topic, failed>>
    BY <1>1 DEF SetTimer, SelectDone, SelectWake, WroteAll, topicVars
  <2> QED
    BY <1>0, <2>1, QuietStep DEF HeldOnce, DueInTime
<1>2. CASE SelectTimer
  <2>1. /\ UNCHANGED <<now, cancelled, todo, spc, hold, topic, failed>>
        /\ due = {} /\ due' = popDue(now) /\ heap' = heap \ popDue(now)
    BY <1>0, <1>2 DEF SelectTimer, topicVars, TypeOK
  <2>2. /\ heap' \cup due' = heap \cup due /\ heap' \cap due' = {} /\ DueInTime'
    BY <2>1 DEF popDue, DueInTime
  <2> QED
    BY <1>0, <2>1, <2>2, QuietStep
<1>3. CASE WriteDue
  <2>1. PICK i \in due : write(i.event) /\ due' = due \ {i}
    BY <1>3 DEF WriteDue
  <2>2. PICK e \in Events : e = i.event
    BY <1>0 DEF Items, TypeOK
  <2>3. UNCHANGED <<now, cancelled, todo, spc, hold, heap>>
    BY <1>3 DEF WriteDue
  <2>4. Gone(e)' /\ \A f \in Events : f # e => (Gone(f)' <=> Gone(f))
    BY <1>0, <2>1, <2>2, WriteFate
  <2>5. Held(e) /\ ~Held(e)' /\ \A f \in Events : f # e => (Held(f)' <=> Held(f))
    <3>1. Held(e)
      BY <2>1, <2>2 DEF Held
    <3>2. ~Held(e)'
      BY <1>0, <2>1, <2>2, <2>3 DEF Held, HeldOnce
    <3>3. \A f \in Events : f # e => (Held(f)' <=> Held(f))
      BY <2>1, <2>2, <2>3 DEF Held
    <3> QED
      BY <3>1, <3>2, <3>3
  <2>6. Routed(e)' /\ \A f \in Events : f # e => SameFate(f)
    BY <2>4, <2>5 DEF SameFate, Routed
  <2>7. ASSUME NEW t \in Senders PROVE PlanRest(t)' /\ PlanKept(t)'
    <3>1. ASSUME NEW m \in 1 .. Len(Plan[t])
          PROVE  SameFate(Plan[t][m]) \/ (m <= Sent(t) /\ Routed(Plan[t][m])')
      <4>1. PICK f \in Events : f = Plan[t][m]
        BY <1>0, PlanFacts
      <4>2. CASE f # e
        BY <2>6, <4>1, <4>2
      <4>3. CASE f = e
        <5>1. ~(m > Sent(t) + 1) /\ m # Sent(t) + 1
          BY <1>0, <2>5, <4>1, <4>3 DEF PlanKept, Untold
        <5>2. Sent(t) \in Int
          BY <1>0, PlanFacts DEF Sent
        <5>3. m <= Sent(t)
          BY <5>1, <5>2
        <5> QED
          BY <2>6, <4>1, <4>3, <5>3
      <4> QED
        BY <4>2, <4>3
    <3> QED
      BY <1>0, <2>3, <3>1, PlanFrame
  <2>8. HeldOnce' /\ DueInTime'
    BY <1>0, <2>1, <2>3 DEF HeldOnce, DueInTime
  <2> QED
    BY <1>0, <2>7, <2>8 DEF RouteInv
<1> QED
  BY <1>1, <1>2, <1>3 DEF Worker

\* The initial state: everything is still to be sent.
LEMMA InitRouteInv == Init => RouteInv
<1> SUFFICES ASSUME Init PROVE RouteInv
  OBVIOUS
<1>1. QueueInv /\ TypeOK
  BY InitQueueInv DEF QueueInv
<1>2. ASSUME NEW s \in Senders PROVE PlanRest(s) /\ PlanKept(s)
  <2>1. Sent(s) = 0 /\ todo[s] = Plan[s] /\ spc[s] = "idle"
    BY <1>1, PlanFacts DEF Init, Sent
  <2>2. \A f \in Events : Untold(f)
    BY DEF Init, Untold, Held, Gone, Written
  <2>3. PlanRest(s)
    BY <1>1, <2>1, PlanFacts DEF PlanRest
  <2>4. PlanKept(s)
    BY <1>1, <2>1, <2>2, PlanFacts DEF PlanKept
  <2> QED
    BY <2>3, <2>4
<1>3. HeldOnce /\ DueInTime
  BY DEF Init, HeldOnce, DueInTime
<1> QED
  BY <1>1, <1>2, <1>3 DEF RouteInv

\* Every step keeps the invariant.
LEMMA NextRouteInv == RouteInv /\ [Next]_vars => RouteInv'
<1> SUFFICES ASSUME RouteInv, [Next]_vars PROVE RouteInv'
  OBVIOUS
<1>0. TypeOK /\ QueueInv' /\ HeldOnce /\ DueInTime
  BY NextQueueInv DEF RouteInv, QueueInv
<1>1. CASE Tick \/ Cancel \/ UNCHANGED vars
  <2>1. /\ UNCHANGED <<todo, spc, hold, heap, due, topic, failed>>
        /\ cancelled => cancelled'
        /\ now' = now \/ now' = now + 1
    BY <1>1 DEF Tick, Cancel, vars, queueVars, topicVars
  <2>2. DueInTime'
    BY <1>0, <2>1 DEF DueInTime, Items, TypeOK
  <2> QED
    BY <1>0, <2>1, <2>2, QuietStep DEF HeldOnce
<1> QED
  BY <1>1, SenderRoutes, WorkerRoutes DEF Next, Idle

\* The invariant behind the two theorems that follow holds throughout.
THEOREM RouteInvariant == Spec => []RouteInv
BY InitRouteInv, NextRouteInv, PTL DEF Spec

\* Send delivers every event by exactly one route: what is held back was not
\* written, and what was sent is held, written or accounted for (Send, push
\* and worker).
THEOREM SendsOneWay == Spec => []OneRoute
<1>1. RouteInv => OneRoute
  <2> SUFFICES ASSUME RouteInv, NEW s \in Senders, NEW m \in 1 .. Len(Plan[s]) - Len(todo[s])
               PROVE  /\ Held(Plan[s][m]) => ~Written(Plan[s][m]) /\ Plan[s][m] \notin failed
                      /\ Held(Plan[s][m]) \/ Written(Plan[s][m]) \/ Plan[s][m] \in failed
                         \/ cancelled
    BY DEF OneRoute
  <2>1. TypeOK /\ PlanKept(s)
    BY DEF RouteInv, QueueInv
  <2>2. m \in 1 .. Len(Plan[s]) /\ m <= Sent(s)
    <3>1. PICK a, b \in Nat : a = Len(Plan[s]) /\ b = Len(todo[s])
      BY <2>1, PlanFacts
    <3>2. m \in 1 .. a - b
      BY <3>1
    <3> QED
      BY <3>1, <3>2 DEF Sent
  <2> QED
    BY <2>1, <2>2 DEF PlanKept, Routed, Gone
<1> QED
  BY <1>1, RouteInvariant, PTL

\* An event that is held back is not written before it is due (popDue).
THEOREM NeverReleasedEarly == Spec => HeldUntilDue
<1>1. ASSUME RouteInv, [Next]_vars, NEW i \in heap \cup due,
             ~Written(i.event), Written(i.event)'
      PROVE  i.fireAt <= now
  <2>0. TypeOK /\ HeldOnce /\ DueInTime /\ \A s \in Senders : SenderInv(s)
    BY <1>1 DEF RouteInv, QueueInv
  <2>1. PICK e \in Events : e = i.event /\ Held(e) /\ ~Written(e) /\ Written(e)'
    BY <1>1, <2>0 DEF Items, TypeOK, Held
  <2>2. topic' # topic
    BY <2>1 DEF Written
  <2>3. ASSUME NEW s \in Senders, SendNow(s) \/ SendDuplicate(s) PROVE FALSE
    <3>1. todo[s] # <<>> /\ write(Head(todo[s]))
      BY <2>0, <2>3 DEF SendNow, SendDuplicate, Sends, SenderInv
    <3>2. PICK f \in Events : f = Head(todo[s]) /\ ~Held(f)
      BY <1>1, <3>1, NextIsUntold
    <3> QED
      BY <2>0, <2>1, <3>1, <3>2, WriteFate
  <2>4. ASSUME WriteDue PROVE i.fireAt <= now
    <3>1. PICK j \in due : write(j.event)
      BY <2>4 DEF WriteDue
    <3>2. j.event \in Events
      BY <2>0 DEF Items, TypeOK
    <3>3. e = j.event
      BY <2>0, <2>1, <3>1, <3>2, WriteFate
    <3>4. i = j
      BY <2>0, <2>1, <3>3 DEF HeldOnce
    <3> QED
      BY <2>0, <3>4 DEF DueInTime
  <2>5. ASSUME NEW s \in Senders, SendReturns(s) \/ SendDelayed(s) \/ Pushing(s)
        PROVE  topic' = topic
    BY <2>5 DEF SendReturns, SendDelayed, Pushing, Push, Nudge, topicVars
  <2>6. SetTimer \/ SelectDone \/ SelectWake \/ SelectTimer \/ WroteAll \/ Tick
        \/ Cancel \/ UNCHANGED vars => topic' = topic
    BY DEF SetTimer, SelectDone, SelectWake, SelectTimer, WroteAll, Tick, Cancel,
       vars, topicVars
  <2> QED
    BY <1>1, <2>2, <2>3, <2>4, <2>5, <2>6 DEF Next, Worker, Idle
<1>2. RouteInv /\ [Next]_vars =>
        \A i \in heap \cup due : ~Written(i.event) /\ Written(i.event)' => i.fireAt <= now
  BY <1>1
<1> QED
  BY <1>2, RouteInvariant, PTL DEF Spec, HeldUntilDue
=============================================================================
