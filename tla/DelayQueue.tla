----------------------------- MODULE DelayQueue -----------------------------
(***************************************************************************)
(* The simulator's producer: Send with its duplicate and out-of-order      *)
(* hooks (simulator/producer.go), and the delay queue that holds the       *)
(* out-of-order events back (simulator/delayqueue.go).                     *)
(*                                                                         *)
(* The senders are the station-group goroutines.  They share one heap      *)
(* under a mutex, a wake channel of capacity one and one worker goroutine, *)
(* which the first delayed event starts.  push is two steps, the heap      *)
(* under the lock and then the wake signal; the worker's loop is two,      *)
(* setting the timer from the heap and then the select.                    *)
(*                                                                         *)
(* Time is a counter.  The metrics are left out.                           *)
(***************************************************************************)
EXTENDS Naturals, Sequences

CONSTANTS
    Senders,    \* goroutines that call Send
    Plan,       \* Plan[s]: the events s sends, in order
    Delays,     \* the delays an event may be held back for
    Never,      \* the timer when it is stopped
    None,       \* no item in hand
    MaxTime,    \* bound on the clock
    MaxFaults   \* bound on failed writes while the context is live

Events == UNION {{Plan[s][i] : i \in 1 .. Len(Plan[s])} : s \in Senders}

Items == [event : Events, fireAt : 0 .. MaxTime]

ASSUME BoundsAssumption ==
    /\ MaxTime \in Nat /\ MaxFaults \in Nat
    /\ Delays \subseteq Nat \ {0}
    /\ Never \notin Nat /\ None \notin Items

\* Every event has an id of its own (uuid.NewString).
ASSUME PlanAssumption ==
    /\ Plan \in [Senders -> Seq(Events)]
    /\ \A s, t \in Senders : \A i \in 1 .. Len(Plan[s]) : \A j \in 1 .. Len(Plan[t]) :
         Plan[s][i] = Plan[t][j] => s = t /\ i = j

VARIABLES
    now,        \* the clock
    cancelled,  \* the simulation's context is cancelled
    todo,       \* todo[s]: the events s has yet to send
    spc,        \* spc[s]: where s stands in Send and push
    hold,       \* hold[s]: the item s is about to push
    heap,       \* the items on the heap
    wake,       \* the wake channel holds a signal
    wpc,        \* where the worker stands; "unborn" before workerOnce
    timer,      \* when the worker's timer fires, or Never
    due,        \* the items popDue returned that are not written yet
    topic,      \* the raw topic, in write order
    failed,     \* history: events of a failed write
    faults      \* failed writes so far

queueVars == <<heap, wake, wpc, timer, due>>
topicVars == <<topic, failed, faults>>
vars == <<now, cancelled, todo, spc, hold, queueVars, topicVars>>

TypeOK ==
    /\ now \in 0 .. MaxTime
    /\ cancelled \in BOOLEAN
    /\ todo \in [Senders -> Seq(Events)]
    /\ spc \in [Senders -> {"idle", "again", "push", "nudge"}]
    /\ hold \in [Senders -> Items \cup {None}]
    /\ heap \subseteq Items
    /\ wake \in BOOLEAN
    /\ wpc \in {"unborn", "loop", "select", "write", "done"}
    /\ timer \in 0 .. MaxTime \cup {Never}
    /\ due \subseteq Items
    /\ topic \in Seq(Events)
    /\ failed \subseteq Events
    /\ faults \in 0 .. MaxFaults
    /\ wpc = "unborn" => heap = {}
    /\ due # {} => wpc = "write"

Init ==
    /\ now = 0
    /\ cancelled = FALSE
    /\ todo = Plan
    /\ spc = [s \in Senders |-> "idle"]
    /\ hold = [s \in Senders |-> None]
    /\ heap = {}
    /\ wake = FALSE
    /\ wpc = "unborn"
    /\ timer = Never
    /\ due = {}
    /\ topic = <<>>
    /\ failed = {}
    /\ faults = 0

----------------------------------------------------------------------------
(* simulator/producer.go *)

\* One WriteMessages call.  It may fail, and is likely to once the context is
\* cancelled: the error is counted and the event is gone.
write(e) ==
    \/ /\ topic' = Append(topic, e)
       /\ UNCHANGED <<failed, faults>>
    \/ /\ cancelled \/ faults < MaxFaults
       /\ failed' = failed \cup {e}
       /\ faults' = IF cancelled THEN faults ELSE faults + 1
       /\ UNCHANGED topic

\* s is about to send.
Sends(s) == spc[s] = "idle" /\ todo[s] # <<>>

Proceed(s, step) == spc' = [spc EXCEPT ![s] = step]
NextEvent(s) == todo' = [todo EXCEPT ![s] = Tail(@)]

\* The cancelled context ends the limiter's wait, and later the group's loop.
SendReturns(s) ==
    /\ Sends(s)
    /\ cancelled
    /\ NextEvent(s)
    /\ UNCHANGED <<now, cancelled, spc, hold, queueVars, topicVars>>

\* Send writes the event; the duplicate hook may send it a second time.
SendNow(s) ==
    /\ Sends(s)
    /\ write(Head(todo[s]))
    /\ \/ Proceed(s, "again") /\ UNCHANGED todo
       \/ NextEvent(s) /\ UNCHANGED spc
    /\ UNCHANGED <<now, cancelled, hold, queueVars>>

SendDuplicate(s) ==
    /\ spc[s] = "again"
    /\ write(Head(todo[s]))
    /\ Proceed(s, "idle")
    /\ NextEvent(s)
    /\ UNCHANGED <<now, cancelled, hold, queueVars>>

\* Mutated: the out-of-order hook goes on to the write.
SendDelayedAndNow(s) ==
    /\ Sends(s)
    /\ \E d \in Delays :
         /\ now + d <= MaxTime
         /\ hold' = [hold EXCEPT ![s] = [event |-> Head(todo[s]), fireAt |-> now + d]]
    /\ wpc' = IF wpc = "unborn" THEN "loop" ELSE wpc
    /\ write(Head(todo[s]))
    /\ Proceed(s, "push")
    /\ NextEvent(s)
    /\ UNCHANGED <<now, cancelled, heap, wake, timer, due>>

\* Mutated: nothing starts the worker.
SendDelayedNoWorker(s) ==
    /\ Sends(s)
    /\ \E d \in Delays :
         /\ now + d <= MaxTime
         /\ hold' = [hold EXCEPT ![s] = [event |-> Head(todo[s]), fireAt |-> now + d]]
    /\ Proceed(s, "push")
    /\ NextEvent(s)
    /\ UNCHANGED <<now, cancelled, queueVars, topicVars>>

\* The out-of-order hook: the first one starts the worker, then the event is
\* stamped with the time it is due and handed to push.
SendDelayed(s) ==
    /\ Sends(s)
    /\ \E d \in Delays :
         /\ now + d <= MaxTime
         /\ hold' = [hold EXCEPT ![s] = [event |-> Head(todo[s]), fireAt |-> now + d]]
    /\ wpc' = IF wpc = "unborn" THEN "loop" ELSE wpc
    /\ Proceed(s, "push")
    /\ NextEvent(s)
    /\ UNCHANGED <<now, cancelled, heap, wake, timer, due, topicVars>>

----------------------------------------------------------------------------
(* simulator/delayqueue.go *)

\* push, under the lock.
Push(s) ==
    /\ spc[s] = "push"
    /\ heap' = heap \cup {hold[s]}
    /\ Proceed(s, "nudge")
    /\ UNCHANGED <<now, cancelled, todo, hold, wake, wpc, timer, due, topicVars>>

\* Mutated: only the first item of the heap wakes the worker.
NudgeFirst(s) ==
    /\ spc[s] = "nudge"
    /\ wake' = (wake \/ heap = {hold[s]})
    /\ hold' = [hold EXCEPT ![s] = None]
    /\ Proceed(s, "idle")
    /\ UNCHANGED <<now, cancelled, todo, heap, wpc, timer, due, topicVars>>

\* Mutated: no signal.
NudgeLost(s) ==
    /\ spc[s] = "nudge"
    /\ hold' = [hold EXCEPT ![s] = None]
    /\ Proceed(s, "idle")
    /\ UNCHANGED <<now, cancelled, todo, queueVars, topicVars>>

\* push, after the lock: a signal, unless the channel holds one already.
Nudge(s) ==
    /\ spc[s] = "nudge"
    /\ wake' = TRUE
    /\ hold' = [hold EXCEPT ![s] = None]
    /\ Proceed(s, "idle")
    /\ UNCHANGED <<now, cancelled, todo, heap, wpc, timer, due, topicVars>>

\* The earliest deadline of the heap, if it has one.
nextDeadline(d) ==
    IF heap = {} THEN d = Never
    ELSE \E i \in heap : d = i.fireAt /\ \A j \in heap : i.fireAt <= j.fireAt

\* The top of the worker's loop: the timer is set, or stopped.
SetTimer ==
    /\ wpc = "loop"
    /\ timer' \in {i.fireAt : i \in heap} \cup {Never}
    /\ nextDeadline(timer')
    /\ wpc' = "select"
    /\ UNCHANGED <<now, cancelled, todo, spc, hold, heap, wake, due, topicVars>>

SelectDone ==
    /\ wpc = "select"
    /\ cancelled
    /\ wpc' = "done"
    /\ UNCHANGED <<now, cancelled, todo, spc, hold, heap, wake, timer, due, topicVars>>

SelectWake ==
    /\ wpc = "select"
    /\ wake
    /\ wake' = FALSE
    /\ wpc' = "loop"
    /\ UNCHANGED <<now, cancelled, todo, spc, hold, heap, timer, due, topicVars>>

\* Mutated: everything on the heap is released when the timer fires.
popAll(t) == heap

\* The items due at time t.
popDue(t) == {i \in heap : i.fireAt <= t}

SelectTimer ==
    /\ wpc = "select"
    /\ timer # Never
    /\ timer <= now
    /\ due' = popDue(now)
    /\ heap' = heap \ popDue(now)
    /\ timer' = Never
    /\ wpc' = "write"
    /\ UNCHANGED <<now, cancelled, todo, spc, hold, wake, topicVars>>

\* The worker writes what it popped, earliest first, and loops.
WriteDue ==
    /\ wpc = "write"
    /\ \E i \in due :
         /\ \A j \in due : i.fireAt <= j.fireAt
         /\ write(i.event)
         /\ due' = due \ {i}
    /\ UNCHANGED <<now, cancelled, todo, spc, hold, heap, wake, wpc, timer>>

WroteAll ==
    /\ wpc = "write"
    /\ due = {}
    /\ wpc' = "loop"
    /\ UNCHANGED <<now, cancelled, todo, spc, hold, heap, wake, timer, due, topicVars>>

----------------------------------------------------------------------------

Tick ==
    /\ now < MaxTime
    /\ now' = now + 1
    /\ UNCHANGED <<cancelled, todo, spc, hold, queueVars, topicVars>>

\* SIGINT or SIGTERM.
Cancel ==
    /\ ~cancelled
    /\ cancelled' = TRUE
    /\ UNCHANGED <<now, todo, spc, hold, queueVars, topicVars>>

\* Nothing is left to send or to release.
Idle ==
    /\ \A s \in Senders : todo[s] = <<>> /\ spc[s] = "idle"
    /\ heap \cup due = {} \/ cancelled
    /\ UNCHANGED vars

Pushing(s) == Push(s) \/ Nudge(s)

Worker == SetTimer \/ SelectDone \/ SelectWake \/ SelectTimer \/ WriteDue \/ WroteAll

Next ==
    \/ \E s \in Senders :
         SendReturns(s) \/ SendNow(s) \/ SendDuplicate(s) \/ SendDelayed(s) \/ Pushing(s)
    \/ Worker
    \/ Tick
    \/ Cancel
    \/ Idle

\* Goroutines are scheduled and time passes; nobody has to send.
Fairness ==
    /\ \A s \in Senders : WF_vars(Pushing(s))
    /\ WF_vars(Worker)
    /\ WF_vars(Tick)

Spec == Init /\ [][Next]_vars

FairSpec == Spec /\ Fairness

----------------------------------------------------------------------------
(* Properties *)

\* e is held back: by a sender that has not pushed it, on the heap, or popped.
Held(e) ==
    \/ \E s \in Senders : spc[s] = "push" /\ hold[s].event = e
    \/ \E i \in heap \cup due : i.event = e

Written(e) == \E i \in 1 .. Len(topic) : topic[i] = e

\* "a coalesced signal is enough" (push): once every push has signalled and the
\* worker has taken the signal, its timer fires no later than the earliest item
\* on the heap, however pushes and the worker's loop interleave.
NeverOversleeps ==
    wpc = "select" /\ ~wake /\ (\A s \in Senders : spc[s] # "nudge") =>
        \A i \in heap : timer # Never /\ timer <= i.fireAt

\* Send delivers an event by exactly one route: an event that is held back was
\* not written before, and an event that was sent is held back, written, or
\* lost to a failed write or to the shutdown.
OneRoute ==
    \A s \in Senders : \A n \in 1 .. Len(Plan[s]) - Len(todo[s]) :
        LET e == Plan[s][n] IN
        /\ Held(e) => ~Written(e) /\ e \notin failed
        /\ Held(e) \/ Written(e) \/ e \in failed \/ cancelled

\* An event that is held back is not written before it is due (delayqueue.go,
\* popDue), so the events sent meanwhile do overtake it.
HeldUntilDue ==
    [][\A i \in heap \cup due :
         ~Written(i.event) /\ Written(i.event)' => i.fireAt <= now]_vars

\* No wake-up is lost: an event that is held back is written or fails, unless
\* the simulation is cancelled, which drops what is pending (worker).
EventuallyReleased ==
    \A e \in Events : Held(e) ~> (Written(e) \/ e \in failed \/ cancelled)

=============================================================================
