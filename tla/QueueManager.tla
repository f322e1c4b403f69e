---------------------------- MODULE QueueManager ----------------------------
(***************************************************************************)
(* One of the two channels of Core/queue_manager.{hpp,cpp}: a              *)
(* moodycamel::ConcurrentQueue, an atomic item counter kept beside it, and *)
(* a mutex with a condition variable that only consumers ever lock.  The   *)
(* raw channel (camera -> workers) and the result channel (workers ->      *)
(* group manager) are the same code twice, so one module stands for both.  *)
(*                                                                         *)
(* Producers and consumers are the threads that call it: a producer pushes *)
(* until it is told to halt or is refused, a consumer runs the loop of     *)
(* DetectThread::run / GroupManager::run around popBlocking.  The owner is *)
(* Scheduler::stop / start as the channel sees it.                         *)
(***************************************************************************)
EXTENDS Naturals, FiniteSets

CONSTANTS
    Producers, Consumers,   \* threads
    NoThread,               \* the mutex is free
    NoItem,                 \* the out-parameter of a pop that found nothing
    MaxPushes,              \* bound: pushes of one producer in one task
    MaxTasks,               \* bound: start/stop cycles of the scheduler
    CounterMax,             \* what the unsigned counter holds after 0 - 1
    Timed                   \* TRUE: timeout_ms >= 0; FALSE: the default, -1

ASSUME ThreadAssumption ==
    /\ NoThread \notin Consumers
    /\ IsFiniteSet(Producers) /\ IsFiniteSet(Consumers)

ASSUME BoundAssumption ==
    /\ MaxPushes \in Nat /\ MaxTasks \in Nat /\ CounterMax \in Nat
    /\ Timed \in BOOLEAN

\* What a push carries, identified by the task, its producer and its rank.
Items == [task : Nat, from : Producers, rank : Nat]

ASSUME NoItemAssumption == NoItem \notin Items

VARIABLES
    queue,      \* the items inside the ConcurrentQueue
    count,      \* mRawCount / mResultCount
    stopped,    \* mStopped
    holder,     \* who holds mRawMutex / mResultMutex
    ppc, cpc,   \* where each producer and each consumer is
    late,       \* consumers whose popBlocking deadline has passed
    taken,      \* the item a consumer dequeued and has not yet returned with
    sent,       \* number of pushes of each producer in this task
    got,        \* items handed to the callers in this task, a history variable
    opc,        \* where the owner is in the scheduler's life cycle
    task        \* number of this task

vars == <<queue, count, stopped, holder, ppc, cpc, late, taken, sent, got, opc, task>>

ProducerStates == {"idle", "enqueue", "count", "notify", "done"}
ConsumerStates == {"ready", "lock", "loop", "wait", "block", "asleep", "woken",
                   "retry", "last", "took", "empty", "done"}
OwnerStates == {"up", "halted", "stopping", "joining", "down"}

TypeOK ==
    /\ queue \subseteq Items
    /\ IsFiniteSet(queue)
    /\ count \in Nat
    /\ stopped \in BOOLEAN
    /\ holder \in Consumers \cup {NoThread}
    /\ ppc \in [Producers -> ProducerStates]
    /\ cpc \in [Consumers -> ConsumerStates]
    /\ late \subseteq Consumers
    /\ taken \in [Consumers -> Items \cup {NoItem}]
    /\ sent \in [Producers -> Nat]
    /\ got \subseteq Items
    /\ opc \in OwnerStates
    /\ task \in Nat

Init ==
    /\ queue = {}
    /\ count = 0
    /\ stopped = FALSE
    /\ holder = NoThread
    /\ ppc = [p \in Producers |-> "idle"]
    /\ cpc = [c \in Consumers |-> "ready"]
    /\ late = {}
    /\ taken = [c \in Consumers |-> NoItem]
    /\ sent = [p \in Producers |-> 0]
    /\ got = {}
    /\ opc = "up"
    /\ task = 1

-----------------------------------------------------------------------------
(* Faulty variants of the code below, for checking that the properties     *)
(* notice them: the decrement without its guard (as a number, and as the   *)
(* unsigned integer it is), the decrement done both by tryPop and by its   *)
(* caller, a wait without its deadline, a loop that ends at the first      *)
(* empty pop, a teardown that does not join the producers.                 *)

DecrementUnguarded(n) == n - 1
DecrementWrapping(n) == IF n = 0 THEN CounterMax ELSE n - 1
DecrementTwice(n) == IF n > 1 THEN n - 2 ELSE 0
TimeoutWakeNever(c) == FALSE
AfterEmptyBreaks(c) ==
    /\ cpc[c] = "empty" /\ cpc' = [cpc EXCEPT ![c] = "done"]
    /\ UNCHANGED <<queue, count, stopped, holder, ppc, late, taken, sent, got, opc, task>>
ConsumersJoined == \A c \in Consumers : cpc[c] = "done"

-----------------------------------------------------------------------------
(* push: a stopped() check, enqueue, fetch_add, notify_one; no lock.  A    *)
(* producer told to halt may still have one push to make (a frame it has   *)
(* already snapped, a result it has just computed).                        *)

PAt(p, from, to) == ppc[p] = from /\ ppc' = [ppc EXCEPT ![p] = to]

PushCheck(p) ==
    /\ sent[p] < MaxPushes
    /\ PAt(p, "idle", IF stopped THEN "done" ELSE "enqueue")
    /\ UNCHANGED <<queue, count, stopped, holder, cpc, late, taken, sent, got, opc, task>>

Enqueue(p) ==
    /\ PAt(p, "enqueue", "count")
    /\ queue' = queue \cup {[task |-> task, from |-> p, rank |-> sent[p]]}
    /\ sent' = [sent EXCEPT ![p] = @ + 1]
    /\ UNCHANGED <<count, stopped, holder, cpc, late, taken, got, opc, task>>

AddCount(p) ==
    /\ PAt(p, "count", "notify")
    /\ count' = count + 1
    /\ UNCHANGED <<queue, stopped, holder, cpc, late, taken, sent, got, opc, task>>

Asleep == {c \in Consumers : cpc[c] = "asleep"}

\* A notified thread leaves the wait set; it still has to get the mutex back.
NotifyOne(p) ==
    /\ PAt(p, "notify", "idle")
    /\ \/ \E c \in Asleep : cpc' = [cpc EXCEPT ![c] = "woken"]
       \/ Asleep = {} /\ cpc' = cpc
    /\ UNCHANGED <<queue, count, stopped, holder, late, taken, sent, got, opc, task>>

\* The producer's own loop ends once its owner halted it.
ProducerExit(p) ==
    /\ opc # "up"
    /\ PAt(p, "idle", "done")
    /\ UNCHANGED <<queue, count, stopped, holder, cpc, late, taken, sent, got, opc, task>>

Producer(p) ==
    \/ PushCheck(p) \/ Enqueue(p) \/ AddCount(p) \/ NotifyOne(p) \/ ProducerExit(p)

-----------------------------------------------------------------------------
(* tryPop: a dequeue and, in a separate step, the guarded decrement.       *)

CAt(c, from, to) == cpc[c] = from /\ cpc' = [cpc EXCEPT ![c] = to]

\* ConcurrentQueue keeps one FIFO stream per producer and promises no order
\* between them: a dequeue may take the oldest item of any stream.
Oldest == {i \in queue : \A j \in queue : j.from = i.from => i.rank <= j.rank}

Dequeue(c, from) ==
    /\ CAt(c, from, "took")
    /\ \E i \in Oldest : queue' = queue \ {i} /\ taken' = [taken EXCEPT ![c] = i]
    /\ UNCHANGED <<count, stopped, holder, ppc, late, sent, got, opc, task>>

\* The compare-exchange loop, as one step: it leaves a zero counter alone.
Decrement(n) == IF n > 0 THEN n - 1 ELSE n

Unlock(c) == holder' = IF holder = c THEN NoThread ELSE holder

\* The end of tryPop and of popBlocking: the item is the caller's.
ReturnItem(c) ==
    /\ CAt(c, "took", "ready")
    /\ count' = Decrement(count)
    /\ got' = got \cup {taken[c]}
    /\ taken' = [taken EXCEPT ![c] = NoItem]
    /\ late' = late \ {c}
    /\ Unlock(c)
    /\ UNCHANGED <<queue, stopped, ppc, sent, opc, task>>

ReturnNothing(c, from) ==
    /\ CAt(c, from, "empty")
    /\ late' = late \ {c}
    /\ Unlock(c)
    /\ UNCHANGED <<queue, count, stopped, ppc, taken, sent, got, opc, task>>

-----------------------------------------------------------------------------
(* popBlocking and the loop of its caller.                                 *)

Move(c, from, to) ==
    /\ CAt(c, from, to)
    /\ UNCHANGED <<queue, count, stopped, holder, ppc, late, taken, sent, got, opc, task>>

Acquire(c, from, to) ==
    /\ holder = NoThread
    /\ holder' = c
    /\ CAt(c, from, to)
    /\ UNCHANGED <<queue, count, stopped, ppc, late, taken, sent, got, opc, task>>

FastPop(c)  == Dequeue(c, "ready")
FastMiss(c) == queue = {} /\ Move(c, "ready", "lock")
LockMutex(c) == Acquire(c, "lock", "loop")

\* while (!stopped())
LoopTest(c) == Move(c, "loop", IF stopped THEN "last" ELSE "wait")

Ready == stopped \/ count > 0

\* The predicate of wait / wait_until, evaluated under the mutex.
WaitTest(c) ==
    Move(c, "wait", IF Ready THEN "retry" ELSE IF c \in late THEN "last" ELSE "block")

\* Atomically gives the mutex up and joins the wait set.  Nothing keeps a
\* producer, or stop(), from having notified since the predicate was read.
Block(c) ==
    /\ CAt(c, "block", "asleep")
    /\ holder' = NoThread
    /\ UNCHANGED <<queue, count, stopped, ppc, late, taken, sent, got, opc, task>>

\* The condition variable may wake a thread for no reason.
SpuriousWake(c) == Move(c, "asleep", "woken")
TimeoutWake(c)  == c \in late /\ Move(c, "asleep", "woken")
Rewait(c)       == Acquire(c, "woken", "wait")

RetryPop(c) == Dequeue(c, "retry")
RetryMissReturns(c) ==      \* mutant: no second wait when another consumer was faster
    queue = {} /\ ReturnNothing(c, "retry")
RetryMiss(c) ==
    /\ queue = {}
    /\ IF c \in late THEN ReturnNothing(c, "retry") ELSE Move(c, "retry", "loop")

LastPop(c)  == Dequeue(c, "last")
LastMiss(c) == queue = {} /\ ReturnNothing(c, "last")

\* The steady clock passes the deadline set before the first wait.
Deadline(c) ==
    /\ Timed
    /\ c \notin late
    /\ cpc[c] \in {"loop", "wait", "block", "asleep", "woken", "retry"}
    /\ late' = late \cup {c}
    /\ UNCHANGED <<queue, count, stopped, holder, ppc, cpc, taken, sent, got, opc, task>>

\* The caller: after an empty pop `if (stopped()) break; continue;`, and
\* `while (mRunning)` before every call.
AfterEmpty(c)   == Move(c, "empty", IF stopped THEN "done" ELSE "ready")
ConsumerExit(c) == opc # "up" /\ Move(c, "ready", "done")

ConsumerRun(c) ==
    \/ FastPop(c) \/ FastMiss(c) \/ LockMutex(c) \/ LoopTest(c) \/ WaitTest(c)
    \/ Block(c) \/ TimeoutWake(c) \/ Rewait(c) \/ RetryPop(c) \/ RetryMiss(c)
    \/ LastPop(c) \/ LastMiss(c) \/ ReturnItem(c) \/ AfterEmpty(c)
    \/ ConsumerExit(c)

Consumer(c) == ConsumerRun(c) \/ Deadline(c) \/ SpuriousWake(c)

-----------------------------------------------------------------------------
(* The owner: Scheduler::stop halts the threads, stops the queue, joins    *)
(* the threads and clears the channel; Scheduler::start opens it again.    *)

OAt(from, to) == opc = from /\ opc' = to

Halt ==
    /\ OAt("up", "halted")
    /\ UNCHANGED <<queue, count, stopped, holder, ppc, cpc, late, taken, sent, got, task>>

StopStore ==
    /\ OAt("halted", "stopping")
    /\ stopped' = TRUE
    /\ UNCHANGED <<queue, count, holder, ppc, cpc, late, taken, sent, got, task>>

StopNotifyAll ==
    /\ OAt("stopping", "joining")
    /\ cpc' = [c \in Consumers |-> IF c \in Asleep THEN "woken" ELSE cpc[c]]
    /\ UNCHANGED <<queue, count, stopped, holder, ppc, late, taken, sent, got, task>>

AllJoined ==
    /\ \A p \in Producers : ppc[p] = "done"
    /\ \A c \in Consumers : cpc[c] = "done"

\* Drains the queue, then stores 0.
Clear ==
    /\ AllJoined
    /\ OAt("joining", "down")
    /\ queue' = {}
    /\ count' = 0
    /\ UNCHANGED <<stopped, holder, ppc, cpc, late, taken, sent, got, task>>

Start ==
    /\ task < MaxTasks
    /\ OAt("down", "up")
    /\ stopped' = FALSE
    /\ ppc' = [p \in Producers |-> "idle"]
    /\ cpc' = [c \in Consumers |-> "ready"]
    /\ sent' = [p \in Producers |-> 0]
    /\ got' = {}
    /\ task' = task + 1
    /\ UNCHANGED <<queue, count, holder, late, taken>>

Owner == Halt \/ StopStore \/ StopNotifyAll \/ Clear \/ Start

Finished == task = MaxTasks /\ opc = "down" /\ UNCHANGED vars

Next ==
    \/ \E p \in Producers : Producer(p)
    \/ \E c \in Consumers : Consumer(c)
    \/ Owner
    \/ Finished

\* Every thread keeps running and the clock keeps advancing; when to halt a
\* task is the operator's choice, but a stop once begun is carried through.
Fairness ==
    /\ \A p \in Producers : WF_vars(Producer(p))
    /\ \A c \in Consumers : WF_vars(ConsumerRun(c)) /\ WF_vars(Deadline(c))
    /\ WF_vars(StopStore) /\ WF_vars(StopNotifyAll) /\ WF_vars(Clear)

Spec == Init /\ [][Next]_vars
FairSpec == Spec /\ Fairness

-----------------------------------------------------------------------------
(* Properties.                                                             *)

Between(p) == ppc[p] = "count"      \* enqueued, fetch_add still to come
Popping(c) == cpc[c] = "took"       \* dequeued, decrement still to come

\* The counter never promises less than the queue holds: what producers still
\* have to add covers every queued item and every decrement still to come.
CounterCoversQueue ==
    Cardinality(queue) + Cardinality({c \in Consumers : Popping(c)})
        <= count + Cardinality({p \in Producers : Between(p)})

\* No item is stranded behind a zero counter: once no producer is between its
\* enqueue and its fetch_add, a non-empty queue makes the wait predicate `ready`
\* of popRawBlocking / popResultBlocking true.
NoStrandedItem ==
    queue # {} => count > 0 \/ \E p \in Producers : Between(p)

\* The unsigned counter never wraps, although a consumer may dequeue an item
\* before its producer counted it (the guard of tryPop, queue_manager.cpp:42-51).
CounterNeverWraps == count <= MaxPushes * Cardinality(Producers)

\* The first item of a producer's stream that is still in the queue.
PoppedOf(p) ==
    IF \E i \in Oldest : i.from = p THEN (CHOOSE i \in Oldest : i.from = p).rank
    ELSE sent[p]

Channel == INSTANCE ItemChannel WITH
    life   <- IF opc = "down" THEN "cleared" ELSE IF stopped THEN "stopped" ELSE "open",
    pushed <- sent,
    popped <- [p \in Producers |-> PoppedOf(p)],
    hand   <- taken,
    handed <- got,
    empty  <- {c \in Consumers : cpc[c] = "empty"}

\* The queue, its counter and the waiting under the mutex are, to the threads, a
\* channel of one stream per producer: nothing is lost, popped twice or out of the
\* producer's order, and a pop fails only on an empty channel, after its deadline or
\* the stop (pushRaw, popRawBlocking and their result counterparts).
ChannelDelivers == Channel!Spec

\* A task sees only its own frames and results: Scheduler::stop clears the
\* channel only after every thread is joined, so nothing that a late push left
\* behind reaches the threads of the next task.
TaskIsolation ==
    /\ \A i \in queue : i.task = task
    /\ \A c \in Consumers : taken[c] # NoItem => taken[c].task = task
    /\ \A i \in got : i.task = task

\* What the comment at queue_manager.hpp:19-21 says: with the counters, the
\* predicate cannot lose a notification.  When every consumer sleeps on a true
\* predicate, a notification is still on its way.
NoLostNotification ==
    Asleep = Consumers /\ Ready =>
        \/ \E p \in Producers : ppc[p] = "notify"
        \/ opc = "stopping"

\* What the comment at queue_manager.cpp:42-43 says: all mutations go through
\* QueueManager, and the guard of the decrement is there for clear*() during
\* teardown.  While a task is up a consumer never finds the counter at zero.
GuardOnlyForTeardown ==
    opc = "up" => \A c \in Consumers : Popping(c) => count > 0

\* A stop that has begun joins every producer and consumer and leaves the
\* channel empty, whatever any of them was doing when mStopped was set.
StopTerminates == opc = "halted" ~> opc = "down"
=============================================================================
