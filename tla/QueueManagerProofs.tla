------------------------- MODULE QueueManagerProofs -------------------------
(***************************************************************************)
(* What QueueManager guarantees for any number of producers and consumers, *)
(* any number of pushes and tasks, with or without a timeout.              *)
(***************************************************************************)
EXTENDS QueueManager, FiniteSetTheorems, TLAPS

\* A consumer has an item in its hands exactly between dequeue and decrement.
HandsOK == \A c \in Consumers : taken[c] # NoItem <=> Popping(c)

TypeInv == TypeOK /\ HandsOK

\* Between two tasks every thread is gone and the channel is empty.
Quiet == opc = "down" => AllJoined /\ queue = {} /\ count = 0

LEMMA TypeInvInit == Init => TypeInv
<1>1. IsFiniteSet({})
  BY FS_EmptySet
<1>2. ASSUME Init PROVE TypeOK
  BY <1>1, <1>2 DEF Init, TypeOK, ProducerStates, ConsumerStates, OwnerStates
<1>3. ASSUME Init PROVE HandsOK
  BY <1>3 DEF Init, HandsOK, Popping
<1> QED BY <1>2, <1>3 DEF TypeInv

\* A producer's step: only its own place, the queue, the counter, its number of
\* pushes and the place of the consumer it notifies change.
LEMMA TypeInvProducer ==
  ASSUME TypeInv, NEW p \in Producers, Producer(p)
  PROVE  TypeInv'
<1> USE DEF TypeInv, TypeOK, HandsOK, Popping
<1>1. CASE PushCheck(p)
  BY <1>1 DEF PushCheck, PAt, ProducerStates
<1>2. CASE Enqueue(p)
  <2>1. [task |-> task, from |-> p, rank |-> sent[p]] \in Items
    BY DEF Items
  <2>2. IsFiniteSet(queue')
    BY <1>2, FS_AddElement DEF Enqueue
  <2> QED BY <1>2, <2>1, <2>2 DEF Enqueue, PAt, ProducerStates
<1>3. CASE AddCount(p)
  BY <1>3 DEF AddCount, PAt, ProducerStates
<1>4. CASE NotifyOne(p)
  <2>1. CASE Asleep = {} /\ cpc' = cpc
    BY <1>4, <2>1 DEF NotifyOne, PAt, ProducerStates
  <2>2. CASE \E c \in Asleep : cpc' = [cpc EXCEPT ![c] = "woken"]
    BY <1>4, <2>2 DEF NotifyOne, PAt, ProducerStates, ConsumerStates, Asleep
  <2> QED BY <1>4, <2>1, <2>2 DEF NotifyOne
<1>5. CASE ProducerExit(p)
  BY <1>5 DEF ProducerExit, PAt, ProducerStates
<1> QED BY <1>1, <1>2, <1>3, <1>4, <1>5 DEF Producer

\* The two elementary steps of a pop, from any place of the consumer's code.
LEMMA TypeInvDequeue ==
  ASSUME TypeInv, NEW c \in Consumers, NEW from, from # "took", Dequeue(c, from)
  PROVE  TypeInv'
<1> USE DEF TypeInv, TypeOK, HandsOK, Popping
<1>1. PICK i \in Oldest : queue' = queue \ {i} /\ taken' = [taken EXCEPT ![c] = i]
  BY DEF Dequeue
<1>2. IsFiniteSet(queue')
  BY <1>1, FS_RemoveElement
<1>3. i \in Items /\ i # NoItem
  BY NoItemAssumption DEF Oldest
<1> QED BY <1>1, <1>2, <1>3 DEF Dequeue, CAt, ConsumerStates

LEMMA TypeInvReturnItem ==
  ASSUME TypeInv, NEW c \in Consumers, ReturnItem(c)
  PROVE  TypeInv'
<1> USE DEF TypeInv, TypeOK, HandsOK, Popping
<1>1. Decrement(count) \in Nat
  BY DEF Decrement
<1>2. taken[c] \in Items
  BY DEF ReturnItem, CAt
<1>3. holder' \in Consumers \cup {NoThread}
  BY DEF ReturnItem, Unlock
<1> QED BY <1>1, <1>2, <1>3 DEF ReturnItem, CAt, ConsumerStates

\* Moves between two places where the consumer holds nothing.
LEMMA TypeInvMove ==
  ASSUME TypeInv, NEW c \in Consumers,
         NEW from, from # "took",
         NEW to \in ConsumerStates, to # "took",
         CAt(c, from, to),
         holder' \in Consumers \cup {NoThread}, late' \subseteq Consumers,
         UNCHANGED <<queue, count, stopped, ppc, taken, sent, got, opc, task>>
  PROVE  TypeInv'
BY DEF TypeInv, TypeOK, HandsOK, Popping, CAt

LEMMA TypeInvConsumer ==
  ASSUME TypeInv, NEW c \in Consumers, Consumer(c)
  PROVE  TypeInv'
<1> USE DEF ConsumerStates
<1>0. holder \in Consumers \cup {NoThread} /\ late \subseteq Consumers
  BY DEF TypeInv, TypeOK
<1>1. CASE FastPop(c)
  BY <1>1, TypeInvDequeue DEF FastPop
<1>2. CASE FastMiss(c)
  BY <1>0, <1>2, TypeInvMove DEF FastMiss, Move
<1>3. CASE LockMutex(c)
  BY <1>0, <1>3, TypeInvMove DEF LockMutex, Acquire
<1>4. CASE LoopTest(c)
  BY <1>0, <1>4, TypeInvMove DEF LoopTest, Move
<1>5. CASE WaitTest(c)
  BY <1>0, <1>5, TypeInvMove DEF WaitTest, Move
<1>6. CASE Block(c)
  BY <1>0, <1>6, TypeInvMove DEF Block
<1>7. CASE TimeoutWake(c) \/ SpuriousWake(c)
  BY <1>0, <1>7, TypeInvMove DEF TimeoutWake, SpuriousWake, Move
<1>8. CASE Rewait(c)
  BY <1>0, <1>8, TypeInvMove DEF Rewait, Acquire
<1>9. CASE RetryPop(c)
  BY <1>9, TypeInvDequeue DEF RetryPop
<1>10. CASE RetryMiss(c)
  BY <1>0, <1>10, TypeInvMove DEF RetryMiss, ReturnNothing, Move, Unlock
<1>11. CASE LastPop(c)
  BY <1>11, TypeInvDequeue DEF LastPop
<1>12. CASE LastMiss(c)
  BY <1>0, <1>12, TypeInvMove DEF LastMiss, ReturnNothing, Unlock
<1>13. CASE ReturnItem(c)
  BY <1>13, TypeInvReturnItem
<1>14. CASE AfterEmpty(c)
  BY <1>0, <1>14, TypeInvMove DEF AfterEmpty, Move
<1>15. CASE ConsumerExit(c)
  BY <1>0, <1>15, TypeInvMove DEF ConsumerExit, Move
<1>16. CASE Deadline(c)
  BY <1>16 DEF Deadline, TypeInv, TypeOK, HandsOK, Popping
<1> QED BY <1>1, <1>2, <1>3, <1>4, <1>5, <1>6, <1>7, <1>8, <1>9, <1>10, <1>11,
           <1>12, <1>13, <1>14, <1>15, <1>16 DEF Consumer, ConsumerRun

LEMMA TypeInvOwner ==
  ASSUME TypeInv, Quiet, Owner
  PROVE  TypeInv'
<1> USE DEF TypeInv, TypeOK, HandsOK, Popping, OAt, OwnerStates
<1>1. CASE Halt
  BY <1>1 DEF Halt
<1>2. CASE StopStore
  BY <1>2 DEF StopStore
<1>3. CASE StopNotifyAll
  BY <1>3 DEF StopNotifyAll, Asleep, ConsumerStates
<1>4. CASE Clear
  BY <1>4, FS_EmptySet DEF Clear
<1>5. CASE Start
  <2>1. \A c \in Consumers : taken[c] = NoItem
    BY <1>5 DEF Start, Quiet, AllJoined
  <2>2. HandsOK'
    BY <1>5, <2>1 DEF Start
  <2>3. /\ ppc' \in [Producers -> ProducerStates]
        /\ cpc' \in [Consumers -> ConsumerStates]
        /\ sent' \in [Producers -> Nat]
    BY <1>5 DEF Start, ProducerStates, ConsumerStates
  <2>4. task' \in Nat /\ got' \subseteq Items
    BY <1>5 DEF Start
  <2>5. TypeOK'
    BY <1>5, <2>3, <2>4 DEF Start, Items
  <2> QED BY <2>2, <2>5
<1> QED BY <1>1, <1>2, <1>3, <1>4, <1>5 DEF Owner

-----------------------------------------------------------------------------
\* Threads that are gone take no step, so nothing is pushed between two tasks.
LEMMA QuietStep ==
  ASSUME TypeInv, Quiet, [Next]_vars
  PROVE  Quiet'
<1> USE DEF Quiet, AllJoined
<1>1. CASE UNCHANGED vars
  BY <1>1 DEF vars
<1>2. CASE Finished
  BY <1>2 DEF Finished, vars
<1>3. ASSUME NEW p \in Producers, Producer(p) PROVE Quiet'
  BY <1>3 DEF Producer, PushCheck, Enqueue, AddCount, NotifyOne, ProducerExit, PAt
<1>4. ASSUME NEW c \in Consumers, Consumer(c) PROVE Quiet'
  <2>1. opc' = opc
    BY <1>4 DEF Consumer, ConsumerRun, FastPop, FastMiss, LockMutex, LoopTest, WaitTest,
       Block, TimeoutWake, SpuriousWake, Rewait, RetryPop, RetryMiss, LastPop, LastMiss,
       ReturnItem, AfterEmpty, ConsumerExit, Deadline, Dequeue, ReturnNothing, Move, Acquire
  <2>2. cpc[c] # "done"
    BY <1>4 DEF Consumer, ConsumerRun, FastPop, FastMiss, LockMutex, LoopTest, WaitTest,
       Block, TimeoutWake, SpuriousWake, Rewait, RetryPop, RetryMiss, LastPop, LastMiss,
       ReturnItem, AfterEmpty, ConsumerExit, Deadline, Dequeue, ReturnNothing, Move, Acquire,
       CAt
  <2> QED BY <2>1, <2>2
<1>5. CASE Owner
  BY <1>5 DEF Owner, Halt, StopStore, StopNotifyAll, Clear, Start, OAt
<1> QED BY <1>1, <1>2, <1>3, <1>4, <1>5 DEF Next

\* The invariant behind every theorem of this module.
BaseInv == TypeInv /\ Quiet

LEMMA BaseInvariant == Spec => []BaseInv
<1>1. Init => BaseInv
  BY TypeInvInit DEF Init, BaseInv, Quiet
<1>2. BaseInv /\ [Next]_vars => BaseInv'
  <2> SUFFICES ASSUME TypeInv, Quiet, [Next]_vars PROVE TypeInv' /\ Quiet'
    BY DEF BaseInv
  <2>1. CASE UNCHANGED vars
    <3>1. TypeOK'
      BY <2>1 DEF vars, TypeInv, TypeOK
    <3>2. HandsOK'
      BY <2>1 DEF vars, TypeInv, HandsOK, Popping
    <3> QED BY <3>1, <3>2, QuietStep DEF TypeInv
  <2>2. CASE Finished
    BY <2>1, <2>2 DEF Finished
  <2> QED BY <2>1, <2>2, QuietStep, TypeInvProducer, TypeInvConsumer, TypeInvOwner DEF Next
<1> QED BY <1>1, <1>2, PTL DEF Spec

\* Every variable keeps its type: the counter is a natural number, the mutex
\* has at most one owner, a consumer holds an item or nothing.
THEOREM TypeCorrect == Spec => []TypeOK
BY BaseInvariant, PTL DEF BaseInv, TypeInv

-----------------------------------------------------------------------------
(* The counter and the queue.                                              *)

Betweens == {p \in Producers : Between(p)}
Poppings == {c \in Consumers : Popping(c)}

LEMMA FiniteCrowds ==
  /\ IsFiniteSet(Betweens) /\ Cardinality(Betweens) \in Nat
  /\ IsFiniteSet(Poppings) /\ Cardinality(Poppings) \in Nat
BY ThreadAssumption, FS_Subset, FS_CardinalityType DEF Betweens, Poppings

LEMMA Covers ==
  /\ CounterCoversQueue <=>
       Cardinality(queue) + Cardinality(Poppings) <= count + Cardinality(Betweens)
  /\ CounterCoversQueue' <=>
       Cardinality(queue') + Cardinality(Poppings') <= count' + Cardinality(Betweens')
BY DEF CounterCoversQueue, Poppings, Betweens

\* A step that touches neither the queue, nor the counter, nor who is between
\* two of their updates.
Steady == UNCHANGED <<queue, count, Betweens, Poppings>>

LEMMA CoverSteady == CounterCoversQueue /\ Steady => CounterCoversQueue'
BY DEF Steady, CounterCoversQueue, Betweens, Poppings

\* An enqueue adds at most one item and one debt to the counter.
LEMMA CoverEnqueue ==
  ASSUME BaseInv, CounterCoversQueue, NEW p \in Producers, Enqueue(p)
  PROVE  CounterCoversQueue'
<1>1. PICK i : queue' = queue \cup {i}
  BY DEF Enqueue
<1>2. Cardinality(queue') <= Cardinality(queue) + 1 /\ Cardinality(queue') \in Nat
  <2>1. IsFiniteSet(queue) /\ Cardinality(queue) \in Nat
    BY FS_CardinalityType DEF BaseInv, TypeInv, TypeOK
  <2>2. Cardinality(queue') = IF i \in queue THEN Cardinality(queue) ELSE Cardinality(queue) + 1
    BY <1>1, <2>1, FS_AddElement
  <2> QED BY <2>1, <2>2
<1>3. Betweens' = Betweens \cup {p} /\ p \notin Betweens
  BY DEF Enqueue, PAt, Betweens, Between, BaseInv, TypeInv, TypeOK
<1>4. Cardinality(Betweens') = Cardinality(Betweens) + 1
  BY <1>3, FiniteCrowds, FS_AddElement
<1>5. Poppings' = Poppings /\ count' = count
  BY DEF Enqueue, Poppings, Popping
<1>6. Cardinality(queue) \in Nat /\ count \in Nat
  BY FS_CardinalityType DEF BaseInv, TypeInv, TypeOK
<1> QED BY <1>2, <1>4, <1>5, <1>6, FiniteCrowds, Covers

\* The fetch_add pays the producer's debt.
LEMMA CoverAddCount ==
  ASSUME BaseInv, CounterCoversQueue, NEW p \in Producers, AddCount(p)
  PROVE  CounterCoversQueue'
<1>1. Betweens' = Betweens \ {p} /\ p \in Betweens
  BY DEF AddCount, PAt, Betweens, Between, BaseInv, TypeInv, TypeOK
<1>2. Cardinality(Betweens') = Cardinality(Betweens) - 1
  BY <1>1, FiniteCrowds, FS_RemoveElement
<1>3. Poppings' = Poppings /\ count' = count + 1 /\ queue' = queue
  BY DEF AddCount, Poppings, Popping
<1>4. Cardinality(queue) \in Nat /\ count \in Nat
  BY FS_CardinalityType DEF BaseInv, TypeInv, TypeOK
<1> QED BY <1>2, <1>3, <1>4, FiniteCrowds, Covers

\* A dequeue trades an item of the queue for a decrement still to come.
LEMMA CoverDequeue ==
  ASSUME BaseInv, CounterCoversQueue, NEW c \in Consumers,
         NEW from, from # "took", Dequeue(c, from)
  PROVE  CounterCoversQueue'
<1>1. PICK i \in queue : queue' = queue \ {i}
  BY DEF Dequeue, Oldest
<1>2. Cardinality(queue') = Cardinality(queue) - 1 /\ Cardinality(queue) \in Nat
  BY <1>1, FS_RemoveElement, FS_CardinalityType DEF BaseInv, TypeInv, TypeOK
<1>3. Poppings' = Poppings \cup {c} /\ c \notin Poppings
  BY DEF Dequeue, CAt, Poppings, Popping, BaseInv, TypeInv, TypeOK
<1>4. Cardinality(Poppings') = Cardinality(Poppings) + 1
  BY <1>3, FiniteCrowds, FS_AddElement
<1>5. Betweens' = Betweens /\ count' = count
  BY DEF Dequeue, Betweens, Between
<1>6. count \in Nat
  BY DEF BaseInv, TypeInv, TypeOK
<1> QED BY <1>2, <1>4, <1>5, <1>6, FiniteCrowds, Covers

\* The guarded decrement: on a zero counter only the debt disappears.
LEMMA CoverReturnItem ==
  ASSUME BaseInv, CounterCoversQueue, NEW c \in Consumers, ReturnItem(c)
  PROVE  CounterCoversQueue'
<1>1. Poppings' = Poppings \ {c} /\ c \in Poppings
  BY DEF ReturnItem, CAt, Poppings, Popping, BaseInv, TypeInv, TypeOK
<1>2. Cardinality(Poppings') = Cardinality(Poppings) - 1
  BY <1>1, FiniteCrowds, FS_RemoveElement
<1>3. Betweens' = Betweens /\ queue' = queue /\ count' = Decrement(count)
  BY DEF ReturnItem, Betweens, Between
<1>4. Cardinality(queue) \in Nat /\ count \in Nat
  BY FS_CardinalityType DEF BaseInv, TypeInv, TypeOK
<1>5. count' \in Nat /\ count' >= count - 1
  BY <1>3, <1>4 DEF Decrement
<1> QED BY <1>2, <1>3, <1>4, <1>5, FiniteCrowds, Covers

\* A move between two places where the consumer holds nothing.
LEMMA SteadyMove ==
  ASSUME BaseInv, NEW c \in Consumers, NEW from, from # "took", NEW to, to # "took",
         CAt(c, from, to), UNCHANGED <<queue, count, ppc>>
  PROVE  Steady
BY DEF Steady, CAt, Betweens, Between, Poppings, Popping, BaseInv, TypeInv, TypeOK

LEMMA CoverConsumer ==
  ASSUME BaseInv, CounterCoversQueue, NEW c \in Consumers, Consumer(c)
  PROVE  CounterCoversQueue'
<1>1. CASE FastPop(c)
  BY <1>1, CoverDequeue DEF FastPop
<1>2. CASE RetryPop(c)
  BY <1>2, CoverDequeue DEF RetryPop
<1>3. CASE LastPop(c)
  BY <1>3, CoverDequeue DEF LastPop
<1>4. CASE ReturnItem(c)
  BY <1>4, CoverReturnItem
<1>5. CASE FastMiss(c)
  BY <1>5, SteadyMove, CoverSteady DEF FastMiss, Move
<1>6. CASE LockMutex(c) \/ Rewait(c)
  BY <1>6, SteadyMove, CoverSteady DEF LockMutex, Rewait, Acquire
<1>7. CASE LoopTest(c)
  BY <1>7, SteadyMove, CoverSteady DEF LoopTest, Move
<1>8. CASE WaitTest(c)
  BY <1>8, SteadyMove, CoverSteady DEF WaitTest, Move
<1>9. CASE Block(c)
  BY <1>9, SteadyMove, CoverSteady DEF Block
<1>10. CASE TimeoutWake(c) \/ SpuriousWake(c)
  BY <1>10, SteadyMove, CoverSteady DEF TimeoutWake, SpuriousWake, Move
<1>11. CASE RetryMiss(c)
  BY <1>11, SteadyMove, CoverSteady DEF RetryMiss, ReturnNothing, Move
<1>12. CASE LastMiss(c)
  BY <1>12, SteadyMove, CoverSteady DEF LastMiss, ReturnNothing
<1>13. CASE AfterEmpty(c)
  BY <1>13, SteadyMove, CoverSteady DEF AfterEmpty, Move
<1>14. CASE ConsumerExit(c)
  BY <1>14, SteadyMove, CoverSteady DEF ConsumerExit, Move
<1>15. CASE Deadline(c)
  <2>1. Steady
    BY <1>15 DEF Deadline, Steady, Betweens, Between, Poppings, Popping
  <2> QED BY <2>1, CoverSteady
<1> QED BY <1>1, <1>2, <1>3, <1>4, <1>5, <1>6, <1>7, <1>8, <1>9, <1>10, <1>11,
           <1>12, <1>13, <1>14, <1>15 DEF Consumer, ConsumerRun

LEMMA CoverProducer ==
  ASSUME BaseInv, CounterCoversQueue, NEW p \in Producers, Producer(p)
  PROVE  CounterCoversQueue'
<1> USE DEF Steady, Betweens, Between, Poppings, Popping, BaseInv, TypeInv, TypeOK, PAt
<1>1. CASE PushCheck(p)
  <2>1. Steady
    BY <1>1 DEF PushCheck
  <2> QED BY <2>1, CoverSteady
<1>2. CASE NotifyOne(p)
  <2>1. Betweens' = Betweens
    BY <1>2 DEF NotifyOne
  <2>2. Poppings' = Poppings
    BY <1>2 DEF NotifyOne, Asleep
  <2>3. Steady
    BY <1>2, <2>1, <2>2 DEF NotifyOne
  <2> QED BY <2>3, CoverSteady
<1>3. CASE ProducerExit(p)
  <2>1. Steady
    BY <1>3 DEF ProducerExit
  <2> QED BY <2>1, CoverSteady
<1> QED BY <1>1, <1>2, <1>3, CoverEnqueue, CoverAddCount DEF Producer

LEMMA CoverOwner ==
  ASSUME BaseInv, CounterCoversQueue, Owner
  PROVE  CounterCoversQueue'
<1>1. CASE Halt \/ StopStore
  <2>1. Steady
    BY <1>1 DEF Halt, StopStore, Steady, Betweens, Between, Poppings, Popping
  <2> QED BY <2>1, CoverSteady
<1>2. CASE StopNotifyAll
  <2>1. Steady
    BY <1>2 DEF StopNotifyAll, Asleep, Steady, Betweens, Between, Poppings, Popping
  <2> QED BY <2>1, CoverSteady
<1>3. CASE Clear
  <2>1. Cardinality(queue') = 0 /\ count' = 0
    BY <1>3, FS_EmptySet DEF Clear
  <2>2. Poppings' = {} /\ Betweens' = {}
    BY <1>3 DEF Clear, AllJoined, Poppings, Popping, Betweens, Between
  <2>3. Cardinality(Poppings') = 0 /\ Cardinality(Betweens') = 0
    BY <2>2, FS_EmptySet
  <2> QED BY <2>1, <2>3 DEF CounterCoversQueue, Betweens, Poppings
<1>4. CASE Start
  <2>1. queue' = {} /\ count' \in Nat
    BY <1>4 DEF Start, OAt, BaseInv, Quiet, TypeInv, TypeOK
  <2>2. Poppings' = {} /\ Betweens' = {}
    BY <1>4 DEF Start, Poppings, Popping, Betweens, Between
  <2>3. Cardinality(queue') = 0 /\ Cardinality(Poppings') = 0 /\ Cardinality(Betweens') = 0
    BY <2>1, <2>2, FS_EmptySet
  <2> QED BY <2>1, <2>3 DEF CounterCoversQueue, Betweens, Poppings
<1> QED BY <1>1, <1>2, <1>3, <1>4 DEF Owner

\* The counter, with what producers still have to add, always covers the queue
\* and the decrements still to come.
THEOREM CounterCovers == Spec => []CounterCoversQueue
<1>1. Init => CounterCoversQueue
  <2> SUFFICES ASSUME Init PROVE CounterCoversQueue
    OBVIOUS
  <2>1. queue = {} /\ Poppings = {} /\ Betweens = {} /\ count = 0
    BY DEF Init, Poppings, Popping, Betweens, Between
  <2>2. Cardinality({}) = 0
    BY FS_EmptySet
  <2> QED BY <2>1, <2>2 DEF CounterCoversQueue, Betweens, Poppings
<1>2. BaseInv /\ CounterCoversQueue /\ [Next]_vars => CounterCoversQueue'
  <2> SUFFICES ASSUME BaseInv, CounterCoversQueue, [Next]_vars PROVE CounterCoversQueue'
    OBVIOUS
  <2>1. CASE UNCHANGED vars
    <3>1. Steady
      BY <2>1 DEF vars, Steady, Betweens, Between, Poppings, Popping
    <3> QED BY <3>1, CoverSteady
  <2> QED BY <2>1, CoverProducer, CoverConsumer, CoverOwner DEF Next, Finished
<1> QED BY <1>1, <1>2, BaseInvariant, PTL DEF Spec

\* No item is ever stranded behind a zero counter.
THEOREM NothingStranded == Spec => []NoStrandedItem
<1>1. BaseInv /\ CounterCoversQueue => NoStrandedItem
  <2> SUFFICES ASSUME BaseInv, CounterCoversQueue, queue # {},
                      \A p \in Producers : ~Between(p)
               PROVE  count > 0
    BY DEF NoStrandedItem
  <2>1. Cardinality(queue) \in Nat /\ Cardinality(queue) # 0 /\ count \in Nat
    BY FS_EmptySet, FS_CardinalityType DEF BaseInv, TypeInv, TypeOK
  <2>2. Betweens = {} /\ Cardinality({}) = 0
    BY FS_EmptySet DEF Betweens
  <2> QED BY <2>1, <2>2, FiniteCrowds DEF CounterCoversQueue, Betweens, Poppings
<1> QED BY <1>1, BaseInvariant, CounterCovers, PTL

-----------------------------------------------------------------------------
(* The limit of the counter.                                               *)

\* The pushes of this task, by producer and rank.
Pushed == {x \in Producers \X (1..MaxPushes) : x[2] <= sent[x[1]]}

\* The counter and the debts are covered by pushes, and no producer makes too many.
PushInv ==
    /\ \A p \in Producers : sent[p] <= MaxPushes
    /\ \A p \in Producers : ppc[p] = "enqueue" => sent[p] < MaxPushes
    /\ count + Cardinality(Betweens) <= Cardinality(Pushed)

LEMMA FinitePushed ==
  /\ IsFiniteSet(Pushed) /\ Cardinality(Pushed) \in Nat
  /\ Cardinality(Pushed) <= MaxPushes * Cardinality(Producers)
<1>1. IsFiniteSet(1..MaxPushes) /\ Cardinality(1..MaxPushes) = MaxPushes
  BY BoundAssumption, FS_Interval
<1>2. IsFiniteSet(Producers) /\ Cardinality(Producers) \in Nat
  BY ThreadAssumption, FS_CardinalityType
<1>3. /\ IsFiniteSet(Producers \X (1..MaxPushes))
      /\ Cardinality(Producers \X (1..MaxPushes)) = Cardinality(Producers) * MaxPushes
  BY <1>1, <1>2, FS_Product
<1>4. Pushed \in SUBSET (Producers \X (1..MaxPushes))
  BY DEF Pushed
<1>5. /\ IsFiniteSet(Pushed)
      /\ Cardinality(Pushed) <= Cardinality(Producers \X (1..MaxPushes))
  BY <1>3, <1>4, FS_Subset
<1>6. Cardinality(Producers) * MaxPushes = MaxPushes * Cardinality(Producers)
  BY <1>2, BoundAssumption
<1>7. QED BY <1>3, <1>5, <1>6, FS_CardinalityType

\* A step that pushes nothing, counts nothing and lets nobody start to push.
Idle == /\ UNCHANGED <<sent, Betweens>>
        /\ count' \in Nat /\ count' <= count
        /\ \A p \in Producers : ppc'[p] = "enqueue" => ppc[p] = "enqueue" \/ sent[p] < MaxPushes

LEMMA PushIdle == ASSUME BaseInv, PushInv, Idle PROVE PushInv'
<1>1. Pushed' = Pushed
  BY DEF Idle, Pushed
<1>2. count \in Nat
  BY DEF BaseInv, TypeInv, TypeOK
<1>3. count' + Cardinality(Betweens') <= Cardinality(Pushed')
  BY <1>1, <1>2, FiniteCrowds, FinitePushed DEF PushInv, Idle
<1>4. QED BY <1>3 DEF PushInv, Idle

\* An enqueue is one push and one debt.
LEMMA PushEnqueue ==
  ASSUME BaseInv, PushInv, NEW p \in Producers, Enqueue(p)
  PROVE  PushInv'
<1>1. /\ sent \in [Producers -> Nat] /\ sent[p] \in Nat /\ sent[p] < MaxPushes
      /\ sent' = [sent EXCEPT ![p] = sent[p] + 1] /\ count' = count /\ count \in Nat
      /\ ppc \in [Producers -> ProducerStates] /\ ppc[p] = "enqueue"
      /\ ppc' = [ppc EXCEPT ![p] = "count"]
  BY DEF BaseInv, TypeInv, TypeOK, PushInv, Enqueue, PAt
<1>2. Pushed' = Pushed \cup {<<p, sent[p] + 1>>} /\ <<p, sent[p] + 1>> \notin Pushed
  <2>1. <<p, sent[p] + 1>> \notin Pushed
    BY <1>1 DEF Pushed
  <2>2. sent[p] + 1 \in 1..MaxPushes
    BY <1>1, BoundAssumption
  <2>3. ASSUME NEW q \in Producers, NEW r \in 1..MaxPushes
        PROVE  r <= sent'[q] <=> r <= sent[q] \/ (q = p /\ r = sent[p] + 1)
    BY <1>1, <2>3, BoundAssumption
  <2>4. Pushed' = Pushed \cup {<<p, sent[p] + 1>>}
    BY <2>2, <2>3 DEF Pushed
  <2>5. QED BY <2>1, <2>4
<1>3. Cardinality(Pushed') = Cardinality(Pushed) + 1
  BY <1>2, FinitePushed, FS_AddElement
<1>4. Betweens' = Betweens \cup {p} /\ p \notin Betweens
  BY <1>1 DEF Betweens, Between
<1>5. Cardinality(Betweens') = Cardinality(Betweens) + 1
  BY <1>4, FiniteCrowds, FS_AddElement
<1>6. count' + Cardinality(Betweens') <= Cardinality(Pushed')
  BY <1>1, <1>3, <1>5, FiniteCrowds, FinitePushed DEF PushInv
<1>7. \A q \in Producers : sent'[q] <= MaxPushes
  BY <1>1, BoundAssumption DEF PushInv
<1>8. \A q \in Producers : ppc'[q] = "enqueue" => sent'[q] < MaxPushes
  BY <1>1 DEF PushInv
<1>9. QED BY <1>6, <1>7, <1>8 DEF PushInv

\* The fetch_add turns the debt into a count.
LEMMA PushAddCount ==
  ASSUME BaseInv, PushInv, NEW p \in Producers, AddCount(p)
  PROVE  PushInv'
<1>1. Betweens' = Betweens \ {p} /\ p \in Betweens
  BY DEF AddCount, PAt, Betweens, Between, BaseInv, TypeInv, TypeOK
<1>2. Cardinality(Betweens') = Cardinality(Betweens) - 1
  BY <1>1, FiniteCrowds, FS_RemoveElement
<1>3. count' = count + 1 /\ count \in Nat /\ sent' = sent
  BY DEF AddCount, BaseInv, TypeInv, TypeOK
<1>4. Pushed' = Pushed
  BY <1>3 DEF Pushed
<1>5. count' + Cardinality(Betweens') <= Cardinality(Pushed')
  BY <1>2, <1>3, <1>4, FiniteCrowds, FinitePushed DEF PushInv
<1>6. \A q \in Producers : ppc'[q] = "enqueue" => ppc[q] = "enqueue"
  BY DEF AddCount, PAt, BaseInv, TypeInv, TypeOK
<1>7. QED BY <1>3, <1>5, <1>6 DEF PushInv

LEMMA PushStep == BaseInv /\ PushInv /\ [Next]_vars => PushInv'
<1> SUFFICES ASSUME BaseInv, PushInv, [Next]_vars PROVE PushInv'
    OBVIOUS
<1>0. count \in Nat /\ count <= count
  BY DEF BaseInv, TypeInv, TypeOK
<1>1. ASSUME NEW p \in Producers, Producer(p) PROVE PushInv'
  <2>1. CASE PushCheck(p) \/ NotifyOne(p) \/ ProducerExit(p)
    <3>1. UNCHANGED <<count, sent>> /\ Betweens' = Betweens
      BY <2>1 DEF PushCheck, NotifyOne, ProducerExit, PAt, Betweens, Between, BaseInv, TypeInv,
                  TypeOK
    <3>2. \A q \in Producers : ppc'[q] = "enqueue" => ppc[q] = "enqueue" \/ sent[q] < MaxPushes
      BY <2>1 DEF PushCheck, NotifyOne, ProducerExit, PAt, BaseInv, TypeInv, TypeOK
    <3>3. QED BY <1>0, <3>1, <3>2, PushIdle DEF Idle
  <2>2. QED BY <1>1, <2>1, PushEnqueue, PushAddCount DEF Producer
<1>2. ASSUME NEW c \in Consumers, Consumer(c) PROVE PushInv'
  <2>1. UNCHANGED <<ppc, sent>> /\ (count' = count \/ count' = Decrement(count))
    BY <1>2 DEF Consumer, ConsumerRun, FastPop, FastMiss, LockMutex, LoopTest, WaitTest, Block,
       TimeoutWake, SpuriousWake, Rewait, RetryPop, RetryMiss, LastPop, LastMiss, ReturnItem,
       AfterEmpty, ConsumerExit, Deadline, Dequeue, ReturnNothing, Move, Acquire
  <2>2. count' \in Nat /\ count' <= count
    BY <1>0, <2>1 DEF Decrement
  <2>3. Betweens' = Betweens
    BY <2>1 DEF Betweens, Between
  <2>4. QED BY <2>1, <2>2, <2>3, PushIdle DEF Idle
<1>3. CASE Halt \/ StopStore \/ StopNotifyAll \/ UNCHANGED vars
  <2>1. UNCHANGED <<count, sent, ppc>>
    BY <1>3 DEF Halt, StopStore, StopNotifyAll, vars
  <2>2. QED BY <1>0, <2>1, PushIdle DEF Idle, Betweens, Between
<1>4. CASE Clear
  <2>1. UNCHANGED <<sent, ppc>> /\ count' = 0
    BY <1>4 DEF Clear
  <2>2. count' \in Nat /\ count' <= count
    BY <1>0, <2>1
  <2>3. QED BY <2>1, <2>2, PushIdle DEF Idle, Betweens, Between
<1>5. CASE Start
  <2>1. count' = 0 /\ Betweens' = {} /\ ppc' = [p \in Producers |-> "idle"]
        /\ sent' = [p \in Producers |-> 0]
    BY <1>5 DEF Start, OAt, BaseInv, Quiet, Betweens, Between
  <2>2. Cardinality(Betweens') = 0
    BY <2>1, FS_EmptySet
  <2>3. Pushed' = {}
    <3>1. ASSUME NEW p \in Producers, NEW r \in 1..MaxPushes PROVE ~(r <= sent'[p])
      BY <2>1, <3>1, BoundAssumption
    <3>2. QED BY <3>1 DEF Pushed
  <2>4. Cardinality(Pushed') = 0
    BY <2>3, FS_EmptySet
  <2>5. QED BY <2>1, <2>2, <2>4, BoundAssumption DEF PushInv
<1>6. QED BY <1>1, <1>2, <1>3, <1>4, <1>5 DEF Next, Finished, Owner

\* The unsigned counter stays below the pushes of a task: neither an early dequeue nor
\* any order of the two updates makes it wrap.
THEOREM CounterBounded == Spec => []CounterNeverWraps
<1>1. Init => PushInv
  <2> SUFFICES ASSUME Init PROVE PushInv
    OBVIOUS
  <2>1. Betweens = {} /\ count = 0 /\ Cardinality({}) = 0
    BY FS_EmptySet DEF Init, Betweens, Between
  <2>2. QED BY <2>1, FinitePushed, BoundAssumption DEF Init, PushInv
<1>2. BaseInv /\ PushInv => CounterNeverWraps
  <2> SUFFICES ASSUME BaseInv, PushInv PROVE CounterNeverWraps
    OBVIOUS
  <2>1. count \in Nat /\ Cardinality(Producers) \in Nat /\ MaxPushes * Cardinality(Producers) \in Nat
    BY ThreadAssumption, BoundAssumption, FS_CardinalityType DEF BaseInv, TypeInv, TypeOK
  <2>2. count <= Cardinality(Pushed)
    BY <2>1, FiniteCrowds, FinitePushed DEF PushInv
  <2>3. QED BY <2>1, <2>2, FinitePushed DEF CounterNeverWraps
<1>3. QED BY <1>1, <1>2, PushStep, BaseInvariant, PTL DEF Spec

-----------------------------------------------------------------------------
(* Tasks.                                                                  *)

\* A step leaves the items of the queue, in the consumers' hands and with the
\* callers where they are or moves them along, inside the same task.
LEMMA IsolationStep ==
  ASSUME BaseInv, TaskIsolation, [Next]_vars
  PROVE  TaskIsolation'
<1> USE DEF TaskIsolation, BaseInv, TypeInv, TypeOK
<1>1. CASE UNCHANGED <<queue, taken, got, task>>
  BY <1>1
<1>2. ASSUME NEW p \in Producers, Enqueue(p) PROVE TaskIsolation'
  BY <1>2 DEF Enqueue
<1>3. ASSUME NEW c \in Consumers, NEW from, Dequeue(c, from) PROVE TaskIsolation'
  BY <1>3 DEF Dequeue, Oldest
<1>4. ASSUME NEW c \in Consumers, ReturnItem(c) PROVE TaskIsolation'
  <2>1. taken[c] # NoItem
    BY <1>4 DEF ReturnItem, CAt, HandsOK, Popping
  <2> QED BY <1>4, <2>1 DEF ReturnItem
<1>5. CASE Clear
  BY <1>5 DEF Clear
<1>6. CASE Start
  BY <1>6 DEF Start, OAt, Quiet, AllJoined, HandsOK, Popping
<1>7. ASSUME NEW p \in Producers, Producer(p) PROVE TaskIsolation'
  BY <1>1, <1>2, <1>7 DEF Producer, PushCheck, AddCount, NotifyOne, ProducerExit
<1>8. ASSUME NEW c \in Consumers, Consumer(c) PROVE TaskIsolation'
  BY <1>1, <1>3, <1>4, <1>8 DEF Consumer, ConsumerRun, FastPop, FastMiss, LockMutex,
     LoopTest, WaitTest, Block, TimeoutWake, SpuriousWake, Rewait, RetryPop, RetryMiss,
     LastPop, LastMiss, AfterEmpty, ConsumerExit, Deadline, ReturnNothing, Move, Acquire
<1>9. CASE Owner
  BY <1>1, <1>5, <1>6, <1>9 DEF Owner, Halt, StopStore, StopNotifyAll
<1> QED BY <1>1, <1>7, <1>8, <1>9 DEF Next, Finished, vars

\* No frame and no result of one task is ever handed out in another.
THEOREM TasksIsolated == Spec => []TaskIsolation
<1>1. Init => TaskIsolation
  BY DEF Init, TaskIsolation
<1> QED BY <1>1, IsolationStep, BaseInvariant, PTL DEF Spec

-----------------------------------------------------------------------------
(* The streams.  What a producer has pushed in this task and nobody has    *)
(* popped is the end of its stream: the ranks from some n on.              *)

InStream(q, t, end, p, n) ==
    \A i \in Items : i.from = p => (i \in q <=> i.task = t /\ n <= i.rank /\ i.rank < end)

\* The stop as the consumers see it, and the streams.
StreamInv ==
    /\ stopped <=> opc \in {"stopping", "joining", "down"}
    /\ \A c \in Consumers : cpc[c] = "last" => stopped \/ c \in late
    /\ \A p \in Producers : \E n \in 0..sent[p] : InStream(queue, task, sent[p], p, n)

OldestOf(q) == {i \in q : \A j \in q : j.from = i.from => i.rank <= j.rank}

FirstOf(q, end, p) ==
    IF \E i \in OldestOf(q) : i.from = p THEN (CHOOSE i \in OldestOf(q) : i.from = p).rank
    ELSE end

\* The refinement mapping reads off where a stream begins.
LEMMA FirstOfStream ==
  ASSUME NEW q, q \subseteq Items, NEW t \in Nat, NEW end \in Nat, NEW p \in Producers,
         NEW n \in 0..end, InStream(q, t, end, p, n)
  PROVE  /\ FirstOf(q, end, p) = n
         /\ \A i \in OldestOf(q) : i.from = p => i.rank = n /\ i.task = t /\ n < end
<1> DEFINE first == [task |-> t, from |-> p, rank |-> n]
<1>1. first \in Items /\ first.task = t /\ first.from = p /\ first.rank = n
  BY DEF Items
<1>2. ASSUME NEW i \in OldestOf(q), i.from = p PROVE i.rank = n /\ i.task = t /\ n < end
  <2>1. i \in q /\ i \in Items /\ i.rank \in Nat /\ i.task = t /\ n <= i.rank /\ i.rank < end
    BY <1>2 DEF OldestOf, Items, InStream
  <2>2. n \in Nat /\ n < end
    BY <2>1
  <2>3. first \in q
    BY <1>1, <2>2 DEF InStream
  <2>4. i.rank <= n
    BY <1>1, <1>2, <2>3 DEF OldestOf
  <2>5. QED BY <2>1, <2>2, <2>4
<1>3. CASE n < end
  <2>1. first \in q
    BY <1>1, <1>3 DEF InStream
  <2>2. ASSUME NEW j \in q, j.from = first.from PROVE first.rank <= j.rank
    BY <1>1, <2>2 DEF InStream
  <2>3. first \in OldestOf(q)
    BY <2>1, <2>2 DEF OldestOf
  <2>4. QED BY <1>1, <1>2, <2>3 DEF FirstOf
<1>4. CASE ~(n < end)
  <2>1. n = end
    BY <1>4
  <2>2. ~ \E i \in OldestOf(q) : i.from = p
    BY <1>2, <1>4
  <2>3. QED BY <2>1, <2>2, <1>2 DEF FirstOf
<1>5. QED BY <1>2, <1>3, <1>4

\* Both ends of a stream that does not change.
LEMMA StreamKept ==
  ASSUME StreamInv, UNCHANGED <<queue, task, sent>>,
         stopped' <=> opc' \in {"stopping", "joining", "down"},
         \A c \in Consumers : cpc'[c] = "last" => stopped' \/ c \in late'
  PROVE  StreamInv'
BY DEF StreamInv

\* A push lengthens the stream of its producer by the item of the next rank.
LEMMA StreamEnqueue ==
  ASSUME BaseInv, StreamInv, NEW p \in Producers, Enqueue(p)
  PROVE  /\ StreamInv'
         /\ \A r \in Producers : \A n \in 0..sent[r] :
               InStream(queue, task, sent[r], r, n) =>
                  n \in 0..sent'[r] /\ InStream(queue', task', sent'[r], r, n)
<1> DEFINE new == [task |-> task, from |-> p, rank |-> sent[p]]
<1>1. /\ sent \in [Producers -> Nat] /\ task \in Nat /\ task' = task
      /\ queue' = queue \cup {new} /\ sent' = [sent EXCEPT ![p] = sent[p] + 1]
      /\ new \in Items /\ queue \subseteq Items
  BY DEF BaseInv, TypeInv, TypeOK, Enqueue, Items
<1>2. ASSUME NEW r \in Producers, NEW n \in 0..sent[r], InStream(queue, task, sent[r], r, n)
      PROVE  n \in 0..sent'[r] /\ InStream(queue', task', sent'[r], r, n)
  <2>1. CASE r # p
    BY <1>1, <1>2, <2>1 DEF InStream
  <2>2. CASE r = p
    <3>1. sent'[r] = sent[p] + 1 /\ sent[p] \in Nat /\ n \in 0..sent'[r] /\ n <= sent[p]
      BY <1>1, <1>2, <2>2
    <3>2. ASSUME NEW i \in Items, i.from = p
          PROVE  i \in queue' <=> i.task = task /\ n <= i.rank /\ i.rank < sent[p] + 1
      <4>1. i.rank \in Nat /\ i = [task |-> i.task, from |-> i.from, rank |-> i.rank]
        BY DEF Items
      <4>2. i = new <=> i.task = task /\ i.rank = sent[p]
        BY <4>1, <3>2
      <4>3. i \in queue <=> i.task = task /\ n <= i.rank /\ i.rank < sent[p]
        BY <1>2, <2>2, <3>2 DEF InStream
      <4>4. i.rank < sent[p] + 1 <=> i.rank < sent[p] \/ i.rank = sent[p]
        BY <4>1, <3>1
      <4>5. QED BY <1>1, <3>1, <4>2, <4>3, <4>4
    <3>3. QED BY <1>1, <2>2, <3>1, <3>2 DEF InStream
  <2>3. QED BY <2>1, <2>2
<1>3. QED
  <2>1. UNCHANGED <<stopped, opc, cpc, late>>
    BY DEF Enqueue
  <2>2. QED BY <1>2, <2>1 DEF StreamInv

\* A dequeue takes the first item of one stream.
LEMMA StreamDequeue ==
  ASSUME BaseInv, StreamInv, NEW i \in Oldest, queue' = queue \ {i}, UNCHANGED <<task, sent>>,
         NEW r \in Producers, NEW n \in 0..sent[r], InStream(queue, task, sent[r], r, n)
  PROVE  LET m == IF r = i.from THEN n + 1 ELSE n
         IN  /\ m \in 0..sent'[r] /\ InStream(queue', task', sent'[r], r, m)
             /\ r = i.from => i = [task |-> task, from |-> r, rank |-> n] /\ n < sent[r]
<1>1. /\ sent \in [Producers -> Nat] /\ task \in Nat /\ queue \subseteq Items
      /\ i \in Items /\ i \in queue
  BY DEF BaseInv, TypeInv, TypeOK, Oldest
<1>2. CASE r # i.from
  BY <1>1, <1>2 DEF InStream
<1>3. CASE r = i.from
  <2>1. i.rank = n /\ i.task = task /\ n < sent[r]
    BY <1>1, <1>3, FirstOfStream DEF Oldest, OldestOf
  <2>2. n \in Nat /\ sent[r] \in Nat /\ n + 1 \in 0..sent[r]
    BY <1>1, <2>1
  <2>3. i = [task |-> task, from |-> r, rank |-> n]
    BY <1>1, <1>3, <2>1 DEF Items
  <2>4. ASSUME NEW j \in Items, j.from = r
        PROVE  j \in queue' <=> j.task = task /\ n + 1 <= j.rank /\ j.rank < sent[r]
    <3>1. j.rank \in Nat /\ j = [task |-> j.task, from |-> j.from, rank |-> j.rank]
      BY DEF Items
    <3>2. j = i <=> j.task = task /\ j.rank = n
      BY <2>3, <2>4, <3>1
    <3>3. j \in queue <=> j.task = task /\ n <= j.rank /\ j.rank < sent[r]
      BY <2>4 DEF InStream
    <3>4. n + 1 <= j.rank <=> n <= j.rank /\ j.rank # n
      BY <2>2, <3>1
    <3>5. QED BY <3>2, <3>3, <3>4
  <2>5. QED BY <1>3, <2>1, <2>2, <2>3, <2>4 DEF InStream
<1>4. QED BY <1>2, <1>3

LEMMA StreamInit == Init => StreamInv
<1> SUFFICES ASSUME Init PROVE StreamInv
    OBVIOUS
<1>1. ASSUME NEW p \in Producers PROVE 0 \in 0..sent[p] /\ InStream(queue, task, sent[p], p, 0)
  <2>1. sent[p] = 0 /\ queue = {}
    BY DEF Init
  <2>2. \A i \in Items : ~(0 <= i.rank /\ i.rank < 0)
    BY DEF Items
  <2>3. QED BY <2>1, <2>2 DEF InStream
<1>2. QED BY <1>1 DEF Init, StreamInv

LEMMA StreamStep == BaseInv /\ StreamInv /\ [Next]_vars => StreamInv'
<1> SUFFICES ASSUME BaseInv, StreamInv, [Next]_vars PROVE StreamInv'
    OBVIOUS
<1> USE DEF BaseInv, TypeInv, TypeOK
<1>1. ASSUME NEW p \in Producers, Producer(p) PROVE StreamInv'
  <2>1. CASE PushCheck(p) \/ AddCount(p) \/ NotifyOne(p) \/ ProducerExit(p)
    <3>1. UNCHANGED <<queue, task, sent, stopped, opc, late>>
          /\ \A c \in Consumers : cpc'[c] = "last" => cpc[c] = "last"
      BY <2>1 DEF PushCheck, AddCount, NotifyOne, ProducerExit
    <3>2. QED BY <3>1, StreamKept DEF StreamInv
  <2>2. QED BY <1>1, <2>1, StreamEnqueue DEF Producer
<1>2. ASSUME NEW c \in Consumers, NEW from, Dequeue(c, from) PROVE StreamInv'
  <2>1. PICK i \in Oldest : queue' = queue \ {i}
    BY <1>2 DEF Dequeue
  <2>2. UNCHANGED <<task, sent, stopped, opc, late>>
        /\ \A d \in Consumers : cpc'[d] = "last" => cpc[d] = "last"
    BY <1>2 DEF Dequeue, CAt
  <2>3. ASSUME NEW r \in Producers
        PROVE  \E n \in 0..sent'[r] : InStream(queue', task', sent'[r], r, n)
    BY <2>1, <2>2, StreamDequeue DEF StreamInv
  <2>4. QED BY <2>2, <2>3 DEF StreamInv
<1>3. ASSUME NEW c \in Consumers,
             LoopTest(c) \/ WaitTest(c) \/ ReturnItem(c) \/ RetryMiss(c) \/ LastMiss(c)
      PROVE  StreamInv'
  <2>1. UNCHANGED <<queue, task, sent, stopped, opc>>
    BY <1>3 DEF LoopTest, WaitTest, ReturnItem, RetryMiss, LastMiss, ReturnNothing, Move
  <2>2. \A d \in Consumers : cpc'[d] = "last" => stopped \/ d \in late'
    BY <1>3 DEF LoopTest, WaitTest, ReturnItem, RetryMiss, LastMiss, ReturnNothing, Move,
       CAt, StreamInv
  <2>3. QED BY <2>1, <2>2, StreamKept DEF StreamInv
<1>4. ASSUME NEW c \in Consumers,
             \/ FastMiss(c) \/ LockMutex(c) \/ Block(c) \/ TimeoutWake(c) \/ SpuriousWake(c)
             \/ Rewait(c) \/ AfterEmpty(c) \/ ConsumerExit(c) \/ Deadline(c)
      PROVE  StreamInv'
  <2>1. UNCHANGED <<queue, task, sent, stopped, opc>> /\ late \subseteq late'
        /\ \A d \in Consumers : cpc'[d] = "last" => cpc[d] = "last"
    BY <1>4 DEF FastMiss, LockMutex, Block, TimeoutWake, SpuriousWake, Rewait, AfterEmpty,
       ConsumerExit, Deadline, Move, Acquire, CAt
  <2>2. QED BY <2>1, StreamKept DEF StreamInv
<1>5. CASE Halt \/ StopStore \/ StopNotifyAll \/ UNCHANGED vars
  <2>1. UNCHANGED <<queue, task, sent, late>>
    BY <1>5 DEF Halt, StopStore, StopNotifyAll, vars
  <2>2. stopped' <=> opc' \in {"stopping", "joining", "down"}
    BY <1>5 DEF Halt, StopStore, StopNotifyAll, vars, OAt, StreamInv
  <2>3. \A c \in Consumers : cpc'[c] = "last" => stopped' \/ c \in late'
    BY <1>5, <2>1 DEF Halt, StopStore, StopNotifyAll, vars, StreamInv
  <2>4. QED BY <2>1, <2>2, <2>3, StreamKept
<1>6. CASE Clear \/ Start
  <2>1. queue' = {} /\ sent' \in [Producers -> Nat]
    BY <1>6 DEF Clear, Start, OAt, Quiet
  <2>2. \A i \in Items, n \in Nat : ~(n <= i.rank /\ i.rank < n)
    BY DEF Items
  <2>3. ASSUME NEW p \in Producers
        PROVE  sent'[p] \in 0..sent'[p] /\ InStream(queue', task', sent'[p], p, sent'[p])
    BY <2>1, <2>2 DEF InStream
  <2>4. stopped' <=> opc' \in {"stopping", "joining", "down"}
    BY <1>6 DEF Clear, Start, OAt, StreamInv
  <2>5. \A c \in Consumers : cpc'[c] # "last"
    BY <1>6 DEF Clear, Start, AllJoined
  <2>6. QED BY <2>3, <2>4, <2>5 DEF StreamInv
<1>7. ASSUME NEW c \in Consumers, Consumer(c) PROVE StreamInv'
  BY <1>2, <1>3, <1>4, <1>7, Zenon DEF Consumer, ConsumerRun, FastPop, RetryPop, LastPop
<1>8. QED BY <1>1, <1>5, <1>6, <1>7 DEF Next, Finished, Owner

LEMMA StreamInvariant == Spec => []StreamInv
  BY StreamInit, StreamStep, BaseInvariant, PTL DEF Spec

-----------------------------------------------------------------------------
(* The refinement: every step of the channel is a step of ItemChannel or   *)
(* leaves what its mapping shows alone.                                    *)

LifeShown   == IF opc = "down" THEN "cleared" ELSE IF stopped THEN "stopped" ELSE "open"
PoppedShown == [p \in Producers |-> PoppedOf(p)]
EmptyShown  == {c \in Consumers : cpc[c] = "empty"}

\* The mapped number of popped items is where the stream begins.
LEMMA PoppedIs ==
  ASSUME TypeOK, NEW p \in Producers, NEW n \in 0..sent[p], InStream(queue, task, sent[p], p, n)
  PROVE  PoppedOf(p) = n
<1>1. PoppedOf(p) = FirstOf(queue, sent[p], p)
  BY DEF PoppedOf, FirstOf, Oldest, OldestOf
<1>2. QED BY <1>1, FirstOfStream DEF TypeOK

LEMMA PoppedBecomes ==
  ASSUME TypeOK', NEW p \in Producers, NEW n \in 0..sent'[p],
         InStream(queue', task', sent'[p], p, n)
  PROVE  PoppedOf(p)' = n
<1>1. PoppedOf(p)' = FirstOf(queue', sent'[p], p)
  BY DEF PoppedOf, FirstOf, Oldest, OldestOf
<1>2. QED BY <1>1, FirstOfStream DEF TypeOK

LEMMA ChannelStutter ==
  ASSUME UNCHANGED <<task, queue, sent, taken, got, late, LifeShown, EmptyShown>>
  PROVE  UNCHANGED Channel!vars
BY DEF Channel!vars, LifeShown, EmptyShown, PoppedOf, Oldest

LEMMA ChannelPush ==
  ASSUME BaseInv, BaseInv', StreamInv, NEW p \in Producers, Enqueue(p)
  PROVE  Channel!Push(p)
<1>1. PoppedShown' = PoppedShown
  <2>1. ASSUME NEW r \in Producers PROVE PoppedOf(r)' = PoppedOf(r)
    <3>1. PICK n \in 0..sent[r] : InStream(queue, task, sent[r], r, n)
      BY DEF StreamInv
    <3>2. n \in 0..sent'[r] /\ InStream(queue', task', sent'[r], r, n)
      BY <3>1, StreamEnqueue
    <3>3. QED BY <3>1, <3>2, PoppedIs, PoppedBecomes DEF BaseInv, TypeInv
  <2>2. QED BY <2>1 DEF PoppedShown
<1>2. opc # "down" /\ EmptyShown' = EmptyShown /\ LifeShown' = LifeShown
  BY DEF Enqueue, PAt, BaseInv, Quiet, AllJoined, EmptyShown, LifeShown
<1>3. QED BY <1>1, <1>2 DEF Channel!Push, Enqueue, PoppedShown, EmptyShown, LifeShown

LEMMA ChannelPop ==
  ASSUME BaseInv, BaseInv', StreamInv, NEW c \in Consumers, NEW from,
         from \notin {"took", "empty"}, Dequeue(c, from)
  PROVE  \E p \in Producers : Channel!Pop(c, p)
<1>1. PICK i \in Oldest : queue' = queue \ {i} /\ taken' = [taken EXCEPT ![c] = i]
  BY DEF Dequeue
<1>2. UNCHANGED <<task, sent>>
  BY DEF Dequeue
<1>3. i.from \in Producers
  BY <1>1 DEF Oldest, BaseInv, TypeInv, TypeOK, Items
<1>4. ASSUME NEW r \in Producers
      PROVE  /\ PoppedOf(r)' = IF r = i.from THEN PoppedOf(r) + 1 ELSE PoppedOf(r)
             /\ r = i.from => /\ i = [task |-> task, from |-> r, rank |-> PoppedOf(r)]
                              /\ PoppedOf(r) < sent[r]
  <2>1. PICK n \in 0..sent[r] : InStream(queue, task, sent[r], r, n)
    BY DEF StreamInv
  <2>2. PoppedOf(r) = n
    BY <2>1, PoppedIs DEF BaseInv, TypeInv
  <2>3. CASE r = i.from
    BY <1>1, <1>2, <2>1, <2>2, <2>3, StreamDequeue, PoppedBecomes DEF BaseInv, TypeInv
  <2>4. CASE r # i.from
    BY <1>1, <1>2, <2>1, <2>2, <2>4, StreamDequeue, PoppedBecomes DEF BaseInv, TypeInv
  <2>5. QED BY <2>3, <2>4
<1>5. PoppedShown' = [PoppedShown EXCEPT ![i.from] = @ + 1]
  BY <1>4 DEF PoppedShown
<1>6. taken[c] = NoItem /\ EmptyShown' = EmptyShown /\ LifeShown' = LifeShown
  BY DEF Dequeue, CAt, BaseInv, TypeInv, TypeOK, HandsOK, Popping, EmptyShown, LifeShown
<1>7. Channel!Pop(c, i.from)
  BY <1>1, <1>2, <1>3, <1>4, <1>5, <1>6 DEF Channel!Pop, Dequeue, PoppedShown, EmptyShown, LifeShown
<1>8. QED BY <1>3, <1>7

LEMMA ChannelReturn ==
  ASSUME BaseInv, NEW c \in Consumers, ReturnItem(c)
  PROVE  Channel!Return(c)
<1>1. taken[c] # NoItem /\ EmptyShown' = EmptyShown /\ LifeShown' = LifeShown
      /\ PoppedShown' = PoppedShown
  BY DEF ReturnItem, CAt, BaseInv, TypeInv, TypeOK, HandsOK, Popping, EmptyShown, LifeShown,
     PoppedShown, PoppedOf, Oldest
<1>2. QED BY <1>1 DEF Channel!Return, ReturnItem, PoppedShown, EmptyShown, LifeShown

\* Only an empty channel, after the deadline or the stop, sends a pop back empty-handed.
LEMMA ChannelPopNothing ==
  ASSUME BaseInv, StreamInv, NEW c \in Consumers, NEW from \in {"retry", "last"},
         queue = {}, ReturnNothing(c, from), c \in late \/ stopped
  PROVE  Channel!PopNothing(c)
<1>1. \A p \in Producers : PoppedOf(p) = sent[p]
  BY DEF PoppedOf, Oldest
<1>2. taken[c] = NoItem /\ c \notin EmptyShown /\ EmptyShown' = EmptyShown \cup {c}
  BY DEF ReturnNothing, CAt, BaseInv, TypeInv, TypeOK, HandsOK, Popping, EmptyShown
<1>3. LifeShown' = LifeShown /\ PoppedShown' = PoppedShown /\ (stopped => LifeShown # "open")
  BY DEF ReturnNothing, LifeShown, PoppedShown, PoppedOf, Oldest
<1>4. QED BY <1>1, <1>2, <1>3
     DEF Channel!PopNothing, Channel!Drained, ReturnNothing, PoppedShown, EmptyShown, LifeShown

LEMMA ChannelConsumer ==
  ASSUME BaseInv, BaseInv', StreamInv, NEW c \in Consumers, Consumer(c)
  PROVE  [Channel!Next]_(Channel!vars)
<1> USE DEF Channel!Next
<1>1. CASE FastPop(c) \/ RetryPop(c) \/ LastPop(c)
  BY <1>1, ChannelPop DEF FastPop, RetryPop, LastPop
<1>2. CASE ReturnItem(c)
  BY <1>2, ChannelReturn
<1>3. CASE RetryMiss(c) /\ c \in late
  <2>1. queue = {} /\ ReturnNothing(c, "retry")
    BY <1>3 DEF RetryMiss
  <2>2. QED BY <1>3, <2>1, ChannelPopNothing
<1>4. CASE LastMiss(c)
  <2>1. queue = {} /\ ReturnNothing(c, "last") /\ (c \in late \/ stopped)
    BY <1>4 DEF LastMiss, ReturnNothing, CAt, StreamInv
  <2>2. QED BY <2>1, ChannelPopNothing
<1>5. CASE Deadline(c)
  <2>1. EmptyShown' = EmptyShown /\ LifeShown' = LifeShown /\ PoppedShown' = PoppedShown
    BY <1>5 DEF Deadline, EmptyShown, LifeShown, PoppedShown, PoppedOf, Oldest
  <2>2. Channel!Deadline(c)
    BY <1>5, <2>1 DEF Channel!Deadline, Deadline, EmptyShown, LifeShown, PoppedShown
  <2>3. QED BY <2>2
<1>6. CASE AfterEmpty(c)
  <2>1. /\ c \in EmptyShown /\ EmptyShown' = EmptyShown \ {c}
        /\ LifeShown' = LifeShown /\ PoppedShown' = PoppedShown
    BY <1>6 DEF AfterEmpty, Move, CAt, BaseInv, TypeInv, TypeOK, EmptyShown, LifeShown,
       PoppedShown, PoppedOf, Oldest
  <2>2. Channel!Resume(c)
    BY <1>6, <2>1 DEF Channel!Resume, AfterEmpty, Move, EmptyShown, LifeShown, PoppedShown
  <2>3. QED BY <2>2
<1>7. CASE \/ FastMiss(c) \/ LockMutex(c) \/ LoopTest(c) \/ WaitTest(c) \/ Block(c)
           \/ TimeoutWake(c) \/ SpuriousWake(c) \/ Rewait(c) \/ ConsumerExit(c)
           \/ (RetryMiss(c) /\ c \notin late)
  <2>1. PICK from, to : CAt(c, from, to) /\ from # "empty" /\ to # "empty"
    BY <1>7 DEF FastMiss, LockMutex, LoopTest, WaitTest, Block, TimeoutWake, SpuriousWake,
       Rewait, ConsumerExit, RetryMiss, Move, Acquire, CAt
  <2>2. UNCHANGED <<task, queue, sent, taken, got, late, stopped, opc>>
    BY <1>7 DEF FastMiss, LockMutex, LoopTest, WaitTest, Block, TimeoutWake, SpuriousWake,
       Rewait, ConsumerExit, RetryMiss, Move, Acquire
  <2>3. EmptyShown' = EmptyShown /\ LifeShown' = LifeShown
    BY <2>1, <2>2 DEF CAt, BaseInv, TypeInv, TypeOK, EmptyShown, LifeShown
  <2>4. QED BY <2>2, <2>3, ChannelStutter
<1>8. QED
  BY <1>1, <1>2, <1>3, <1>4, <1>5, <1>6, <1>7, Zenon DEF Consumer, ConsumerRun

LEMMA ChannelProducer ==
  ASSUME BaseInv, BaseInv', StreamInv, NEW p \in Producers, Producer(p)
  PROVE  [Channel!Next]_(Channel!vars)
<1>1. CASE Enqueue(p)
  BY <1>1, ChannelPush DEF Channel!Next
<1>2. CASE PushCheck(p) \/ AddCount(p) \/ NotifyOne(p) \/ ProducerExit(p)
  <2>1. UNCHANGED <<task, queue, sent, taken, got, late, stopped, opc>>
    BY <1>2 DEF PushCheck, AddCount, NotifyOne, ProducerExit
  <2>2. EmptyShown' = EmptyShown
    BY <1>2 DEF PushCheck, AddCount, NotifyOne, ProducerExit, Asleep, EmptyShown, BaseInv,
       TypeInv, TypeOK
  <2>3. QED BY <2>1, <2>2, ChannelStutter DEF LifeShown
<1>3. QED BY <1>1, <1>2 DEF Producer

LEMMA ChannelOwner ==
  ASSUME BaseInv, BaseInv', StreamInv, Owner
  PROVE  [Channel!Next]_(Channel!vars)
<1>1. CASE Halt \/ StopNotifyAll
  <2>1. UNCHANGED <<task, queue, sent, taken, got, late, LifeShown>>
    BY <1>1 DEF Halt, StopNotifyAll, OAt, LifeShown
  <2>2. EmptyShown' = EmptyShown
    BY <1>1 DEF Halt, StopNotifyAll, Asleep, EmptyShown
  <2>3. QED BY <2>1, <2>2, ChannelStutter
<1>2. CASE StopStore
  <2>1. LifeShown = "open" /\ LifeShown' = "stopped"
    BY <1>2 DEF StopStore, OAt, LifeShown, StreamInv
  <2>2. EmptyShown' = EmptyShown /\ PoppedShown' = PoppedShown
    BY <1>2 DEF StopStore, EmptyShown, PoppedShown, PoppedOf, Oldest
  <2>3. Channel!Stop
    BY <1>2, <2>1, <2>2 DEF Channel!Stop, StopStore, LifeShown, EmptyShown, PoppedShown
  <2>4. QED BY <2>3 DEF Channel!Next
<1>3. CASE Clear
  <2>1. LifeShown = "stopped" /\ LifeShown' = "cleared"
    BY <1>3 DEF Clear, OAt, LifeShown, StreamInv
  <2>2. \A c \in Consumers : taken[c] = NoItem
    BY <1>3 DEF Clear, AllJoined, BaseInv, TypeInv, HandsOK, Popping
  <2>3. EmptyShown' = EmptyShown
    BY <1>3 DEF Clear, EmptyShown
  <2>4. PoppedShown' = sent
    <3>1. \A p \in Producers : PoppedOf(p)' = sent[p]
      BY <1>3 DEF Clear, PoppedOf, Oldest
    <3>2. QED BY <3>1 DEF PoppedShown, BaseInv, TypeInv, TypeOK
  <2>5. Channel!Clear
    BY <1>3, <2>1, <2>2, <2>3, <2>4 DEF Channel!Clear, Clear, LifeShown, EmptyShown, PoppedShown
  <2>6. QED BY <2>5 DEF Channel!Next
<1>4. CASE Start
  <2>1. LifeShown = "cleared" /\ LifeShown' = "open"
    BY <1>4 DEF Start, OAt, LifeShown
  <2>2. EmptyShown = {} /\ EmptyShown' = {}
    BY <1>4 DEF Start, OAt, BaseInv, Quiet, AllJoined, EmptyShown
  <2>3. PoppedShown' = [p \in Producers |-> 0]
    <3>1. queue' = {} /\ sent' = [p \in Producers |-> 0]
      BY <1>4 DEF Start, OAt, BaseInv, Quiet
    <3>2. \A p \in Producers : PoppedOf(p)' = 0
      BY <3>1 DEF PoppedOf, Oldest
    <3>3. QED BY <3>2 DEF PoppedShown
  <2>4. Channel!Start
    BY <1>4, <2>1, <2>2, <2>3 DEF Channel!Start, Start, LifeShown, EmptyShown, PoppedShown
  <2>5. QED BY <2>4 DEF Channel!Next
<1>5. QED BY <1>1, <1>2, <1>3, <1>4 DEF Owner

\* The queue, its counter, its mutex and its condition variable implement the channel:
\* one stream per producer, each item handed out once and in its producer's order, and
\* no pop that fails without reason.
THEOREM ChannelImplemented == Spec => ChannelDelivers
<1>1. Init => Channel!Init
  <2> SUFFICES ASSUME Init PROVE Channel!Init
    OBVIOUS
  <2>1. PoppedShown = [p \in Producers |-> 0]
    BY DEF Init, PoppedShown, PoppedOf, Oldest
  <2>2. EmptyShown = {} /\ LifeShown = "open"
    BY DEF Init, EmptyShown, LifeShown
  <2>3. QED BY <2>1, <2>2 DEF Init, Channel!Init, PoppedShown, EmptyShown, LifeShown
<1>2. BaseInv /\ BaseInv' /\ StreamInv /\ [Next]_vars => [Channel!Next]_(Channel!vars)
  <2> SUFFICES ASSUME BaseInv, BaseInv', StreamInv, [Next]_vars
               PROVE  [Channel!Next]_(Channel!vars)
    OBVIOUS
  <2>1. CASE UNCHANGED vars
    BY <2>1, ChannelStutter DEF vars, LifeShown, EmptyShown
  <2>2. QED BY <2>1, ChannelProducer, ChannelConsumer, ChannelOwner DEF Next, Finished
<1>3. QED BY <1>1, <1>2, BaseInvariant, StreamInvariant, PTL DEF Spec, ChannelDelivers, Channel!Spec

-----------------------------------------------------------------------------
(* Every item once.                                                        *)

\* What was pushed in this task.
Pushes == {i \in Items : i.task = task /\ i.rank < sent[i.from]}

\* An item is in one place: in the queue, in the hands of one consumer or with the
\* callers.  Until the task is over every push is in one of them.
EveryItemOnce ==
    /\ queue \cap got = {}
    /\ \A c \in Consumers : taken[c] # NoItem => taken[c] \notin queue \cup got
    /\ \A c, d \in Consumers : taken[c] = taken[d] /\ taken[c] # NoItem => c = d
    /\ queue \cup got \subseteq Pushes
    /\ \A c \in Consumers : taken[c] # NoItem => taken[c] \in Pushes
    /\ opc # "down" =>
          \A i \in Pushes : i \in queue \cup got \/ \E c \in Consumers : taken[c] = i

LEMMA OnceEnqueue ==
  ASSUME BaseInv, EveryItemOnce, NEW p \in Producers, Enqueue(p)
  PROVE  EveryItemOnce'
<1> DEFINE new == [task |-> task, from |-> p, rank |-> sent[p]]
<1>1. /\ sent \in [Producers -> Nat] /\ queue' = queue \cup {new}
      /\ sent' = [sent EXCEPT ![p] = sent[p] + 1]
      /\ UNCHANGED <<task, got, taken, opc>> /\ new \in Items /\ new # NoItem
  BY NoItemAssumption DEF BaseInv, TypeInv, TypeOK, Enqueue, Items
<1>2. new \notin Pushes
  BY <1>1 DEF Pushes, Items
<1>3. Pushes' = Pushes \cup {new}
  <2>1. ASSUME NEW i \in Items
        PROVE  i.task = task /\ i.rank < sent'[i.from]
                  <=> (i.task = task /\ i.rank < sent[i.from]) \/ i = new
    <3>1. /\ i.rank \in Nat /\ i.from \in Producers
          /\ i = [task |-> i.task, from |-> i.from, rank |-> i.rank]
      BY DEF Items
    <3>2. i = new <=> i.task = task /\ i.from = p /\ i.rank = sent[p]
      BY <3>1
    <3>3. CASE i.from = p
      <4>1. sent'[i.from] = sent[p] + 1 /\ sent[p] \in Nat
        BY <1>1, <3>3
      <4>2. i.rank < sent[p] + 1 <=> i.rank < sent[p] \/ i.rank = sent[p]
        BY <3>1, <4>1
      <4>3. QED BY <3>2, <3>3, <4>1, <4>2
    <3>4. CASE i.from # p
      BY <1>1, <3>1, <3>2, <3>4
    <3>5. QED BY <3>3, <3>4
  <2>2. QED BY <1>1, <2>1 DEF Pushes
<1>4. QED BY <1>1, <1>2, <1>3 DEF EveryItemOnce

LEMMA OnceStep == BaseInv /\ EveryItemOnce /\ [Next]_vars => EveryItemOnce'
<1> SUFFICES ASSUME BaseInv, EveryItemOnce, [Next]_vars PROVE EveryItemOnce'
    OBVIOUS
<1>1. CASE UNCHANGED <<queue, taken, got, task, sent>> /\ (opc' # "down" => opc # "down")
  BY <1>1 DEF EveryItemOnce, Pushes
<1>2. ASSUME NEW c \in Consumers, NEW from, from # "took", Dequeue(c, from) PROVE EveryItemOnce'
  <2>1. PICK i \in queue : queue' = queue \ {i} /\ taken' = [taken EXCEPT ![c] = i]
    BY <1>2 DEF Dequeue, Oldest
  <2>2. taken \in [Consumers -> Items \cup {NoItem}] /\ i # NoItem /\ taken[c] = NoItem
    BY <1>2, <2>1, NoItemAssumption DEF BaseInv, TypeInv, TypeOK, HandsOK, Popping, Dequeue, CAt
  <2>3. UNCHANGED <<got, Pushes, opc>>
    BY <1>2 DEF Dequeue, Pushes
  <2>4. /\ taken'[c] = i
        /\ \A d \in Consumers : d # c => taken'[d] = taken[d] /\ taken[d] # i
    BY <2>1, <2>2 DEF EveryItemOnce
  <2>5. queue' \cap got' = {} /\ queue' \cup got' \subseteq Pushes' /\ i \in Pushes' /\ i \notin queue' \cup got'
    BY <2>1, <2>3 DEF EveryItemOnce
  <2>6. \A d \in Consumers :
           taken'[d] # NoItem => taken'[d] \notin queue' \cup got' /\ taken'[d] \in Pushes'
    BY <2>1, <2>3, <2>4, <2>5 DEF EveryItemOnce
  <2>7. \A d, e \in Consumers : taken'[d] = taken'[e] /\ taken'[d] # NoItem => d = e
    BY <2>4 DEF EveryItemOnce
  <2>8. opc' # "down" =>
           \A j \in Pushes' : j \in queue' \cup got' \/ \E d \in Consumers : taken'[d] = j
    <3>1. SUFFICES ASSUME opc # "down", NEW j \in Pushes, j \notin queue' \cup got'
                   PROVE  \E d \in Consumers : taken'[d] = j
      BY <2>3
    <3>2. j = i \/ \E d \in Consumers : taken[d] = j
      BY <2>1, <2>3, <3>1 DEF EveryItemOnce
    <3>3. j # NoItem
      BY NoItemAssumption DEF Pushes
    <3>4. QED BY <2>2, <2>4, <3>2, <3>3
  <2>9. QED BY <2>5, <2>6, <2>7, <2>8 DEF EveryItemOnce
<1>3. ASSUME NEW c \in Consumers, ReturnItem(c) PROVE EveryItemOnce'
  <2>1. /\ taken[c] # NoItem /\ taken \in [Consumers -> Items \cup {NoItem}]
        /\ got' = got \cup {taken[c]} /\ taken' = [taken EXCEPT ![c] = NoItem]
    BY <1>3 DEF ReturnItem, CAt, BaseInv, TypeInv, TypeOK, HandsOK, Popping
  <2>2. UNCHANGED <<queue, Pushes, opc>>
    BY <1>3 DEF ReturnItem, Pushes
  <2>3. QED BY <2>1, <2>2 DEF EveryItemOnce
<1>4. CASE Clear
  BY <1>4 DEF Clear, OAt, EveryItemOnce, Pushes
<1>5. CASE Start
  <2>1. /\ queue' = {} /\ got' = {} /\ taken' = taken /\ sent' = [p \in Producers |-> 0]
        /\ \A c \in Consumers : taken[c] = NoItem
    BY <1>5 DEF Start, OAt, BaseInv, Quiet, AllJoined, TypeInv, HandsOK, Popping
  <2>2. Pushes' = {}
    BY <2>1 DEF Pushes, Items
  <2>3. QED BY <2>1, <2>2 DEF EveryItemOnce
<1>6. ASSUME NEW p \in Producers, Producer(p) PROVE EveryItemOnce'
  BY <1>1, <1>6, OnceEnqueue DEF Producer, PushCheck, AddCount, NotifyOne, ProducerExit
<1>7. ASSUME NEW c \in Consumers, Consumer(c) PROVE EveryItemOnce'
  BY <1>1, <1>2, <1>3, <1>7 DEF Consumer, ConsumerRun, FastPop, RetryPop, LastPop, FastMiss,
     LockMutex, LoopTest, WaitTest, Block, TimeoutWake, SpuriousWake, Rewait, RetryMiss,
     LastMiss, AfterEmpty, ConsumerExit, Deadline, ReturnNothing, Move, Acquire
<1>8. CASE Owner
  BY <1>1, <1>4, <1>5, <1>8 DEF Owner, Halt, StopStore, StopNotifyAll, OAt
<1>9. QED BY <1>1, <1>6, <1>7, <1>8 DEF Next, Finished, vars

\* No push is handed out twice, and none is lost before Scheduler::stop drops what is
\* left: the lock-free dequeue and the counter beside it never disagree on an item.
THEOREM ItemsHandedOnce == Spec => []EveryItemOnce
<1>1. Init => EveryItemOnce
  BY DEF Init, EveryItemOnce, Pushes, Items
<1>2. QED BY <1>1, OnceStep, BaseInvariant, PTL DEF Spec
=============================================================================
