---------------------------- MODULE ItemChannel ----------------------------
(***************************************************************************)
(* What the threads of a task are promised of a channel (queue_manager.hpp *)
(* and its use in the camera, worker and group manager threads): each push *)
(* is one more item of its producer's stream; a pop takes the first item   *)
(* of some stream that nobody has taken, or comes back empty-handed from   *)
(* an empty channel, after its deadline or the stop; what was not popped   *)
(* is dropped when the task is over, and no item reaches another task.     *)
(*                                                                         *)
(* There is no counter, no mutex and no condition variable here: a stream  *)
(* is two numbers, how many items were pushed and how many were popped.    *)
(***************************************************************************)
EXTENDS Naturals

CONSTANTS
    Producers, Consumers,
    NoItem,     \* empty hands
    Timed       \* whether a pop has a deadline

VARIABLES
    task,       \* number of this task
    life,       \* "open", "stopped" or "cleared"
    pushed,     \* items of each stream pushed in this task
    popped,     \* items of each stream popped, or dropped
    hand,       \* what a consumer has popped and not yet returned with
    handed,     \* the items pops have returned in this task
    late,       \* consumers whose deadline has passed
    empty       \* consumers that came back empty-handed

vars == <<task, life, pushed, popped, hand, handed, late, empty>>

Drained == \A p \in Producers : popped[p] = pushed[p]

Init ==
    /\ task = 1 /\ life = "open"
    /\ pushed = [p \in Producers |-> 0] /\ popped = [p \in Producers |-> 0]
    /\ hand = [c \in Consumers |-> NoItem] /\ handed = {}
    /\ late = {} /\ empty = {}

\* A push that began before the stop may still come after it.
Push(p) ==
    /\ life # "cleared"
    /\ pushed' = [pushed EXCEPT ![p] = @ + 1]
    /\ UNCHANGED <<task, life, popped, hand, handed, late, empty>>

Pop(c, p) ==
    /\ hand[c] = NoItem /\ popped[p] < pushed[p]
    /\ hand' = [hand EXCEPT ![c] = [task |-> task, from |-> p, rank |-> popped[p]]]
    /\ popped' = [popped EXCEPT ![p] = @ + 1]
    /\ UNCHANGED <<task, life, pushed, handed, late, empty>>

Return(c) ==
    /\ hand[c] # NoItem
    /\ handed' = handed \cup {hand[c]} /\ hand' = [hand EXCEPT ![c] = NoItem]
    /\ late' = late \ {c}
    /\ UNCHANGED <<task, life, pushed, popped, empty>>

PopNothing(c) ==
    /\ hand[c] = NoItem /\ c \notin empty
    /\ Drained /\ (c \in late \/ life # "open")
    /\ empty' = empty \cup {c} /\ late' = late \ {c}
    /\ UNCHANGED <<task, life, pushed, popped, hand, handed>>

Resume(c) ==
    /\ c \in empty /\ empty' = empty \ {c}
    /\ UNCHANGED <<task, life, pushed, popped, hand, handed, late>>

Deadline(c) ==
    /\ Timed /\ late' = late \cup {c}
    /\ UNCHANGED <<task, life, pushed, popped, hand, handed, empty>>

Stop ==
    /\ life = "open" /\ life' = "stopped"
    /\ UNCHANGED <<task, pushed, popped, hand, handed, late, empty>>

Clear ==
    /\ life = "stopped" /\ life' = "cleared"
    /\ \A c \in Consumers : hand[c] = NoItem
    /\ popped' = pushed
    /\ UNCHANGED <<task, pushed, hand, handed, late, empty>>

Start ==
    /\ life = "cleared" /\ life' = "open"
    /\ task' = task + 1 /\ handed' = {}
    /\ pushed' = [p \in Producers |-> 0] /\ popped' = [p \in Producers |-> 0]
    /\ UNCHANGED <<hand, late, empty>>

Next ==
    \/ \E p \in Producers : Push(p) \/ \E c \in Consumers : Pop(c, p)
    \/ \E c \in Consumers : Return(c) \/ PopNothing(c) \/ Resume(c) \/ Deadline(c)
    \/ Stop \/ Clear \/ Start

Spec == Init /\ [][Next]_vars
=============================================================================
