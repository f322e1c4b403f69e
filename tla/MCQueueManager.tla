--------------------------- MODULE MCQueueManager ---------------------------
(***************************************************************************)
(* The two channels as the program uses them.  The raw channel has one     *)
(* producer (the camera) and several consumers (the workers); the result   *)
(* channel has several producers (the workers) and one consumer (the group *)
(* manager).  The items of a model are finitely many here, so the delivery *)
(* of each of them can be stated.                                          *)
(***************************************************************************)
EXTENDS QueueManager

ModelItems == [task : 1..MaxTasks, from : Producers, rank : 0..MaxPushes-1]

\* Every pushed item is popped, if the task is not stopped first: a consumer
\* that lost its notification sleeps no longer than its timeout.
EveryItemPopped ==
    \A item \in ModelItems : item \in queue ~> item \notin queue \/ opc # "up"
=============================================================================
