-------------------------- MODULE HalconProcessor --------------------------
(***************************************************************************)
(* Core/detect/HalconProcessor.{h,cpp}: the candidate search and the save  *)
(* thread that writes its overlay image.  Save thread and caller share     *)
(* mQueueMutex and one condition variable, mQueueCondition, for two        *)
(* predicates: `queue not empty or stop` (save thread) and `nothing        *)
(* pending` (caller).                                                      *)
(*                                                                         *)
(* A processor has one caller, the thread of the pipeline that owns it.    *)
(* Its steps between two steps of that thread are the values of `caller`.  *)
(* What is saved is the same file in every single-image request, so the    *)
(* file is `own` (written by the request at work) or `older`.              *)
(***************************************************************************)
EXTENDS Naturals, Sequences

VARIABLES
    saver,      \* the save thread
    stopSaver,  \* mStopAsyncThread
    saveQueue,  \* mAsyncSaveQueue
    pending,    \* mPendingAsyncOperations
    caller,     \* the caller inside this module
    skeleton,   \* the file that skeleton_path names
    saveResult  \* the promise of the last save; nobody keeps its future

hpVars == <<saver, stopSaver, saveQueue, pending, caller, skeleton, saveResult>>

\* "testing": holds the mutex, the predicate was false, not yet asleep.
SaverStates  == {"none", "run", "testing", "asleep", "saving", "saved", "notify",
                 "leaving", "gone"}
CallerStates == {"idle", "queued", "wait", "testing", "asleep", "returned",
                 "stopping", "joining", "destroyed"}

HpTypeOK ==
    /\ saver \in SaverStates /\ caller \in CallerStates
    /\ stopSaver \in BOOLEAN
    /\ saveQueue \in Seq({"overlay"}) /\ pending \in Nat
    /\ skeleton \in {"none", "own", "older"}
    /\ saveResult \in {"none", "done", "failed"}

HpInit ==
    /\ saver = "none" /\ caller = "destroyed"
    /\ stopSaver = FALSE
    /\ saveQueue = <<>> /\ pending = 0
    /\ skeleton \in {"none", "older"} /\ saveResult = "none"

QueueMutexFree == saver # "testing" /\ caller # "testing"

\* mQueueCondition.notify_all()
NotifyAllQueue(saverNext, callerNext) ==
    /\ saver'  = IF saver = "asleep" THEN "run" ELSE saverNext
    /\ caller' = IF caller = "asleep" THEN "wait" ELSE callerNext

\* The constructor starts the save thread.
Construct ==
    /\ saver' = "run" /\ caller' = "idle"
    /\ stopSaver' = FALSE /\ saveQueue' = <<>> /\ pending' = 0

-----------------------------------------------------------------------------
(* The save thread, asyncWorkerFunction.                                   *)

\* Lock, test the predicate, and take a task, leave, or go to sleep.
SaverTests ==
    /\ saver = "run" /\ QueueMutexFree
    /\ \/ saveQueue # <<>> /\ saver' = "saving" /\ saveQueue' = Tail(saveQueue)
       \/ saveQueue = <<>> /\ stopSaver /\ saver' = "leaving" /\ UNCHANGED saveQueue
       \/ saveQueue = <<>> /\ ~stopSaver /\ saver' = "testing" /\ UNCHANGED saveQueue
    /\ UNCHANGED <<stopSaver, pending, caller, skeleton, saveResult>>

SaverSleeps ==
    /\ saver = "testing" /\ saver' = "asleep"
    /\ UNCHANGED <<stopSaver, saveQueue, pending, caller, skeleton, saveResult>>

\* performSaveOperation, and the promise; a failure leaves the file as it was.
\* No save callback is ever installed.
SaverSaves ==
    /\ saver = "saving" /\ saver' = "saved"
    /\ \/ skeleton' = "own" /\ saveResult' = "done"
       \/ saveResult' = "failed" /\ UNCHANGED skeleton
    /\ UNCHANGED <<stopSaver, saveQueue, pending, caller>>

SaverCountsDone ==      \* mutant: a failed save is not counted
    /\ saver = "saved" /\ saver' = "notify"
    /\ pending' = IF saveResult = "failed" THEN pending ELSE pending - 1
    /\ UNCHANGED <<stopSaver, saveQueue, caller, skeleton, saveResult>>

\* fetch_sub, which needs no mutex ...
SaverCounts ==
    /\ saver = "saved" /\ saver' = "notify"
    /\ pending' = pending - 1
    /\ UNCHANGED <<stopSaver, saveQueue, caller, skeleton, saveResult>>

\* ... and notify_all, which needs none either.
SaverNotifies ==
    /\ saver = "notify" /\ NotifyAllQueue("run", caller)
    /\ UNCHANGED <<stopSaver, saveQueue, pending, skeleton, saveResult>>

SaverLeaves ==
    /\ saver = "leaving" /\ NotifyAllQueue("gone", caller)
    /\ UNCHANGED <<stopSaver, saveQueue, pending, skeleton, saveResult>>

Saver == \/ SaverTests \/ SaverSleeps \/ SaverSaves \/ SaverCounts
         \/ SaverNotifies \/ SaverLeaves

-----------------------------------------------------------------------------
(* The caller.                                                             *)

\* saveOverlayImageAsync: the copies are made before the mutex is taken and may
\* fail; nobody is told.
QueueSave ==
    /\ caller = "idle"
    /\ \/ /\ QueueMutexFree
          /\ saveQueue' = Append(saveQueue, "overlay") /\ pending' = pending + 1
          /\ caller' = "queued" /\ saveResult' = "none"
       \/ saveResult' = "failed" /\ UNCHANGED <<saveQueue, pending, caller>>
    /\ UNCHANGED <<saver, stopSaver, skeleton>>

\* notify_one: the caller is awake, so it is the save thread that is woken.
NotifySaver ==
    /\ caller = "queued" /\ caller' = "idle"
    /\ saver' = IF saver = "asleep" THEN "run" ELSE saver
    /\ UNCHANGED <<stopSaver, saveQueue, pending, skeleton, saveResult>>

CallerTestsQueue ==     \* mutant: waits for the queue, not for the save
    /\ caller = "wait" /\ QueueMutexFree
    /\ caller' = IF saveQueue = <<>> THEN "returned" ELSE "testing"
    /\ UNCHANGED <<saver, stopSaver, saveQueue, pending, skeleton, saveResult>>

\* waitForAsyncOperations has no timeout.
CallerTests ==
    /\ caller = "wait" /\ QueueMutexFree
    /\ caller' = IF pending = 0 THEN "returned" ELSE "testing"
    /\ UNCHANGED <<saver, stopSaver, saveQueue, pending, skeleton, saveResult>>

CallerSleeps ==
    /\ caller = "testing" /\ caller' = "asleep"
    /\ UNCHANGED <<saver, stopSaver, saveQueue, pending, skeleton, saveResult>>

\* The destructor stores the flag and notifies without the mutex, then joins.
DestructorNotifies ==
    /\ caller = "stopping" /\ NotifyAllQueue(saver, "joining")
    /\ UNCHANGED <<stopSaver, saveQueue, pending, skeleton, saveResult>>

DestructorJoins ==
    /\ caller = "joining" /\ saver = "gone"
    /\ caller' = "destroyed" /\ saver' = "none"
    /\ UNCHANGED <<stopSaver, saveQueue, pending, skeleton, saveResult>>

Caller == \/ NotifySaver \/ CallerTests \/ CallerSleeps
          \/ DestructorNotifies \/ DestructorJoins

\* A condition variable may wake a thread for no reason.
SpuriousWake ==
    /\ \/ saver = "asleep" /\ saver' = "run" /\ UNCHANGED caller
       \/ caller = "asleep" /\ caller' = "wait" /\ UNCHANGED saver
    /\ UNCHANGED <<stopSaver, saveQueue, pending, skeleton, saveResult>>

\* The two notifications that can be missed: the one that says nothing is
\* pending, and the one that says stop.  Who missed it sleeps on.
SaveMissed == caller = "asleep" /\ pending = 0 /\ saver # "notify"
StopMissed == caller = "joining" /\ saver = "asleep"
=============================================================================
