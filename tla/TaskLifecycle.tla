--------------------------- MODULE TaskLifecycle ----------------------------
(***************************************************************************)
(* Who owns what, from one HTTP request to the next: Core/Scheduler.cpp,   *)
(* the start-up of the detection threads, and the handlers of              *)
(* Core/Server.cpp that create, borrow and release the one camera object.  *)
(*                                                                         *)
(* There is one HTTP thread, so a request is a sequence of its steps; the  *)
(* detection threads (models are loaded in parallel) and the camera work   *)
(* beside it.  CameraThread and QueueManager model how a stop reaches the  *)
(* threads; here a join is one step.  CaptureFlow models a group; here an  *)
(* inspected workpiece is one row written under its group id.              *)
(***************************************************************************)
EXTENDS Naturals, FiniteSets

CONSTANTS
    DetectThreads,  \* Config::detectThreads
    MaxPieces       \* bound: workpieces inspected in one run of the program

ASSUME CountAssumption == DetectThreads \in Nat \ {0} /\ MaxPieces \in Nat \ {0}

Workers == 1..DetectThreads
Pieces  == 1..MaxPieces

VARIABLES
    hpc,        \* the HTTP thread: which step of which request
    next,       \* where Scheduler::stop returns to
    hasTask,    \* RuntimeState::has_task
    running,    \* Scheduler::mRunning
    worker,     \* per detection thread: StartupState, and how it ended
    halted,     \* the detection threads have been told to stop
    camera,     \* g_camera_thread: none, idle, or running for a task or a request
    sequence,   \* CameraThread::mGroupSequence
    piece,      \* number of workpieces inspected in this run
    rows,       \* per group id, the workpieces saved under it in this run
    released    \* history: a camera object that had numbered groups was destroyed

vars == <<hpc, next, hasTask, running, worker, halted, camera, sequence, piece,
          rows, released>>

WorkerStates == {"none", "starting", "ready", "failed", "ended"}
CameraStates == {"none", "idle", "task", "temporary"}
HttpStates   == {"idle", "spawn", "await", "device", "stop", "join", "capture"}

TypeOK ==
    /\ hpc \in HttpStates
    /\ next \in {"idle", "spawn"}
    /\ hasTask \in BOOLEAN /\ running \in BOOLEAN /\ halted \in BOOLEAN
    /\ worker \in [Workers -> WorkerStates]
    /\ camera \in CameraStates
    /\ sequence \in 1..MaxPieces+1
    /\ piece \in 0..MaxPieces
    /\ rows \in [Pieces -> SUBSET Pieces]
    /\ released \in BOOLEAN

NoWorkers == [w \in Workers |-> "none"]

Init ==
    /\ hpc = "idle" /\ next = "idle"
    /\ hasTask = FALSE /\ running = FALSE /\ halted = FALSE
    /\ worker = NoWorkers
    /\ camera = "none"
    /\ sequence = 1
    /\ piece = 0
    /\ rows = [id \in Pieces |-> {}]
    /\ released = FALSE

Http(from, to) == hpc = from /\ hpc' = to

DestroyCameraFromZero ==        \* mutant: mGroupSequence starts at the id of no group
    /\ camera' = "none"
    /\ sequence' = 0
    /\ released' = (released \/ sequence > 1)

\* g_camera_thread.reset(): the next object numbers its groups from 1 again.
DestroyCamera ==
    /\ camera' = "none"
    /\ sequence' = 1
    /\ released' = (released \/ sequence > 1)

-----------------------------------------------------------------------------
(* /api/control/add and /api/control/cancel.                               *)

\* A task that is running is stopped first.
ControlAdd ==
    /\ hpc = "idle"
    /\ hpc' = IF running THEN "stop" ELSE "spawn"
    /\ next' = "spawn"
    /\ hasTask' = TRUE
    /\ UNCHANGED <<running, worker, halted, camera, sequence, piece, rows, released>>

\* Scheduler::stop returns at once when there is nothing to stop.
ControlCancel ==
    /\ hpc = "idle"
    /\ hpc' = IF running THEN "stop" ELSE "idle"
    /\ next' = "idle"
    /\ hasTask' = FALSE
    /\ UNCHANGED <<running, worker, halted, camera, sequence, piece, rows, released>>

\* Scheduler::start: the camera object, then all the detection threads.
Spawn ==
    /\ Http("spawn", "await")
    /\ camera' = IF camera = "none" THEN "idle" ELSE camera
    /\ worker' = [w \in Workers |-> "starting"]
    /\ halted' = FALSE
    /\ UNCHANGED <<next, hasTask, running, sequence, piece, rows, released>>

\* waitUntilReady, worker by worker: all of them are ready ...
AllReady ==
    /\ Http("await", "device")
    /\ \A w \in Workers : worker[w] = "ready"
    /\ UNCHANGED <<next, hasTask, running, worker, halted, camera, sequence, piece,
                   rows, released>>

KeepGoing ==        \* mutant: the result of waitUntilReady is ignored
    /\ Http("await", "device")
    /\ \E w \in Workers : worker[w] = "failed"
    /\ UNCHANGED <<next, hasTask, running, worker, halted, camera, sequence, piece,
                   rows, released>>

SomeFailedRetries ==    \* mutant: a failed start-up is tried again, without end
    /\ Http("await", "stop")
    /\ \E w \in Workers : worker[w] = "failed" /\ \A v \in 1..w-1 : worker[v] = "ready"
    /\ UNCHANGED <<next, hasTask, running, worker, halted, camera, sequence, piece,
                   rows, released>>

\* ... or one failed and the loop throws there, whatever the later ones are at.
\* Here and in DeviceFails the handler of the exception stops what was started,
\* and apiControlAdd takes the task back.
SomeFailed ==
    /\ Http("await", "stop")
    /\ \E w \in Workers : worker[w] = "failed" /\ \A v \in 1..w-1 : worker[v] = "ready"
    /\ next' = "idle"
    /\ hasTask' = FALSE
    /\ UNCHANGED <<running, worker, halted, camera, sequence, piece, rows, released>>

DeviceStartsRenumbering ==      \* mutant: CameraThread::start resets mGroupSequence
    /\ Http("device", "idle")
    /\ camera' = "task"
    /\ sequence' = 1
    /\ running' = TRUE
    /\ UNCHANGED <<next, hasTask, worker, halted, piece, rows, released>>

\* The GroupManager, then the camera unless it is running already.
DeviceStarts ==
    /\ Http("device", "idle")
    /\ camera' = IF camera = "temporary" THEN camera ELSE "task"
    /\ running' = TRUE
    /\ UNCHANGED <<next, hasTask, worker, halted, sequence, piece, rows, released>>

DeviceFails ==
    /\ Http("device", "stop") /\ camera # "temporary"
    /\ next' = "idle"
    /\ hasTask' = FALSE
    /\ UNCHANGED <<running, worker, halted, camera, sequence, piece, rows, released>>

\* Scheduler::stop: every thread is told, ...
Halt ==
    /\ Http("stop", "join")
    /\ halted' = TRUE
    /\ UNCHANGED <<next, hasTask, running, worker, camera, sequence, piece, rows, released>>

\* ... and joined.  mCamera.reset() leaves the object to g_camera_thread.
Join ==
    /\ hpc = "join" /\ hpc' = next
    /\ \A w \in Workers : worker[w] \in {"failed", "ended"}
    /\ worker' = NoWorkers
    /\ camera' = "idle"
    /\ running' = FALSE
    /\ UNCHANGED <<next, hasTask, halted, sequence, piece, rows, released>>

-----------------------------------------------------------------------------
(* /api/camera/single_capture and /api/camera/stop.                        *)

\* While a task runs its camera takes the picture and nothing is released.  A
\* camera started for the request is released on every way out.
SingleStarts ==
    /\ Http("idle", "capture") /\ camera \in {"none", "idle"}
    /\ camera' = "temporary"
    /\ UNCHANGED <<next, hasTask, running, worker, halted, sequence, piece, rows, released>>

SingleStartFails ==
    /\ hpc = "idle" /\ camera \in {"none", "idle"}
    /\ DestroyCamera
    /\ UNCHANGED <<hpc, next, hasTask, running, worker, halted, piece, rows>>

SingleEndsKeeping ==            \* mutant: an error return without releaseTemporaryCamera
    /\ Http("capture", "idle")
    /\ UNCHANGED <<next, hasTask, running, worker, halted, camera, sequence, piece,
                   rows, released>>

SingleEnds ==
    /\ Http("capture", "idle")
    /\ DestroyCamera
    /\ UNCHANGED <<next, hasTask, running, worker, halted, piece, rows>>

CameraStop ==
    /\ hpc = "idle" /\ ~running /\ camera # "none"
    /\ DestroyCamera
    /\ UNCHANGED <<hpc, next, hasTask, running, worker, halted, piece, rows>>

-----------------------------------------------------------------------------
(* The other threads.                                                      *)

\* DetectThread::run up to markStartupReady / markStartupFailed.
Configure(w) ==
    /\ worker[w] = "starting"
    /\ worker' \in {[worker EXCEPT ![w] = s] : s \in {"ready", "failed"}}
    /\ UNCHANGED <<hpc, next, hasTask, running, halted, camera, sequence, piece,
                   rows, released>>

EndWorker(w) ==
    /\ worker[w] = "ready" /\ halted
    /\ worker' = [worker EXCEPT ![w] = "ended"]
    /\ UNCHANGED <<hpc, next, hasTask, running, halted, camera, sequence, piece,
                   rows, released>>

\* The camera numbers a group, the group is inspected, the repository upserts it.
Inspect ==
    /\ camera = "task" /\ piece < MaxPieces
    /\ piece' = piece + 1
    /\ rows' = [rows EXCEPT ![sequence] = @ \cup {piece + 1}]
    /\ sequence' = sequence + 1
    /\ UNCHANGED <<hpc, next, hasTask, running, worker, halted, camera, released>>

Request == \/ ControlAdd \/ ControlCancel \/ SingleStarts \/ SingleStartFails
           \/ CameraStop

Proceed == \/ Spawn \/ AllReady \/ SomeFailed \/ DeviceStarts \/ DeviceFails
           \/ Halt \/ Join \/ SingleEnds

Next == Request \/ Proceed \/ Inspect \/ \E w \in Workers : Configure(w) \/ EndWorker(w)

\* The HTTP thread carries a request through and the detection threads run;
\* loading a model ends some time.
Fairness ==
    /\ WF_vars(Proceed)
    /\ \A w \in Workers : WF_vars(Configure(w)) /\ WF_vars(EndWorker(w))

Spec == Init /\ [][Next]_vars
FairSpec == Spec /\ Fairness

-----------------------------------------------------------------------------
(* Properties.                                                             *)

\* README.md:495: if any detection worker fails to initialise, acquisition does
\* not begin.  The camera is put to work for a task only when every one of them
\* is ready, and is not at work while one is not.
ReadyBeforeAcquisition ==
    camera = "task" /\ hpc # "join" => \A w \in Workers : worker[w] = "ready"

\* Between two requests a task either runs completely or has left nothing behind
\* (Scheduler.cpp:106-110, Server.cpp:175-182): no thread, no camera at work, no
\* task in RuntimeState.
AtRest ==
    hpc = "idle" =>
        /\ hasTask <=> running
        /\ running => camera = "task"
        /\ ~running => worker = NoWorkers /\ camera \in {"none", "idle"}

\* Cancelling a task and starting another one does not reuse a group id, so no
\* workpiece replaces an earlier one in the run's records and image directories,
\* as long as the camera object is the same.
KeptCameraKeepsRows == ~released => \A id \in Pieces : Cardinality(rows[id]) <= 1

\* README.md:463 of inspection_groups: one record is "for a complete cylindrical
\* workpiece", and README.md:428 that results are organised by run and workpiece.
OneWorkpiecePerRow == \A id \in Pieces : Cardinality(rows[id]) <= 1

\* Every request is answered: start-up waits for workers without a timeout, and
\* each of them reports success or failure on every path.
RequestsEnd == hpc # "idle" ~> hpc = "idle"
=============================================================================
