# Formal model of the cylinder inspection server

TLA+ modules, TLC configurations and TLAPS proofs for the C++ program under
`src/`: an HTTP server that rotates a cylindrical workpiece in front of a camera,
takes `kQuadImageCount` (four) images of it, runs neural networks and Halcon
filters on each face, and stores one result per workpiece in SQLite.

All paths below are relative to the repository's `src/`. `PROJECT.json` holds the
machine-readable side: the components, the runs, the mutants, the lines each
definition models, the hazards and the theorems.

## 1. The system

### 1.1 Threads and what they share

```
             HTTP thread (libevent, one request at a time)
             Server.cpp -> Scheduler.cpp -> start / stop / join / clear
                |  start, stop, single capture        ^ promise
                v                                     |
  slide <-> CameraThread --pushRaw--> [raw queue] --> DetectThread x N
  (serial)      ^                                        | pushResult
                | allow_next_group                       v
                +------------- GroupManager <---- [result queue]
                                   | mOnComplete
                                   v
                          InspectionRepository (SQLite)
```

* One HTTP thread handles every request to its end, so two requests never
  overlap; it owns the scheduler, the shared camera object `g_camera_thread` and
  the task in `RuntimeState`.
* The capture thread, N detection workers and the group manager run beside it,
  connected by the two queues of `QueueManager` and by one boolean, the
  *allow-next-group* token: the camera consumes it before a group, the group
  manager gives it back after it has finalised one.
* A single-image detection thread with a queue of its own serves the
  single-detection requests.

### 1.2 Components

| Component | State | Operations | What makes it correct |
|---|---|---|---|
| Queue manager (`Core/queue_manager.*`) | two `ConcurrentQueue`s, an atomic counter beside each, two mutexes with condition variables, `mStopped` | `pushRaw`, `popRawBlocking`, `tryPopRaw`, the same for results, `stop`, `start`, `clear` | no item is stranded, the unsigned counter does not wrap, stop ends every caller, nothing passes from one task to the next |
| Group manager (`Core/group_manager.*`) | `mGroups` (faces received, clock of the first result) | `handleResult`, `checkTimeouts`, `finalizeGroup` | a group is reported once and with its own faces; the token comes back whatever fails |
| Camera thread (`Core/camera_thread.*`) | run and stop flags, the token, the pending single capture, `mGroupSequence` | `start`, `stop`, `join`, `captureLoop`, `captureSingleImage`, `allow_next_group` | never sleeps on a token, answers a single capture unless the Snaps of a face fail for ever, can be stopped anywhere but in one window |
| Scheduler (`Core/Scheduler.*`) | the objects of one task, `mRunning` | `start` with its rollback, `stop`, `join` | all or nothing: models first, camera last; a stop always ends |
| Detection worker (`Core/detect_thread.*`) | start-up state, handshake mutex | start-up report, frame loop, stop | reports once on every path, one result per frame |
| HTTP server (`Core/Server.*`, `runtime_state.hpp`) | `g_camera_thread`, `has_task`, the scheduler | control, camera, single-detection handlers | whatever a request borrowed is released on each way out |
| Single-image detection (`Core/single_detect_thread.*`) | task queue, running flag | `submitAndWait`, `worker`, `stop`, `join` | each request is answered, with its own result; a cancellation ends |
| Inspection repository (`Core/inspection_repository.*`, `sqlite_helper.*`, `db_utils.*`) | the database | `save` in one transaction, upsert by `(run_id, group_id)` | the old record or the whole new one |
| Detection pipeline (`Core/detection_pipeline.*`) | the loaded models, the parameters and the device they were loaded for | `configure`, `processFile`, `processFrame`, `resetDeviceResources` | no image is processed by the models or parameters of an earlier request |
| Halcon processor (`Core/detect/HalconProcessor.*`) | the save queue, the number of pending saves, the save thread | `processImage`, `waitForAsyncOperations`, the destructor | the wait does not end early, and ends |
| Slide serial client (`Core/slide_serial.*`) and the dialogue in `camera_thread.cpp` | reader thread, the line under way, the queue of lines | `Open`, `Close`, `WriteLine`, `DrainLines`, `readerLoop` | a reply is taken for the command it answers; nothing survives a session |
| Slicing, crop, boxes (`Core/detect/Slice.*`, `crop_image.*`, `trtyolo_slice.*`) | none | tiles of an image, clipping, merging boxes | the tiles cover the image, clipping stays inside it |
| Request parameters (`Core/http/*`) | none | validation, defaults | out-of-range numbers are refused |
| Configuration (`Core/Config.*`, `main.cpp`) | the configuration | reading with defaults | later parts may rely on the normalised values |
| TensorRT, YOLO, SAM, stripe removal (`Core/detect/engineTRT.*` ...) | GPU buffers | inference, image filters | numerical |
| Python tools | none | one HTTP request each | |

### 1.3 The hard behaviours

* The queue and its counter are two atomics, updated in opposite orders by
  producers and consumers; the predicate of the condition variable is protected
  by a mutex that no producer and no `stop()` ever takes.
* The token wait of the camera has no timeout, and three threads change what it
  waits for: the group manager (under the mutex), the capture thread itself after
  a failed stage command, and `stop()` (without the mutex).
* The stage, the save and the model loading may fail at every step, each time
  with something to give back: a token, a promise, a borrowed camera, a thread.
* A group has a clock of its own (55 s from its first result), which races the
  stage (20 s per command), the retries of Snap and the workers.
* Group ids live as long as a camera object, records as long as the process.
* A Snap of a group that fails is repeated without limit, by the same thread that has to
  answer single captures; only the stop flag is read in between.
* The stage answers in lines that carry no number: a reply that comes after its
  command was given up, or an event that contains the awaited words, looks like
  the answer to the next command.
* The models of the single-image pipeline outlive the request that loaded them and
  are bound to the CUDA device that was current then.
* `HalconProcessor` uses one mutex and one condition variable for two predicates, but
  decrements the pending counter, and sets the stop flag, outside the mutex.

`PROJECT.json` lists the hazards one by one, with the properties that would catch
each of them; two are without a property and say why.

## 2. The modules

| Module | Models | Composition |
|---|---|---|
| `ItemChannel` | what the threads of a task are promised of a channel | the abstract specification |
| `QueueManager` | one channel, its callers' loops, its owner | stands for the raw and the result channel, the same code twice; instantiates `ItemChannel` with the streams found in the queue |
| `MCQueueManager` | | extends it with what needs a finite set of items |
| `QueueManagerProofs` | | proofs about `QueueManager`, the refinement among them |
| `GroupManager` | the collecting thread, step by step | |
| `CaptureFlow` | camera loop, workers, stop order | extends `GroupManager`, and joins it to the camera by the queues and the token |
| `CaptureFlowProofs` | | proofs about `CaptureFlow` and `GroupManager` |
| `CameraThread` | capture thread, HTTP thread and group manager around the camera's mutexes | |
| `CameraThreadProofs` | | proofs about `CameraThread` |
| `TaskLifecycle` | requests, start-up, rollback, camera object, group ids and rows | |
| `TaskLifecycleProofs` | | proofs about `TaskLifecycle` |
| `SlideSerial` | the serial client and its reader thread | |
| `SlideDialogue` | capture thread, HTTP thread, controller and stage | extends `SlideSerial`: whoever owns the client acts through its operations |
| `MCSlideDialogue` | | extends it with the texts of the dialogue |
| `SlideSerialProofs` | | what the client's steps do to the texts that have arrived |
| `SlideDialogueProofs` | | proofs about `SlideDialogue`, from those lemmas |
| `DetectRequest` | a request to the parameters of a detection, or to its refusal | operators |
| `ImageSlices` | the geometry of slices and boxes | operators |
| `HalconProcessor` | the save thread, the wait for it, the destructor | |
| `DetectionPipeline` | the cache of models and the stages of a detection | extends the three above |
| `SingleDetection` | the worker, the HTTP thread, its requests | extends `DetectionPipeline`, which the worker drives |
| `MCSingleDetection` | | extends it with requests, images and detections |
| `SingleDetectionProofs` | | proofs about `SingleDetection` and what it extends |
| `InspectionRecords` | what a save promises: one atomic step per record | the abstract specification |
| `InspectionRepository` | the statements of a save, failures, crashes, restarts | instantiates `InspectionRecords` with the records a reader finds in the tables |
| `InspectionRepositoryProofs` | | proofs about both, the refinement among them |

The models look at the same program from different heights; each says in
its header what it leaves to another. `QueueManager` has the atomics and the
condition variable and no groups. `CaptureFlow` has the groups, with each queue a
set. `CameraThread` has the condition variable of the token, with all groups
under way abstracted to one flag, `owed`; `SlideDialogue` opens up the two stage steps
of both, `StageReady` and `StageFails`, and leaves out the token. `TaskLifecycle` has the requests, with
a join a single step. `InspectionRepository` opens up what is one step, `Report`, in
`GroupManager` and one row in `TaskLifecycle`.

### 2.1 QueueManager

`queue` is the content of the `ConcurrentQueue`: a set of records with the
producer and its rank, from which a dequeue takes the oldest item of any producer
(the queue orders the items of a producer and nothing else). `count` is
`mRawCount` / `mResultCount`, `stopped` is `mStopped`, `holder` the mutex.

A push is `PushCheck` (the test of `stopped()`), `Enqueue`, `AddCount`
(`fetch_add`) and `NotifyOne`. A pop is the fast `tryPop` (`FastPop`/`FastMiss`),
`LockMutex`, the `while (!stopped())` test, the predicate `WaitTest`, `Block` (the
atomic release-and-sleep), the three ways to wake, and `RetryPop` / `LastPop`.
`tryPop` itself is two steps: the dequeue, and `ReturnItem` with the guarded
decrement. `Deadline` is the clock passing a caller's timeout. The owner (`Halt`,
`StopStore`, `StopNotifyAll`, `Clear`, `Start`) is `Scheduler::stop`, which clears
only after all joins, and the next `start`.

`ItemChannel` says what all this is for. It has no counter, mutex or condition variable:
each producer has a stream, two numbers of items pushed and popped. A pop takes the
first item of some stream that nobody has taken (`Pop`, `Return`), or comes back
empty-handed (`PopNothing`) only when every stream is drained *and* its deadline or the
stop has come; what is left after the stop is dropped once all hands are empty
(`Clear`). The refinement mapping (`Channel`) reads `pushed` off the producers' ranks and
`popped` off the queue: the rank of the oldest item of the stream still in it, or all
that was pushed (`PoppedOf`). The task is open until `stopped`, and cleared while the owner
is down. `RetryMissReturns`, the mutant, is a pop that trusts its first look into the
queue after waking up and gives up before the deadline.

The decrement's compare-exchange loop is one atomic step; this is what the loop
implements. Memory orders are not modelled: the atomics are sequentially
consistent here, which x86 gives for the read-modify-writes used.

### 2.2 GroupManager and CaptureFlow

`received[g]` is `mGroups[g]`; the entry exists iff it is not empty. `aged` holds
the groups whose clock has run out, so a timeout is a fact that `checkTimeouts`
finds, not an event. `Report` is `mOnComplete` with its three outcomes (saved,
failed, threw: the last two leave the database alone and go on). `Release` is
`allow_next_group`. `CollectOverdue` takes all overdue groups first and finalises
them one by one, as the code does.

The camera of `CaptureFlow` takes the token, runs LOAD and GOTO_CAM
(`BeginGroup` or `StageFails`, which gives the token back), snaps, pushes
(refused when the queue has been stopped in the meantime), and goes on with
CAM_NEXT (`NextFace`) or leaves the group. `Detect` is a worker publishing its one
result for a frame, in any order. `StopCamera`, `StopGroupManager` and
`StopQueue` are the flags of `Scheduler::stop` in its order.

Facts taken from the code outside these files: `Config.cpp:56` replaces a
group timeout of 0, so the clock always runs; the camera numbers groups from 1
and faces from 0 to 3, so the test for invalid results (`group_manager.cpp:40-44`)
has nothing to refuse.

### 2.3 CameraThread

The steps of the capture thread are those between which another thread can act:
`SingleWait` (100 ms wait for a request), `SingleSnap` (under the mutex),
`LockAllow`, `TestToken` (the predicate), `Block` (sleep), `StageReady` /
`StageFails`, `SnapFace`, `PushFace` / `PushRefused`. `GiveToken` and `NotifyToken`
are the two halves of `allow_next_group` on the group manager's thread.
The HTTP thread issues one request at a time: a task start (with the roll-back
of a start that fails), a task stop, or a single capture with a camera of its own
or the task's; `StopFlag`, `FailSingle`, `NotifyCamera` are the three parts of
`CameraThread::stop`.

Observations. The branch of `stop()` that fails a pending promise is dead in this
server: `stop` and the capture run on the same HTTP thread, so no request is
pending when `stop` is called (the model keeps the step). And the retry loop of a face
reads the stop flag and no request: `SnapFace`, a Snap that succeeds, is therefore an
action outside `Capture` and without fairness. While the Snaps of a face fail, a single
capture stays unanswered, and the only HTTP thread, which waits for it, can receive no
stop. `docs/STATIC_ANALYSIS.md:184` knows the endless group, not the request it holds up;
`docs/capture_flow.md:51` has a failed Snap of a group lead to an ERROR state.
`CaptureAnswered` names this as the only case: without `<>[](cpc = "faces")` TLC finds the
request that waits while the camera stays in `faces`.

### 2.4 TaskLifecycle

A request is a sequence of the HTTP thread's steps. `ControlAdd` stops a running
task first, then `Spawn` starts the workers, `AllReady` / `SomeFailed` are the
loop of `waitUntilReady`, `DeviceStarts` / `DeviceFails` the group manager and the
camera, `Halt` / `Join` the stop. `SingleStarts`, `SingleEnds`, `CameraStop`
borrow, release and destroy the camera object; destroying it resets
`mGroupSequence`. `Inspect` numbers a group and upserts it, under the run id of
the process. Starting the device may fail each time it is tried.

`RequestsEnd` is about these sequences only. It takes from below that a worker reports
(the condition variable of the start-up handshake is in no module), that a join ends
(`CameraThread`: unless the stop notification is lost, 3.3.4), and that a single capture is
answered (`CameraThread`: unless the Snaps of a face fail for ever).

### 2.5 InspectionRecords and InspectionRepository

`disk` is the committed content of the tables: the registered runs, the status of
each group row, the `face_id` of each face row, the defect rows as pairs of a
`face_id` and a detection, and the next `AUTOINCREMENT` value. `work` is what the
connection of the current save sees. `Boot` is `main` up to `register_run`; a save is
`Begin` (connection, `BEGIN`), `UpsertGroup`, and for each face `UpsertFace` (upsert and
`SELECT`), `ClearDefects` and `InsertDefect`s, then `Commit`. `Fail` is an exception out
of any of these calls, or a refused `COMMIT`: the destructor of `SQLiteHelper` closes
the connection. `Crash` ends the process anywhere.

The refinement mapping reads, for each run and group id, the status and the
defects of each face (through its `face_id`) out of the committed tables.
`InspectionRecords` says that only a save changes a record, at once and to exactly
the group's result, where GOOD means four processed faces without a defect.

SQLite is external: that a transaction becomes visible whole or not at all, and
that foreign keys are enforced (the connection asks for it), is taken from it.

### 2.6 DetectRequest, ImageSlices, HalconProcessor, DetectionPipeline, SingleDetection

One worker thread owns a pipeline, which owns a processor, which owns a save thread;
one HTTP thread puts a task in the worker's queue and waits for its promise. The
modules follow these owners. `worker`, `stage` and `caller` are where the worker is in
`SingleDetectThread`, in the pipeline and in the processor; `saver` is the save thread,
`http` the HTTP thread.

* `DetectRequest` is `parseDetectParams` with its helpers: where the values of a
  request come from, what an unreadable value falls back to, and `Valid`, the tests
  of `validate`. A request is a record of values from small sets.
* `ImageSlices` has the two tests of the region of interest, the five slices around a
  candidate (`Slices`), what a slice shows of the image (`Copied`), and the way of a box
  back into the image. Sizes are integers, a candidate's centre is given in half
  pixels: an odd slice centred on a half pixel is where truncation matters.
* `HalconProcessor`: the save thread takes a task under the mutex (`testing`, `asleep`
  are the predicate and the sleep), writes, then decrements `pending` and notifies in
  two steps without the mutex. The caller waits with the same condition variable.
  `SaveMissed` and `StopMissed` name the two states in which a notification came
  between a test and its sleep (`HalconProcessor.cpp:149`, `:14`).
* `DetectionPipeline`: `Configure` keeps or drops each model by its own rule
  (`configureModels`); then the stages `ReadImage`, `Preprocess`, `FindCandidates`,
  `CutSlices`, `Detect`, `Segment`, `Report`, `Collect`, each of which may fail, leave early or
  throw, and each leaves through the wait for the save. Suppression of overlapping boxes
  is any choice among the candidates, returned by descending score (`ByScore`): which ones
  it keeps is numerical, that it keeps no other is not. `InOrder` is the list of the
  detections whose masks are left, as the loops over the masks build it.
* `SingleDetection`: `AddRequest` is the handler, with the refusals; `PushTask`,
  `NotifyWorker`, `Reply` are `submitAndWait`; `Cancel`, `FailQueued`, `NotifyStop`, `Join` are
  `stop` and `join`; the worker runs the pipeline between `WorkerTests` and
  `CompleteTask`, and destroys it when it leaves.

Observations. An answer does not tell that the skeleton image could not be saved;
the file it names is then missing or that of an earlier request (`SkeletonSettled` says
so). YOLO's detections are kept when SAM
cannot be loaded, but one whose mask comes out empty is dropped. Boxes are clipped at the left and upper edge only. A slice
one pixel wide, which `validate` lets through, shows the pixel to the left of its centre, so
`CentreIsShown` asks for two. A failing request can
be answered only after the save it started, which is what `RequestAnswered` needs
`SaveMissed` for: that wait has no timeout, and the HTTP thread waits for it.

### 2.7 SlideSerial and SlideDialogue

`SlideSerial` is the client. `wire` is what the port has received, `buffer` is `mBuffer`,
`lines` is `mLines`. A symbol is a text or an end of line, so a line may hold noise, half
a reply, or two replies; `ReadsSymbol` drops a line that grows too long, and what
follows it starts a line. `Close` is three steps, as other threads see it: the flag,
the join (with what was not read), the buffers.

`SlideDialogue` is `captureLoop` from the tests of a group to its end, with `start`, `stop`
and `join` on the HTTP thread. A command is `SendCommand` (`WriteLine`, which may report
a failure of a command that has gone out), then `TakeLines` any number of times, which
takes *all* lines and lets the first telling one decide, or `GiveUp`. After a failure the
loop begins with LOAD again, where the code also sends LOAD; the lines are drained
there, and only there.

The controller is external: what it answers is taken from `docs/serial_manual.md`
and from the texts the code waits for. It may lose or garble a command, refuse a flow
while another one runs, lose a reply, answer late or never, and send other text at
any quiet moment. A turn is done in one of two dialects, because the documents differ:
`README.md:167-168` has one reply to CAM_NEXT at the end of the turn,
`docs/serial_manual.md:49,68` one reply at once and `POS_DONE` at the end.

`turned` are the turns the stage has accepted since the workpiece was loaded, `moving`
those of them not done yet, `missed` the CAM_NEXTs since then that turned nothing because
they were lost or garbled. `PictureOfItsFace` is what the code guarantees: with the stage, a
picture is taken at the camera, between two flows, and its face is `turned + missed`, in
either dialect. In the first one `missed` and `moving` are then 0: the picture of face i
is taken at rest, after exactly i turns. In the second one they need not be. The code, which
waits for either reply, takes a picture while the stage turns (with `moving = 0` as an
invariant TLC finds it after the first CAM_NEXT), and the end of that turn can answer a later CAM_NEXT that was lost.

Named assumptions about time, each of which the model needs:

* A line takes far less time than a command's deadline (20 s): the deadline passes only
  when nothing is on the wire or undrained.
* A command reaches the controller before a flow or a turn can end.
* The 100 ms wait of the loop before a group is longer than what the reader needs for
  what has arrived: `ReadFile` returns 50 ms after the last byte.
* An end of line is not lost, and the axis events of a flow, `POS_DONE` among them, come before
  its DONE. The `POS_DONE` of a turn may come at any time (`EndTurn`).

Observations. `docs/capture_flow.md` says that a timeout leads to an ERROR state and
manual intervention; the code goes on with LOAD. A port that cannot be opened is
logged, and the capture goes on without a stage: four pictures of one face make a
group (`Start`, `Push` with `~handle`).

## 3. The runs

`tlc -config X.cfg M` for each; the whole set takes a few minutes.

| Run | Specification, bounds | Distinct states | Shows |
|---|---|---|---|
| `RawChannel.cfg` / `MCQueueManager` | 1 producer, 2 consumers, 2 pushes, 2 tasks, timed waits | 63,226 | `CounterCoversQueue`, `ChannelDelivers`, `CounterNeverWraps`, `TaskIsolation`, `EveryItemPopped`, `StopTerminates` |
| `CaptureFlow.cfg` | 2 groups of 2 faces | 88,584 | `CameraNeverStarved`, `BackPressure`, `UntimedGroupExact`, `EveryFaceReported`, `TokenReturns` |
| `CameraThread.cfg` | 2 faces, requests without end | 1,400 | `NoSleepOnToken`, `SleepIsOwed`, `CaptureAnswered`, `StopEndsOutsideWindow` |
| `TaskLifecycle.cfg` | 2 workers, 3 workpieces, requests without end | 604 | `ReadyBeforeAcquisition`, `AtRest`, `KeptCameraKeepsRows`, `RequestsEnd` |
| `InspectionRepository.cfg` | 2 runs of the program, 1 group id, 2 faces, 1 defect, failures and restarts without end | 124,616 | `AnswerTrue`, `RowsLinked`, `SavesAtomically` |
| `SingleDetection.cfg` / `MCSingleDetection` | 4 usable and 4 refused requests in any order, with cancellations; 2 devices, 2 engines, 2 image sizes | 55,264 | `ModelsOfTask`, `ModelsOnDevice`, `SkeletonSettled`, `AcceptedIsUsable`, `CentreIsShown`, `ReportedDetections`, `RequestAnswered`, `CancelEnds` |
| `SlideDialogue.cfg` / `MCSlideDialogue` | 4 faces, groups and sessions without end, 4 symbols on the wire, lines of 2 texts | 415,013 | `PictureOfItsFace`, `SessionIsClosed`, `StopEnds` |
| `LostNotification.cfg`, `PhantomCount.cfg` / `QueueManager` | 2 producers, 1 consumer, 1 push each | violation | see 3.3 |
| `LateResult.cfg` / `CaptureFlow` | 2 groups of 2 faces | violation | see 3.3 |
| `LostStop.cfg` / `CameraThread` | 2 faces | violation | see 3.3 |
| `ReusedGroupId.cfg` / `TaskLifecycle` | 2 workers, 3 workpieces | violation | see 3.3 |

### 3.1 Why the bounds are enough

* A channel's hazards need one item and: a producer between `enqueue` and
  `fetch_add` with two consumers (one takes the item early, one misreads the
  counter), or an item left by a first task with a second one to see it. Two
  pushes give a counter above 1. The result channel's shape (2 producers, 1
  consumer, 2 pushes) and 2 producers with 2 consumers pass the same properties;
  they take longer and show nothing else, and the proofs of section 4 cover every
  size.
* `FaceCount` is 2 where the code has 4: completing a group needs a first face, a
  last one, and results out of order between them and between groups. Nothing in
  the code tells the second of four faces from the third. Two groups are what a
  late result, a token given too early, or two overdue groups at once need.
* Three workpieces are two in one task, one in the next, with every request
  between; two workers are one ready while the other one fails or is loading.
* Two runs with a group each are two records whose rows interleave in the tables,
  saved again and again in any order with any result of two faces; with one
  record a defect could not be put under the wrong face of another one.
* The requests of `SingleDetection` change one after the other the engine file, the SAM
  models and the device, back and forth, and one of them crops and masks; the
  refused ones fail a different test each. Two images: one the region of interest fits,
  one it does not. The candidates lie on half pixels, at the edges and in the middle.
* `SlideDialogue` has the code's four faces. Four symbols on the wire are two replies,
  one of them late or garbled; lines of two texts are what it takes for a line that
  holds two replies, and for one that is too long.
* `CounterMax` (99) is what the unsigned counter would hold after 0 - 1; any
  number above the pushes of a model does.

### 3.2 Fairness

* Every thread that can run does (`WF` on its steps), the clocks advance
  (`Deadline`, `Age`), and loading a model, a stage command or a Snap ends some time, with
  success or without.
* No fairness is assumed of what the outside world decides: which request comes
  when, whether the stage answers or fails, whether a Snap of a group ever succeeds,
  spurious wake-ups, halting a task.
* `CameraThread` has `SF` for `GiveToken` and for the HTTP thread's steps: they lock
  a mutex that the capture thread takes again and again for a short time.
  A mutex that starves a waiter for ever is outside the model. `SingleDetection` has
  `SF` for the same reason for the HTTP thread, the calls into the processor and the
  save thread.
* `SlideDialogue` assumes fairness of the threads only: `Join`, `Capture` without Snap, and
  the reader. `StopEnds` therefore holds though every Snap fails, the controller never
  answers and noise never ends.

### 3.3 Where the code does not do what is said of it

1. `NoLostNotification` (`queue_manager.hpp:19-21`, `docs/STATIC_ANALYSIS.md:20`): the
   counter is raised and the notification sent without the mutex, so both fall
   between a consumer's test and its sleep. `EveryItemPopped` holds nevertheless,
   because all callers pass a timeout of 100 or 200 ms.
2. `GuardOnlyForTeardown` (`queue_manager.cpp:42-43`): an item can be dequeued
   before it is counted in normal operation; the guard then leaves a count for an
   item that is gone. The counter's invariants hold nevertheless.
3. `OneResultPerGroup` (`group_manager.hpp:18`): a result later than its group's
   timeout opens the group again; the second, again incomplete report replaces
   the first one in the database.
4. `StopTerminates` of `CameraThread` (`Scheduler.cpp:136-137`): the stop
   notification can fall between the camera's test and its sleep. That wait has
   no timeout, the group manager ends without another token, and the join waits
   for ever. `StopEndsOutsideWindow` shows that this window is the only one.
5. `OneWorkpiecePerRow` (`README.md:463`): after a single capture between two tasks
   the camera object is new and numbers from 1, the run id is not; another
   workpiece replaces the row. `KeptCameraKeepsRows` shows that nothing else does.

## 4. The proofs

`tlapm M.tla` for each `*Proofs` module. The theorems hold for every value of
the constants that satisfies the modules' named assumptions: finite sets of
threads and positive counts. Every invariant and every action property of a passing run
is the statement of a theorem. A few theorems state what no run checks: they are defined
in the proof modules, next to the invariant they follow from (`EveryItemOnce`,
`EveryFaceOnce`, `NoFaceLost`, `CaptureHeard`, `NoLateSleep`, `WaitsAreServed`), or are
corollaries (`NoStrandedItem`).

* `QueueManagerProofs`. `TypeCorrect`, `CounterCovers`, `NothingStranded`,
  `CounterBounded`, `TasksIsolated`, `ItemsHandedOnce` and the refinement
  `ChannelImplemented`. `CounterCoversQueue` needs two facts it does not state: a
  consumer has an item in its hands exactly between the dequeue and the decrement
  (`HandsOK`), and between two tasks every thread is gone and the channel is empty
  (`Quiet`). With them each step moves the four terms of the inequality by
  known amounts: `Enqueue` raises the queue and the uncounted producers together,
  `AddCount` moves one from the latter to the counter, a dequeue moves one item
  into a consumer's hands, and the guarded decrement takes one from each side
  or from the left alone. One lemma per kind of step; `NoStrandedItem` follows from
  the inequality; `TaskIsolation` needs that tasks start only from `Quiet`. That the
  counter never wraps follows from a second inequality (`PushInv`): the counter and the
  increments still to come are at most the pushes of this task, counted by producer and rank.
  The refinement needs to know what the queue holds of each stream: a contiguous range of
  ranks that ends with the last item sent. Then a dequeue of an oldest item of a producer
  raises its `popped` by one and leaves the other streams alone, and a queue found empty
  means that all streams are drained. Each step of the code is shown to be one step of
  `ItemChannel` or none. `EveryItemOnce` adds where the items are: queued, held by one
  consumer or handed over, never at two places, and nothing that was not pushed.
* `CameraThreadProofs`. `TypeCorrect`, `TokenNotMissed`, `SleepAlwaysOwed`,
  `CaptureNeverForgotten`, `StopLostOnlyInWindow`. The
  invariant says who owns the camera in each step of the HTTP thread (`Ownership`),
  that a sleeper has either no token or a notification under way (`TokenSeen`), and
  that between two groups a camera without a token is owed one (`TokenAccounted`):
  what a failed stage command, a refused push or a short group could break. The last two
  theorems are the safety that `CaptureAnswered` and `StopEndsOutsideWindow` rest on. While the
  HTTP thread waits for a picture without an answer, its request is pending at a
  camera that has neither stopped nor left its loop (`CaptureHeard`); this also proves
  the observation of 2.3 that `stop` finds no pending promise. And no camera begins to
  wait for a token after the stop flag is set (`NoLateSleep`), so a stop can be lost only
  in the window of 3.3.4.
* `TaskLifecycleProofs`. `ModelsFirst`, `NothingHalfDone`, `RowsKept`. The
  strengthening says, for each step of a request, which threads exist and who has
  the camera (`Steps`, `AtWork`), and that every used row is below
  `mGroupSequence` while no numbering camera has been destroyed (`Numbering`).
* `InspectionRepositoryProofs`. `TypeCorrect`, `AnswersTrue`, `RowsAlwaysLinked`, and the
  refinement `SavesAreAtomic`. The invariant says that face ids are distinct and
  below the next one (`Tables`), that the transaction differs from the committed
  tables in the rows of its own group only (`SameElsewhere`), and how much of the
  group it has written (`Written`, `ThisFace`). `AtCommit` concludes that `COMMIT` replaces
  one record by the whole result; every other step leaves what a reader sees.

* `CaptureFlowProofs`. `TypeCorrect`, `CameraFed`, `UntimedExact`, `OneGroupUnderWay`,
  `FacesOnce`, `FacesKept`.
  `FedInv` follows the token from the camera's hands through the frames, the queues and the
  group manager: while the camera has none, one of them will give it back. `ExactInv`
  says what each frame, result and entry belongs to, and that a group is reported
  short only after a timeout; `OneInv` that without a timeout nothing of an older group
  is left anywhere once the token is back. `EveryFaceOnce` holds with timeouts as well: a
  captured face is with the workers, in the result queue, with its group or in its
  report, and in one of them only, so a late result makes a second report (3.3.3) but
  with other faces; the duplicates `handleResult` ignores never come. `NoFaceLost` is an
  action property: before the queue is stopped no step of any thread loses a face.
* `SingleDetectionProofs`. `TypeCorrect`, `TaskModels`, `ModelsWithDevice`, `AnsweredIsSettled`,
  `ParametersUsable`, `CentresShown`, `ReportsSeen`, `NobodyWaitsForSleeper`. `ModelInv` follows the four reuse rules of `configureModels` through every
  request. `TaskSaveInv` relates the HTTP thread, the worker, the stage and the save thread
  (`SaveCount`: `pending` is what is queued or being saved; `SaveMade`: whose file
  is on the disk). `RequestInv` says that whatever is queued or at work has passed `Valid`;
  that the later tests then cannot fail is arithmetic, for any set of requests whose
  integer members are integers (`RequestAssumption`). `CutInv` carries what `processSource`
  keeps from stage to stage: the centres lie in the image that is cut and the slices
  are theirs. With it `CentresShown` is the arithmetic of two truncated halves
  (`FirstSlice`, `HalfInside`), for any image, slice size and candidates in the image
  (`ImageAssumption`). `ReportsSeen` follows a detection from the raw list through filter,
  suppression, segmentation and clipping. The lists `InOrder` builds from a set of indices
  are shown to hold exactly its members in ascending order, by the least number for
  which that fails (`LeastNumber`, `EverySetListed`), as no induction theorem of the
  library can be used. `WaitsAreServed` says that the three threads never wait for
  each other in a circle: while the HTTP thread waits for an answer, the worker has the
  task or is about to take it; while it joins, the worker is on its way out; and a worker that
  waits for saves still under way waits for a save thread that runs. What it leaves out are the
  states `SaveMissed` and `StopMissed` of 2.6.
* `SlideSerialProofs` and `SlideDialogueProofs`. `SlideSessionIsClosed`, `TypeCorrect`,
  `PicturesMatchTheirTurns`. `SessionInv` says that only `Start` opens the port, that no
  capture thread is left while it is closed, and that the reader has gone before the
  handle does. For the picture the first module defines what is `Pending` (on the wire,
  in the line under way, in a whole line), when it is `Fresh` (nothing of one kind comes
  after something of another) and that a reply `Ends` its line, and proves what the
  reader, the drain and an arriving text do to the three. `PictureInv` then has one
  conjunct per phase: while LOAD is awaited, all that is left of an older group comes
  before the reply to a LOAD (`Loading`); from there to the picture only this group's
  GOTO_CAM can answer (`Going`); then the stage stays at the camera, and each CAM_NEXT sent
  adds one to `turned` or to `missed` (`AtCamera`). For a controller that answers at the end of
  a turn at most one turn or reply is under way, that of the CAM_NEXT awaited (`InStep`), so a
  missed one is never answered.
  `EndsInv` is why the drain before LOAD misses nothing: with an empty wire no
  reply is left in the line under way.

Only model-checked: the liveness properties, which need fairness (TLAPS proves none under
fairness here): `EveryItemPopped`, `StopTerminates`, `EveryFaceReported`, `TokenReturns`,
`CaptureAnswered`, `StopEndsOutsideWindow`, `RequestsEnd`, `RequestAnswered`, `CancelEnds`,
`StopEnds`. The violations of 3.3 are counterexamples and need no proof; what remains true
beside each of them is proved: `ChannelImplemented` and `CounterCovers` beside 1 and 2,
`FacesOnce` and `UntimedExact` beside 3, `StopLostOnlyInWindow` beside 4, `RowsKept` beside 5.

Every property of a passing run has a mutant: a small change of the code (a lock
dropped, a token not given back, a guard or an increment forgotten) after which
TLC finds it violated.

## 5. What is not modelled

* Images, tensors, device SDKs, image filters, stripe removal, TensorRT, YOLO, SAM:
  numerical code. What remains of a detection is its slice, class, score and box.
* `processFrame`, through which the detection workers enter the same `processSource`: it
  differs in the paths, the saved original and the mask of one face only. A worker's
  frame is one step in `CaptureFlow`.
* The processor's save callback and status query, `extractSlices` on the CPU: nobody calls
  them. `ListPorts` and the normalisation of port names keep no state.
* The parsers of URLs, JSON and the configuration file: work of libraries, sequential.
  A number is a member of a small set, so overflow of a text and "not a number" are left
  out (`detect_request_mapper.cpp:38` is the one place where the latter would matter, and
  a hazard without a property).
* `GET` handlers and health reports: they only read.
* The checks of `Scheduler::start` before anything has been started, and a thread that
  cannot be created.
* The Python tools: one request each.

## 6. Plan

1. The start-up handshake of `DetectThread` with its condition variable, and
   `processFrame` with the pipelines of several workers.
2. One abstract specification of the token that both `CaptureFlow`, which has its groups,
   and `CameraThread`, which has its condition variable, implement.
