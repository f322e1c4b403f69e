-------------------------- MODULE SingleDetection --------------------------
(***************************************************************************)
(* Core/single_detect_thread.{hpp,cpp} with its caller, the HTTP thread    *)
(* (apiSingleDetectAdd, apiSingleDetectCancel and the end of Server::start *)
(* in Core/Server.cpp), the pipeline its worker owns and the save thread   *)
(* of that pipeline's HALCON processor.                                    *)
(*                                                                         *)
(* All handlers run on the one thread of the event loop, so there is at    *)
(* most one request at a time; the worker, the save thread and the HTTP    *)
(* thread interleave.                                                      *)
(***************************************************************************)
EXTENDS DetectionPipeline

CONSTANT Requests

\* What intValue returns is an int.
IntKeys == {"crop_x", "crop_y", "crop_width", "crop_height", "circle_x1", "circle_y1",
            "circle_x2", "circle_y2", "radius", "slice_width", "slice_height",
            "slice_distance", "gpu_device"}

ASSUME RequestAssumption ==
    \A r \in Requests : \A key \in IntKeys \cap DOMAIN r.values :
        r.values[key] = Unreadable \/ r.values[key] \in Int

VARIABLES
    object,     \* g_single_thread
    running,    \* mRunning
    tasks,      \* mTasks
    http,       \* the HTTP thread
    next,       \* the parameters of its request
    worker,     \* the worker thread
    answer      \* the task of the request: ok and done

sdVars == <<object, running, tasks, http, next, worker, answer>>
vars == <<sdVars, dpVars, hpVars>>

HttpStates   == {"idle", "push", "notify", "waiting", "fail", "notifyStop", "join"}
WorkerStates == {"none", "run", "testing", "asleep", "work", "leave", "reset", "gone"}

\* The requests the handler goes on with: parsed, and with an image that is a file.
Usable == {r \in Requests : Accepted(r) /\ ParsedParams(r).input_image_path # ""}
Params == {ParsedParams(r) : r \in Usable}

TypeOK ==
    /\ object \in BOOLEAN /\ running \in BOOLEAN
    /\ tasks \in Seq(Params) /\ Len(tasks) <= 1
    /\ http \in HttpStates /\ worker \in WorkerStates
    /\ next \in Params \cup {NoParams} /\ asked \in Params \cup {NoParams}
    /\ params \in Params \cup {NoParams}
    /\ answer \in {"none", "pending", "ok", "failed"}
    /\ HpTypeOK /\ pending <= 1
    /\ stage \in Stages
    /\ gpu \in Int /\ device \in Nat /\ configured \in BOOLEAN

Init ==
    /\ object = FALSE /\ running = FALSE /\ tasks = <<>>
    /\ http = "idle" /\ next = NoParams /\ worker = "none" /\ answer = "none"
    /\ DpInit /\ HpInit

Http(from, to)   == http = from /\ http' = to
Worker(from, to) == worker = from /\ worker' = to
TaskMutexFree    == worker # "testing"
Aged(file)       == IF file = "own" THEN "older" ELSE file

-----------------------------------------------------------------------------
(* The HTTP thread.                                                        *)

\* apiSingleDetectAdd up to submitAndWait.  The first request constructs the
\* object, with a pipeline and its save thread, and start() creates the worker.
\* A refused request changes nothing.
AddRequest ==
    /\ Http("idle", "push")
    /\ \E r \in Usable : next' = ParsedParams(r)
    /\ skeleton' = Aged(skeleton) /\ saveResult' = "none"
    /\ IF object
       THEN UNCHANGED <<object, running, worker, device, saver, caller, stopSaver,
                        saveQueue, pending>>
       ELSE /\ object' = TRUE /\ Construct
            /\ running' = TRUE /\ worker' = "run" /\ device' = 0
    /\ UNCHANGED <<tasks, answer, stage, gpu, configured, params, detector, sam, asked,
                   work, result>>

\* submitAndWait under mQueueMutex.
PushTask ==
    /\ http = "push" /\ TaskMutexFree
    /\ IF running
       THEN http' = "notify" /\ tasks' = Append(tasks, next) /\ answer' = "pending"
       ELSE http' = "idle" /\ answer' = "failed" /\ UNCHANGED tasks
    /\ UNCHANGED <<object, running, next, worker, dpVars, hpVars>>

\* mQueueCondition.notify_one(), without the mutex.
NotifyWorker ==
    /\ Http("notify", "waiting")
    /\ worker' = IF worker = "asleep" THEN "run" ELSE worker
    /\ UNCHANGED <<object, running, tasks, next, answer, dpVars, hpVars>>

\* task->done: the reply is sent.
Reply ==
    /\ Http("waiting", "idle") /\ answer # "pending"
    /\ next' = NoParams /\ answer' = "none" /\ result' = NoResult
    /\ UNCHANGED <<object, running, tasks, worker, stage, device, gpu, configured,
                   params, detector, sam, asked, work, hpVars>>

\* stop(): the flag, without the mutex ...
Cancel ==
    /\ Http("idle", "fail") /\ object
    /\ running' = FALSE
    /\ UNCHANGED <<object, tasks, next, worker, answer, dpVars, hpVars>>

StopWithoutQueue ==     \* mutant: stop() does not go through the queue
    /\ Http("fail", "notifyStop")
    /\ UNCHANGED <<object, running, tasks, next, worker, answer, dpVars, hpVars>>

\* ... failPendingTasks, which takes it ...
FailQueued ==
    /\ Http("fail", "notifyStop") /\ TaskMutexFree
    /\ tasks' = <<>> /\ answer' = IF tasks = <<>> THEN answer ELSE "failed"
    /\ UNCHANGED <<object, running, next, worker, dpVars, hpVars>>

\* ... and notify_all.
NotifyStop ==
    /\ Http("notifyStop", "join")
    /\ worker' = IF worker = "asleep" THEN "run" ELSE worker
    /\ UNCHANGED <<object, running, tasks, next, answer, dpVars, hpVars>>

\* join(), and the object is destroyed.
Join ==
    /\ Http("join", "idle") /\ worker = "gone"
    /\ object' = FALSE /\ worker' = "none"
    /\ UNCHANGED <<running, tasks, next, answer, dpVars, hpVars>>

HttpThread == \/ PushTask \/ NotifyWorker \/ Reply
              \/ FailQueued \/ NotifyStop \/ Join

-----------------------------------------------------------------------------
(* The worker.                                                             *)

\* Lock and test the predicate; it stays in the queue's mutex until it sleeps.
WorkerTests ==
    /\ worker = "run"
    /\ \/ /\ tasks # <<>>
          /\ worker' = "work" /\ stage' = "configure"
          /\ asked' = Head(tasks) /\ tasks' = Tail(tasks)
       \/ /\ tasks = <<>> /\ ~running /\ worker' = "leave"
          /\ UNCHANGED <<stage, asked, tasks>>
       \/ /\ tasks = <<>> /\ running /\ worker' = "testing"
          /\ UNCHANGED <<stage, asked, tasks>>
    /\ UNCHANGED <<object, running, http, next, answer, cacheVars, work, result, hpVars>>

WorkerSleeps ==
    /\ Worker("testing", "asleep")
    /\ UNCHANGED <<object, running, tasks, http, next, answer, dpVars, hpVars>>

\* A step of the pipeline.
PipelineStep ==
    /\ worker = "work"
    /\ \/ /\ \/ Configure \/ SelectDevice \/ LoadDetector \/ LoadSegmenter
             \/ ReadImage
          /\ UNCHANGED hpVars
       \/ Preprocess \/ FindCandidates \/ CutSlices \/ Detect
       \/ Segment \/ Report \/ Collect \/ Collected
    /\ UNCHANGED sdVars

\* completeTask
CompleteTask ==
    /\ Worker("work", "run")
    /\ stage \in {"refused", "result"} /\ stage' = "idle"
    /\ answer' = IF stage = "result" /\ result.ok THEN "ok" ELSE "failed"
    /\ asked' = NoParams /\ work' = NoWork
    /\ UNCHANGED <<object, running, tasks, http, next, cacheVars, result, hpVars>>

\* After the loop: failPendingTasks, then mPipeline.reset() on this thread, which
\* destroys the processor first.
WorkerLeaves ==
    /\ Worker("leave", "reset")
    /\ tasks' = <<>> /\ answer' = IF tasks = <<>> THEN answer ELSE "failed"
    /\ stopSaver' = TRUE /\ caller' = "stopping"
    /\ UNCHANGED <<object, running, http, next, dpVars, saver, saveQueue, pending,
                   skeleton, saveResult>>

ResetPipeline ==
    /\ Worker("reset", "gone") /\ caller = "destroyed"
    /\ running' = FALSE
    /\ sam' = NoModel /\ detector' = NoModel /\ gpu' = -1
    /\ configured' = FALSE /\ params' = NoParams
    /\ UNCHANGED <<object, tasks, http, next, answer, stage, device, asked, work, result,
                   hpVars>>

WorkerThread == \/ WorkerTests \/ WorkerSleeps \/ PipelineStep \/ CompleteTask
                \/ WorkerLeaves \/ ResetPipeline
ProcessorCall == Caller /\ UNCHANGED <<sdVars, dpVars>>
SaveThread    == Saver /\ UNCHANGED <<sdVars, dpVars>>

Spurious ==
    \/ SpuriousWake /\ UNCHANGED <<sdVars, dpVars>>
    \/ /\ Worker("asleep", "run")
       /\ UNCHANGED <<object, running, tasks, http, next, answer, dpVars, hpVars>>

Next == \/ AddRequest \/ Cancel \/ HttpThread
        \/ WorkerThread \/ ProcessorCall \/ SaveThread \/ Spurious

Spec == Init /\ [][Next]_vars

\* Every thread runs, and gets a mutex that is free again and again; nobody has to
\* send a request or a cancellation, and no spurious wake-up has to come.
Fairness == /\ SF_vars(HttpThread) /\ WF_vars(WorkerThread)
            /\ SF_vars(ProcessorCall) /\ SF_vars(SaveThread)
FairSpec == Spec /\ Fairness

-----------------------------------------------------------------------------
\* A task is processed with its own parameters, by a detector of its engine and,
\* if at all, by the SAM models it selects, loaded for its device (the reuse rules of
\* configureModels).
ModelsOfTask ==
    stage \in UsingModels =>
        /\ configured /\ params = asked
        /\ detector = [file |-> EngineFile(asked), device |-> asked.gpu_device]
        /\ sam # NoModel => sam = [files |-> SamFiles(asked), device |-> asked.gpu_device]

\* Models live on the device that is current on the thread that uses and
\* destroys them, and it is the device of the parameters they were loaded for
\* (resetDeviceResources before cudaSetDevice; reset at the end of worker()).
ModelsOnDevice ==
    /\ detector # NoModel => detector.device = device
    /\ sam # NoModel => sam.device = device
    /\ stage \in UsingModels => device = asked.gpu_device

\* When a request is answered, no save is under way, and the file its answer
\* names was written for it, unless that very save failed: then the file is
\* missing or that of an earlier request, and the answer does not tell.
SkeletonSettled ==
    http = "waiting" /\ answer \in {"ok", "failed"} =>
        /\ pending = 0 /\ saveQueue = <<>> /\ saver \notin {"saving", "saved"}
        /\ answer = "ok" => skeleton = "own" \/ saveResult = "failed"

\* What validate() lets through, no later stage rejects for another reason than
\* the size of the image.
AcceptedIsUsable ==
    stage # "idle" =>
        /\ asked.gpu_device >= 0 /\ EngineFile(asked) # ""
        /\ ~SlicesRejected(asked) /\ ~ThresholdsRejected(asked) /\ ~MaskRejected(asked)
        /\ ~CropRejected(asked, [w |-> asked.crop_x + asked.crop_width,
                                 h |-> asked.crop_y + asked.crop_height])

\* The first slice of a candidate shows the pixel of its centre, however its start
\* is truncated; a slice of one pixel, which validate() allows, may show the one before.
CentreIsShown ==
    stage = "detect" /\ params.slice_width >= 2 /\ params.slice_height >= 2 =>
        \A i \in DOMAIN work.centers :
            LET first == work.starts[(i - 1) * Len(SliceOffsets) + 1]
            IN  Covers(Copied(params, first, work.size),
                       Half(work.centers[i].x2), Half(work.centers[i].y2))

\* The part of a box that lies in the image.
Seen(box, size) ==
    [x0 |-> Larger(0, box.x0), y0 |-> Larger(0, box.y0),
     x1 |-> Smaller(box.x1, size.w), y1 |-> Smaller(box.y1, size.h)]

\* Every detection reported is one the detector saw in a slice, of an allowed
\* class and a sufficient score; in the image its box covers what it covered in
\* the slice, and a measure was taken on its own mask.
ReportedDetections ==
    stage = "report" =>
        /\ \A i \in DOMAIN work.found :
              \E r \in DOMAIN work.raw :
                  LET raw == work.raw[r]
                      box == work.found[i].box
                  IN  /\ work.found[i] = [raw EXCEPT !.box = box]
                      /\ raw.score >= asked.conf_threshold
                      /\ ClassAllowed(asked, raw.class)
                      /\ NonEmpty(box) /\ box.x0 >= 0 /\ box.y0 >= 0
                      /\ Seen(box, work.size)
                            = Seen(Moved(raw.box, work.starts[raw.slice]), work.size)
        /\ sam # NoModel => work.measures = work.found

\* A request is answered, unless the one notification that the saves are done was
\* sent between the test of its waiter and its sleep.
RequestAnswered == http = "push" ~> http = "idle" \/ SaveMissed

\* A cancellation ends, unless the save thread missed its stop in the same way.
CancelEnds == http = "fail" ~> http = "idle" \/ StopMissed
=============================================================================
