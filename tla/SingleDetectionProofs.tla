------------------------ MODULE SingleDetectionProofs ------------------------
(***************************************************************************)
(* Proofs about SingleDetection, for any requests, models, images, devices *)
(* and detections.                                                         *)
(***************************************************************************)
EXTENDS SingleDetection, FiniteSetTheorems, WellFoundedInduction, TLAPS

-----------------------------------------------------------------------------
(* The models.  ModelInv says how far the cache is configured at each      *)
(* stage; a thread that has ended holds no models, so that the next one    *)
(* may start on the default device.                                        *)

DetectorOf(p) == [file |-> EngineFile(p), device |-> p.gpu_device]
SamOf(p)      == [files |-> SamFiles(p), device |-> p.gpu_device]
Configured    == {"read", "preprocess", "halcon", "slices", "detect", "segment",
                  "report", "collect", "collecting"}

ModelInv ==
    /\ detector # NoModel => detector = [file |-> detector.file, device |-> device]
    /\ sam # NoModel => sam = [files |-> sam.files, device |-> device]
    /\ gpu # -1 => gpu = device
    /\ worker # "work" => stage = "idle"
    /\ worker \in {"none", "gone"} => detector = NoModel /\ sam = NoModel /\ gpu = -1
    /\ ~object => worker = "none"
    /\ stage \in {"detector", "segmenter"} \cup Configured => device = asked.gpu_device
    /\ stage \in {"segmenter"} \cup Configured => detector = DetectorOf(asked)
    /\ stage \in Configured =>
          configured /\ params = asked /\ (sam # NoModel => sam = SamOf(asked))

LEMMA ModelInit == Init => ModelInv
  BY DEF Init, DpInit, HpInit, ModelInv, Configured

\* Steps that leave the pipeline alone.
LEMMA ModelOutside ==
  ASSUME ModelInv, UNCHANGED <<stage, device, gpu, configured, params, detector, sam, asked>>,
         worker' = worker \/ (worker' \notin {"work", "none", "gone"} /\ worker # "work"),
         ~object' => worker' = "none"
  PROVE  ModelInv'
  BY DEF ModelInv, Configured, DetectorOf, SamOf, EngineFile, SamFiles, SamFile

LEMMA ModelStep == ModelInv /\ [Next]_vars => ModelInv'
<1> SUFFICES ASSUME ModelInv, [Next]_vars PROVE ModelInv'
    OBVIOUS
<1>1. CASE AddRequest
  BY <1>1 DEF AddRequest, Http, Construct, ModelInv, Configured, DetectorOf, SamOf
<1>2. CASE HttpThread \/ Cancel
  <2>1. CASE Join
    BY <1>2, <2>1 DEF Join, Http, ModelInv, dpVars, Configured, DetectorOf, SamOf
  <2>2. CASE PushTask \/ NotifyWorker \/ Reply \/ FailQueued \/ NotifyStop \/ Cancel
    BY <2>2, ModelOutside DEF PushTask, NotifyWorker, Reply, FailQueued, NotifyStop, Cancel,
       Http, dpVars, ModelInv
  <2>3. HttpThread => Join \/ PushTask \/ NotifyWorker \/ Reply \/ FailQueued \/ NotifyStop
    BY Zenon DEF HttpThread
  <2>4. QED BY <1>2, <2>1, <2>2, <2>3
<1>3. CASE WorkerTests
  BY <1>3 DEF WorkerTests, cacheVars, ModelInv, Configured, DetectorOf, SamOf
<1>4. CASE WorkerSleeps \/ WorkerLeaves
  BY <1>4, ModelOutside DEF WorkerSleeps, WorkerLeaves, Worker, dpVars, ModelInv
<1>5. CASE CompleteTask
  BY <1>5 DEF CompleteTask, Worker, cacheVars, ModelInv, Configured, DetectorOf, SamOf
<1>6. CASE ResetPipeline
  BY <1>6 DEF ResetPipeline, Worker, ModelInv, Configured, DetectorOf, SamOf
<1>7. CASE PipelineStep
  <2> USE DEF ModelInv, Configured, DetectorOf, SamOf, sdVars
  <2>1. worker = "work" /\ UNCHANGED sdVars
    BY <1>7 DEF PipelineStep
  <2>2. CASE Configure
    <3>1. asked.gpu_device = -1 => asked.gpu_device < 0
      OBVIOUS
    <3>2. stage' = "detector" => gpu = asked.gpu_device /\ gpu # -1
      BY <2>2, <3>1, Zenon DEF Configure
    <3>3. stage' \in {"refused", "select", "detector"} /\ UNCHANGED <<cacheVars, asked>>
      BY <2>2, Zenon DEF Configure
    <3>4. QED BY <2>1, <3>2, <3>3 DEF cacheVars
  <2>3. CASE SelectDevice
    BY <2>1, <2>3 DEF SelectDevice
  <2>4. CASE LoadDetector
    BY <2>1, <2>4 DEF LoadDetector, DetectorLoaded
  <2>5. CASE LoadSegmenter
    BY <2>1, <2>5 DEF LoadSegmenter, Stage, SamLoaded
  <2>6. CASE \/ ReadImage \/ Preprocess \/ FindCandidates \/ CutSlices \/ Detect
             \/ Segment \/ Report \/ Collect \/ Collected
    <3>1. UNCHANGED <<cacheVars, asked>>
      BY <2>6 DEF ReadImage, Preprocess, FindCandidates, CutSlices, Detect, Segment, Report,
         Collect, Collected
    <3>2. stage \in Configured /\ stage' \in Configured \cup {"result"}
      BY <2>6 DEF ReadImage, Preprocess, FindCandidates, CutSlices, Detect, Segment, Report,
         Collect, Collected, Stage, Fail, Leave
    <3>3. QED BY <2>1, <3>1, <3>2 DEF cacheVars
  <2>7. QED BY <1>7, <2>2, <2>3, <2>4, <2>5, <2>6 DEF PipelineStep
<1>8. CASE ProcessorCall \/ SaveThread \/ UNCHANGED vars
  BY <1>8, ModelOutside DEF ProcessorCall, SaveThread, vars, sdVars, dpVars, ModelInv
<1>9. CASE Spurious
  BY <1>9, ModelOutside DEF Spurious, Worker, sdVars, dpVars, ModelInv
<1>10. QED
  BY <1>1, <1>2, <1>3, <1>4, <1>5, <1>6, <1>7, <1>8, <1>9 DEF Next, WorkerThread

LEMMA ModelAlways == Spec => []ModelInv
  BY ModelInit, ModelStep, PTL DEF Spec

\* Every task is processed with its own parameters and with the models they select,
\* however the cache was used, refused or reset before.
THEOREM TaskModels == Spec => []ModelsOfTask
<1>1. ModelInv => ModelsOfTask
  BY DEF ModelInv, ModelsOfTask, UsingModels, Configured, DetectorOf, SamOf
<1>2. QED BY <1>1, ModelAlways, PTL

\* Models are only ever used and destroyed while their device is the current one.
THEOREM ModelsWithDevice == Spec => []ModelsOnDevice
<1>1. ModelInv => ModelsOnDevice
  <2> SUFFICES ASSUME ModelInv PROVE ModelsOnDevice
      OBVIOUS
  <2>1. detector # NoModel => detector.device = device
    BY DEF ModelInv
  <2>2. sam # NoModel => sam.device = device
    BY DEF ModelInv
  <2>3. stage \in UsingModels => device = asked.gpu_device
    BY DEF ModelInv, UsingModels, Configured
  <2>4. QED BY <2>1, <2>2, <2>3 DEF ModelsOnDevice
<1>2. QED BY <1>1, ModelAlways, PTL

-----------------------------------------------------------------------------
(* The skeleton file.  SaveCount ties the counter of pending saves to the  *)
(* queue and to the save thread; a save is only pending between the search *)
(* for candidates and the end of the pipeline's wait; and from that search *)
(* on, the file of a successful request is written, is about to be, or has *)
(* failed.                                                                 *)

SaveCount ==
    \/ saveQueue = <<>> /\ saver \notin {"saving", "saved"} /\ pending = 0
    \/ saveQueue = <<>> /\ saver \in {"saving", "saved"} /\ pending = 1
    \/ saveQueue = <<"overlay">> /\ saver \notin {"saving", "saved"} /\ pending = 1

SaveMade ==
    \/ saveQueue # <<>> \/ saver = "saving"
    \/ skeleton = "own" \/ saveResult = "failed"

Searched == {"slices", "detect", "segment", "report"}
Leaving  == {"collect", "collecting"}

\* The task of the request is in the queue or at work only while its answer is
\* awaited.
TaskInv ==
    /\ tasks # <<>> => Tail(tasks) = <<>>
    /\ tasks # <<>> \/ worker = "work" =>
          http \in {"notify", "waiting"} /\ answer = "pending"
    /\ worker = "work" => tasks = <<>>
    /\ worker # "work" => stage = "idle"
    /\ answer = "ok" => http \in {"notify", "waiting"}

SaveInv ==
    /\ SaveCount
    /\ stage \notin Searched \cup Leaving => pending = 0
    /\ caller = "returned" => pending = 0
    /\ result = [ok |-> result.ok, skeleton |-> result.skeleton,
                 detections |-> result.detections]
    /\ stage \in Searched \/ (stage \in Leaving \cup {"result"} /\ result.ok) => SaveMade
    /\ answer = "ok" => skeleton = "own" \/ saveResult = "failed"

TaskSaveInv == TaskInv /\ SaveInv

LEMMA TaskInit == Init => TaskSaveInv
  BY DEF Init, DpInit, HpInit, NoResult, TaskSaveInv, TaskInv, SaveInv, SaveCount, SaveMade,
     Searched, Leaving

\* Steps inside the processor.
LEMMA SaveThreadCounts ==
  ASSUME SaveInv, Saver, UNCHANGED <<stage, result, answer>>
  PROVE  SaveInv'
<1> USE DEF SaveInv, SaveCount, SaveMade, Searched, Leaving
<1>1. CASE SaverTests
  BY <1>1 DEF SaverTests
<1>2. CASE SaverSleeps
  BY <1>2 DEF SaverSleeps
<1>3. CASE SaverSaves
  BY <1>3 DEF SaverSaves
<1>4. CASE SaverCounts
  BY <1>4 DEF SaverCounts
<1>5. CASE SaverNotifies
  BY <1>5 DEF SaverNotifies, NotifyAllQueue
<1>6. CASE SaverLeaves
  BY <1>6 DEF SaverLeaves, NotifyAllQueue
<1>7. QED BY <1>1, <1>2, <1>3, <1>4, <1>5, <1>6 DEF Saver

LEMMA CallerCounts ==
  ASSUME SaveInv, Caller, UNCHANGED <<stage, result, answer>>
  PROVE  SaveInv'
<1> USE DEF SaveInv, SaveCount, SaveMade, Searched, Leaving
<1>1. CASE NotifySaver
  BY <1>1 DEF NotifySaver
<1>2. CASE CallerTests
  BY <1>2 DEF CallerTests
<1>3. CASE CallerSleeps
  BY <1>3 DEF CallerSleeps
<1>4. CASE DestructorNotifies
  BY <1>4 DEF DestructorNotifies, NotifyAllQueue
<1>5. CASE DestructorJoins
  BY <1>5 DEF DestructorJoins
<1>6. QED BY <1>1, <1>2, <1>3, <1>4, <1>5 DEF Caller

\* Steps of the two other threads that do not touch the processor.
LEMMA SaveOutside ==
  ASSUME TaskSaveInv, TaskInv', UNCHANGED <<hpVars, stage, result>>,
         answer' = "ok" => answer = "ok"
  PROVE  TaskSaveInv'
  BY DEF TaskSaveInv, SaveInv, SaveCount, SaveMade, hpVars

LEMMA TaskStep == TaskSaveInv /\ [Next]_vars => TaskSaveInv'
<1> SUFFICES ASSUME TaskSaveInv, [Next]_vars PROVE TaskSaveInv'
    OBVIOUS
<1> USE DEF TaskSaveInv
<1>1. CASE AddRequest
  <2>1. worker # "work" /\ stage = "idle" /\ tasks = <<>> /\ answer # "ok"
    BY <1>1 DEF AddRequest, Http, TaskInv
  <2>2. TaskInv'
    BY <1>1, <2>1 DEF AddRequest, Http, Construct, TaskInv
  <2>3. SaveInv'
    BY <1>1, <2>1 DEF AddRequest, Construct, SaveInv, SaveCount, SaveMade, Searched, Leaving
  <2>4. QED BY <2>2, <2>3
<1>2. CASE PushTask
  <2>1. TaskInv'
    BY <1>2 DEF PushTask, TaskInv, dpVars
  <2>2. QED BY <1>2, <2>1, SaveOutside DEF PushTask, dpVars
<1>3. CASE NotifyWorker \/ FailQueued \/ NotifyStop \/ Join \/ Cancel
  <2>1. TaskInv' /\ (answer' = "ok" => answer = "ok")
    BY <1>3 DEF NotifyWorker, FailQueued, NotifyStop, Join, Cancel, Http, TaskInv, dpVars
  <2>2. UNCHANGED <<hpVars, stage, result>>
    BY <1>3 DEF NotifyWorker, FailQueued, NotifyStop, Join, Cancel, dpVars
  <2>3. QED BY <2>1, <2>2, SaveOutside
<1>4. CASE Reply
  <2>1. worker # "work" /\ stage = "idle"
    BY <1>4 DEF Reply, Http, TaskInv
  <2>2. QED BY <1>4, <2>1 DEF Reply, Http, TaskInv, hpVars, NoResult, SaveInv, SaveCount, SaveMade,
       Searched, Leaving
<1>5. CASE WorkerTests
  BY <1>5 DEF WorkerTests, TaskInv, hpVars, SaveInv, SaveCount, SaveMade, Searched, Leaving
<1>6. CASE WorkerSleeps
  BY <1>6, SaveOutside DEF WorkerSleeps, Worker, TaskInv, dpVars
<1>7. CASE CompleteTask
  BY <1>7 DEF CompleteTask, Worker, TaskInv, hpVars, SaveInv, SaveCount, SaveMade, Searched, Leaving
<1>8. CASE WorkerLeaves
  BY <1>8 DEF WorkerLeaves, Worker, TaskInv, dpVars, SaveInv, SaveCount, SaveMade, Searched, Leaving
<1>9. CASE ResetPipeline
  BY <1>9, SaveOutside DEF ResetPipeline, Worker, TaskInv
<1>10. CASE PipelineStep
  <2>1. worker = "work" /\ UNCHANGED sdVars /\ TaskInv'
    BY <1>10 DEF PipelineStep, TaskInv, sdVars
  <2>2. answer # "ok" /\ answer' # "ok"
    BY <2>1 DEF TaskInv, sdVars
  <2> USE DEF SaveInv, SaveCount, SaveMade, Searched, Leaving
  <2>3. CASE (Configure \/ SelectDevice \/ LoadDetector \/ LoadSegmenter) /\ UNCHANGED hpVars
    <3>1. stage \notin Searched \cup Leaving /\ stage' \notin Searched \cup Leaving \cup {"result"}
      BY <2>3 DEF Configure, SelectDevice, LoadDetector, LoadSegmenter, Stage
    <3>2. UNCHANGED <<hpVars, result>>
      BY <2>3 DEF Configure, SelectDevice, LoadDetector, LoadSegmenter
    <3>3. QED BY <2>1, <2>2, <3>1, <3>2 DEF hpVars
  <2>4. CASE ReadImage /\ UNCHANGED hpVars
    BY <2>1, <2>2, <2>4 DEF ReadImage, NoResult, hpVars
  <2>5. CASE Preprocess
    BY <2>1, <2>2, <2>5 DEF Preprocess, Fail, Leave, Stage, hpVars
  <2>6. CASE FindCandidates
    <3>1. pending = 0 /\ saveQueue = <<>>
      BY <2>6 DEF FindCandidates
    <3>2. CASE stage' = "slices" /\ QueueSave /\ result' = [result EXCEPT !.skeleton = TRUE]
      <4>1. /\ result'.ok = result.ok
            /\ result' = [ok |-> result'.ok, skeleton |-> result'.skeleton,
                          detections |-> result'.detections]
        BY <3>2
      <4>2. saver \notin {"saving", "saved"} /\ caller # "returned" /\ UNCHANGED saver
            /\ caller' # "returned"
        BY <3>1, <3>2 DEF QueueSave
      <4>3. SaveMade' /\ SaveCount'
        <5>1. CASE saveQueue' = Append(saveQueue, "overlay") /\ pending' = pending + 1
          <6>1. saveQueue' = <<"overlay">> /\ pending' = 1
            BY <3>1, <5>1
          <6>2. QED BY <4>2, <6>1
        <5>2. CASE saveResult' = "failed" /\ UNCHANGED <<saveQueue, pending>>
          BY <3>1, <4>2, <5>2
        <5>3. QED BY <3>2, <5>1, <5>2 DEF QueueSave
      <4>4. QED BY <2>1, <2>2, <3>2, <4>1, <4>2, <4>3
    <3>3. CASE /\ stage' = "result" /\ UNCHANGED hpVars
               /\ \E named \in BOOLEAN : result' = [NoResult EXCEPT !.skeleton = named]
      BY <2>1, <2>2, <3>1, <3>3 DEF NoResult, hpVars
    <3>4. QED BY <2>6, <3>2, <3>3 DEF FindCandidates
  <2>7. CASE CutSlices \/ Detect \/ Segment
    <3>1. stage \in Searched /\ stage' \in Searched \cup {"collect"} /\ UNCHANGED hpVars
      BY <2>7 DEF CutSlices, Detect, Segment, Fail, Leave, Stage
    <3>2. UNCHANGED result \/ \E ok \in BOOLEAN : result' = [result EXCEPT !.ok = ok]
      BY <2>7 DEF CutSlices, Detect, Segment, Fail, Leave, Stage
    <3>3. QED BY <2>1, <2>2, <3>1, <3>2 DEF hpVars
  <2>8. CASE Report
    BY <2>1, <2>2, <2>8 DEF Report, Stage, hpVars
  <2>9. CASE Collect \/ Collected
    BY <2>1, <2>2, <2>9 DEF Collect, Collected, Stage
  <2>10. QED BY <1>10, <2>3, <2>4, <2>5, <2>6, <2>7, <2>8, <2>9 DEF PipelineStep
<1>11. CASE ProcessorCall
  BY <1>11, CallerCounts DEF ProcessorCall, sdVars, dpVars, TaskInv
<1>12. CASE SaveThread
  BY <1>12, SaveThreadCounts DEF SaveThread, sdVars, dpVars, TaskInv
<1>13. CASE Spurious
  <2>1. TaskInv' /\ UNCHANGED <<stage, result, answer, stopSaver, saveQueue, pending, skeleton, saveResult>>
    BY <1>13 DEF Spurious, SpuriousWake, Worker, sdVars, dpVars, hpVars, TaskInv
  <2>2. \/ UNCHANGED <<saver, caller>>
        \/ saver \notin {"saving", "saved"} /\ saver' \notin {"saving", "saved"} /\ UNCHANGED caller
        \/ UNCHANGED saver /\ caller' # "returned"
    BY <1>13 DEF Spurious, SpuriousWake, hpVars
  <2>3. QED BY <2>1, <2>2 DEF SaveInv, SaveCount, SaveMade
<1>14. CASE UNCHANGED vars
  BY <1>14, SaveOutside DEF vars, sdVars, dpVars, TaskInv
<1>15. Next => \/ AddRequest \/ Cancel \/ PushTask \/ NotifyWorker \/ Reply \/ FailQueued
               \/ NotifyStop \/ Join \/ WorkerTests \/ WorkerSleeps \/ PipelineStep
               \/ CompleteTask \/ WorkerLeaves \/ ResetPipeline \/ ProcessorCall
               \/ SaveThread \/ Spurious
  BY Zenon DEF Next, HttpThread, WorkerThread
<1>16. QED
  BY <1>1, <1>2, <1>3, <1>4, <1>5, <1>6, <1>7, <1>8, <1>9, <1>10, <1>11, <1>12, <1>13, <1>14, <1>15

\* A request that is answered has no save under way, and its skeleton file is its own
\* unless that save failed, whatever order the three threads take.
THEOREM AnsweredIsSettled == Spec => []SkeletonSettled
<1>1. TaskSaveInv => SkeletonSettled
  BY DEF TaskSaveInv, TaskInv, SaveInv, SaveCount, SkeletonSettled, Searched, Leaving
<1>2. Spec => []TaskSaveInv
  BY TaskInit, TaskStep, PTL DEF Spec
<1>3. QED BY <1>1, <1>2, PTL

-----------------------------------------------------------------------------
(* The parameters.  Whatever is queued or at work came from a request that *)
(* validate() accepted.                                                    *)

RequestInv ==
    /\ http = "push" => next \in Params
    /\ tasks # <<>> => Head(tasks) \in Params
    /\ stage # "idle" => asked \in Params

LEMMA RequestStep == TaskSaveInv /\ RequestInv /\ [Next]_vars => RequestInv'
<1> SUFFICES ASSUME TaskInv, RequestInv, [Next]_vars PROVE RequestInv'
    BY DEF TaskSaveInv
<1>1. CASE AddRequest
  <2>1. next' \in Params
    BY <1>1 DEF AddRequest, Params
  <2>2. QED BY <1>1, <2>1 DEF AddRequest, RequestInv
<1>2. CASE PushTask
  <2>1. tasks = <<>> /\ next \in Params /\ UNCHANGED <<stage, asked>>
    BY <1>2 DEF PushTask, TaskInv, RequestInv, dpVars
  <2>2. tasks' = <<next>> \/ tasks' = <<>>
    BY <1>2, <2>1 DEF PushTask
  <2>3. http' # "push"
    BY <1>2 DEF PushTask
  <2>4. QED BY <2>1, <2>2, <2>3 DEF RequestInv
<1>3. CASE NotifyWorker \/ Reply \/ FailQueued \/ NotifyStop \/ Join \/ Cancel \/ WorkerLeaves
  BY <1>3 DEF NotifyWorker, Reply, FailQueued, NotifyStop, Join, Cancel, WorkerLeaves, Worker,
     Http, RequestInv, dpVars
<1>4. CASE WorkerTests
  BY <1>4 DEF WorkerTests, TaskInv, RequestInv
<1>5. CASE WorkerSleeps \/ ResetPipeline
  BY <1>5 DEF WorkerSleeps, ResetPipeline, RequestInv, dpVars
<1>6. CASE CompleteTask
  BY <1>6 DEF CompleteTask, RequestInv
<1>7. CASE PipelineStep
  <2>1. UNCHANGED <<sdVars, asked>> /\ stage # "idle"
    BY <1>7 DEF PipelineStep, Configure, SelectDevice, LoadDetector, LoadSegmenter, ReadImage,
       Preprocess, FindCandidates, CutSlices, Detect, Segment, Report, Collect, Collected,
       Stage, Fail, Leave
  <2>2. QED BY <2>1 DEF RequestInv, sdVars
<1>8. CASE ProcessorCall \/ SaveThread \/ UNCHANGED vars
  BY <1>8 DEF ProcessorCall, SaveThread, vars, sdVars, dpVars, RequestInv
<1>9. CASE Spurious
  BY <1>9 DEF Spurious, sdVars, dpVars, RequestInv
<1>10. Next => \/ AddRequest \/ Cancel \/ PushTask \/ NotifyWorker \/ Reply \/ FailQueued
               \/ NotifyStop \/ Join \/ WorkerTests \/ WorkerSleeps \/ PipelineStep
               \/ CompleteTask \/ WorkerLeaves \/ ResetPipeline \/ ProcessorCall
               \/ SaveThread \/ Spurious
  BY Zenon DEF Next, HttpThread, WorkerThread
<1>11. QED
  BY <1>1, <1>2, <1>3, <1>4, <1>5, <1>6, <1>7, <1>8, <1>9, <1>10

\* The members that are compared are ints, given or by default.
LEMMA IntMembers ==
  ASSUME NEW r \in Requests
  PROVE  LET p == ParsedParams(r)
         IN  /\ p.crop_x \in Int /\ p.crop_y \in Int
             /\ p.crop_width \in Int /\ p.crop_height \in Int
             /\ p.circle_x1 \in Int /\ p.circle_y1 \in Int
             /\ p.circle_x2 \in Int /\ p.circle_y2 \in Int /\ p.radius \in Int
             /\ p.slice_width \in Int /\ p.slice_height \in Int
             /\ p.slice_distance \in Int /\ p.gpu_device \in Int
<1>1. ASSUME NEW key \in IntKeys, NEW default \in Int
      PROVE  Value(r, key, default) \in Int
  <2>1. key # "allowed_classes"
    BY DEF IntKeys
  <2>2. QED BY <1>1, <2>1, RequestAssumption DEF Value
<1>2. ASSUME NEW key \in IntKeys
      PROVE  ParsedParams(r)[key] = Value(r, key, DefaultParams[key])
  <2>1. key \in DOMAIN DefaultParams /\ key # "model_name"
    BY <1>2 DEF IntKeys, DefaultParams
  <2>2. QED BY <2>1 DEF ParsedParams
<1>3. ASSUME NEW key \in IntKeys
      PROVE  DefaultParams[key] \in Int
  <2>1. /\ DefaultParams.crop_x = 0 /\ DefaultParams.crop_y = 0
        /\ DefaultParams.crop_width = 0 /\ DefaultParams.crop_height = 0
    BY DEF DefaultParams
  <2>2. /\ DefaultParams.circle_x1 = 0 /\ DefaultParams.circle_y1 = 0
        /\ DefaultParams.circle_x2 = 0 /\ DefaultParams.circle_y2 = 0
        /\ DefaultParams.radius = 0
    BY DEF DefaultParams
  <2>3. /\ DefaultParams.slice_width = 2 /\ DefaultParams.slice_height = 2
        /\ DefaultParams.slice_distance = 1 /\ DefaultParams.gpu_device = 0
    BY DEF DefaultParams
  <2>4. QED BY <1>3, <2>1, <2>2, <2>3 DEF IntKeys
<1>4. \A key \in IntKeys : ParsedParams(r)[key] \in Int
  BY <1>1, <1>2, <1>3
<1>5. QED BY <1>4 DEF IntKeys

\* What validate() lets through, no later stage rejects but for the size of the
\* image, whatever the request.
THEOREM ParametersUsable == Spec => []AcceptedIsUsable
<1>1. Init => RequestInv
  BY DEF Init, DpInit, RequestInv
<1>2. TaskSaveInv /\ RequestInv => AcceptedIsUsable
  <2> SUFFICES ASSUME RequestInv, stage # "idle"
               PROVE  /\ asked.gpu_device >= 0 /\ EngineFile(asked) # ""
                      /\ ~SlicesRejected(asked) /\ ~ThresholdsRejected(asked)
                      /\ ~MaskRejected(asked)
                      /\ ~CropRejected(asked, [w |-> asked.crop_x + asked.crop_width,
                                               h |-> asked.crop_y + asked.crop_height])
      BY DEF AcceptedIsUsable
  <2>1. PICK r \in Requests : asked = ParsedParams(r) /\ Valid(asked)
    BY DEF RequestInv, Params, Usable, Accepted
  <2>2. /\ asked.crop_x \in Int /\ asked.crop_y \in Int
        /\ asked.crop_width \in Int /\ asked.crop_height \in Int
        /\ asked.circle_x1 \in Int /\ asked.circle_y1 \in Int
        /\ asked.circle_x2 \in Int /\ asked.circle_y2 \in Int /\ asked.radius \in Int
        /\ asked.slice_width \in Int /\ asked.slice_height \in Int /\ asked.gpu_device \in Int
    BY <2>1, IntMembers
  <2>3. /\ asked.gpu_device >= 0 /\ EngineFile(asked) # ""
        /\ ThresholdsValid(asked) /\ SlicesValid(asked) /\ CropValid(asked) /\ MaskValid(asked)
    BY <2>1, Zenon DEF Valid
  <2>4. ~SlicesRejected(asked)
    <3>1. asked.slice_width > 0 /\ asked.slice_height > 0
      BY <2>3 DEF SlicesValid
    <3>2. QED BY <2>2, <3>1 DEF SlicesRejected
  <2>5. ~ThresholdsRejected(asked)
    <3>1. asked.nms_threshold \in 1..100 /\ asked.conf_threshold \in 1..100
      BY <2>3 DEF ThresholdsValid
    <3>2. ~(asked.nms_threshold <= 0) /\ ~(asked.conf_threshold <= 0)
      BY <3>1
    <3>3. QED BY <3>2 DEF ThresholdsRejected
  <2>6. ~MaskRejected(asked)
    <3>1. CASE asked.is_qw
      <4>1. /\ asked.circle_x1 >= 0 /\ asked.circle_y1 >= 0
            /\ asked.circle_x2 >= 0 /\ asked.circle_y2 >= 0 /\ asked.radius > 0
        BY <2>3, <3>1, Zenon DEF MaskValid
      <4>2. ~(\/ asked.circle_x1 < 0 \/ asked.circle_y1 < 0
              \/ asked.circle_x2 < 0 \/ asked.circle_y2 < 0 \/ asked.radius <= 0)
        BY <2>2, <4>1
      <4>3. QED BY <4>2, Zenon DEF MaskRejected
    <3>2. CASE ~asked.is_qw
      BY <3>2, Zenon DEF MaskRejected
    <3>3. QED BY <3>1, <3>2
  <2>7. ~CropRejected(asked, [w |-> asked.crop_x + asked.crop_width,
                              h |-> asked.crop_y + asked.crop_height])
    <3>1. CASE asked.enable_four_side_crop
      <4>1. /\ asked.crop_x >= 0 /\ asked.crop_y >= 0
            /\ asked.crop_width > 0 /\ asked.crop_height > 0
        BY <2>3, <3>1, Zenon DEF CropValid
      <4>2. ~(\/ asked.crop_x < 0 \/ asked.crop_y < 0
              \/ asked.crop_width <= 0 \/ asked.crop_height <= 0
              \/ asked.crop_x + asked.crop_width > asked.crop_x + asked.crop_width
              \/ asked.crop_y + asked.crop_height > asked.crop_y + asked.crop_height)
        BY <2>2, <4>1
      <4>3. QED BY <4>2, Zenon DEF CropRejected
    <3>2. CASE ~asked.enable_four_side_crop
      BY <3>2, Zenon DEF CropRejected
    <3>3. QED BY <3>1, <3>2
  <2>8. QED BY <2>3, <2>4, <2>5, <2>6, <2>7
<1>3. QED BY <1>1, <1>2, TaskInit, TaskStep, RequestStep, PTL DEF Spec
-----------------------------------------------------------------------------
(* Types.  The queue and the counters are bounded by the two invariants    *)
(* above; a device that is selected comes from an accepted request.        *)

\* What the HTTP thread and the worker share.
SharedTypes ==
    /\ object \in BOOLEAN /\ running \in BOOLEAN
    /\ http \in HttpStates /\ worker \in WorkerStates
    /\ next \in Params \cup {NoParams}
    /\ answer \in {"none", "pending", "ok", "failed"}

PipelineTypes ==
    /\ asked \in Params \cup {NoParams} /\ params \in Params \cup {NoParams}
    /\ stage \in Stages
    /\ gpu \in Int /\ device \in Nat /\ configured \in BOOLEAN

\* The save thread and its caller, but for the queue and its counter.
ProcessorTypes ==
    /\ saver \in SaverStates /\ caller \in CallerStates /\ stopSaver \in BOOLEAN
    /\ skeleton \in {"none", "own", "older"} /\ saveResult \in {"none", "done", "failed"}

\* One save at most is pending.
LEMMA SavesTyped ==
  ASSUME TaskSaveInv
  PROVE  /\ saveQueue \in Seq({"overlay"}) /\ pending \in Nat /\ pending <= 1
<1>1. saveQueue = <<>> \/ saveQueue = <<"overlay">>
  BY DEF TaskSaveInv, SaveInv, SaveCount
<1>2. pending = 0 \/ pending = 1
  BY DEF TaskSaveInv, SaveInv, SaveCount
<1>3. <<"overlay">> \in Seq({"overlay"}) /\ <<>> \in Seq({"overlay"})
  OBVIOUS
<1>4. saveQueue \in Seq({"overlay"})
  BY <1>1, <1>3, Zenon
<1>5. pending \in Nat /\ pending <= 1
  BY <1>2
<1>6. QED BY <1>4, <1>5

LEMMA SharedTypesStep ==
  ASSUME SharedTypes, TaskSaveInv, RequestInv, [Next]_vars
  PROVE  SharedTypes'
<1> USE DEF SharedTypes, HttpStates, WorkerStates
<1>1. CASE AddRequest
  <2>1. next' \in Params
    BY <1>1 DEF AddRequest, Params
  <2>2. QED BY <1>1, <2>1 DEF AddRequest, Http
<1>2. CASE PushTask \/ NotifyWorker \/ Reply \/ FailQueued \/ NotifyStop \/ Join \/ Cancel
  BY <1>2 DEF PushTask, NotifyWorker, Reply, FailQueued, NotifyStop, Join, Cancel, Http
<1>3. CASE WorkerTests \/ WorkerSleeps \/ CompleteTask \/ WorkerLeaves \/ ResetPipeline
  BY <1>3 DEF WorkerTests, WorkerSleeps, CompleteTask, WorkerLeaves, ResetPipeline, Worker
<1>4. CASE PipelineStep \/ ProcessorCall \/ SaveThread \/ UNCHANGED vars
  BY <1>4 DEF PipelineStep, ProcessorCall, SaveThread, vars, sdVars
<1>5. CASE Spurious
  BY <1>5 DEF Spurious, sdVars, Worker
<1>6. Next => \/ AddRequest \/ Cancel \/ PushTask \/ NotifyWorker \/ Reply \/ FailQueued
              \/ NotifyStop \/ Join \/ WorkerTests \/ WorkerSleeps \/ PipelineStep
              \/ CompleteTask \/ WorkerLeaves \/ ResetPipeline \/ ProcessorCall
              \/ SaveThread \/ Spurious
  BY Zenon DEF Next, HttpThread, WorkerThread
<1>7. QED BY <1>1, <1>2, <1>3, <1>4, <1>5, <1>6

\* A task at work has asked for a device that exists as a number.
LEMMA DeviceOfTask ==
  ASSUME RequestInv, stage # "idle" PROVE asked.gpu_device \in Nat
<1>1. PICK r \in Requests : asked = ParsedParams(r) /\ Valid(asked)
  BY DEF RequestInv, Params, Usable, Accepted
<1>2. asked.gpu_device \in Int
  BY <1>1, IntMembers
<1>3. asked.gpu_device >= 0
  BY <1>1, Zenon DEF Valid
<1>4. QED BY <1>2, <1>3

LEMMA PipelineTypesStep ==
  ASSUME PipelineTypes, TaskSaveInv, RequestInv, [Next]_vars
  PROVE  PipelineTypes'
<1> USE DEF PipelineTypes, Stages
<1>1. CASE AddRequest
  BY <1>1 DEF AddRequest
<1>2. CASE WorkerTests
  <2>1. tasks # <<>> => Head(tasks) \in Params
    BY DEF RequestInv
  <2>2. QED BY <1>2, <2>1 DEF WorkerTests, cacheVars
<1>3. CASE CompleteTask
  BY <1>3 DEF CompleteTask, cacheVars
<1>4. CASE ResetPipeline
  <2>1. params' = NoParams /\ gpu' = -1 /\ configured' = FALSE
        /\ stage' = stage /\ device' = device /\ asked' = asked
    BY <1>4 DEF ResetPipeline
  <2>2. gpu' \in Int
    BY <2>1
  <2>3. QED BY <2>1, <2>2, Zenon
<1>5. CASE \/ Cancel \/ PushTask \/ NotifyWorker \/ Reply \/ FailQueued \/ NotifyStop \/ Join
           \/ WorkerSleeps \/ WorkerLeaves \/ ProcessorCall \/ SaveThread \/ Spurious
           \/ UNCHANGED vars
  BY <1>5 DEF Cancel, PushTask, NotifyWorker, Reply, FailQueued, NotifyStop, Join, WorkerSleeps,
     WorkerLeaves, ProcessorCall, SaveThread, Spurious, vars, dpVars
<1>6. CASE PipelineStep
  <2>1. CASE Configure
    <3>1. stage' \in {"refused", "select", "detector"} /\ UNCHANGED <<cacheVars, asked>>
      BY <2>1, Zenon DEF Configure
    <3>2. QED BY <3>1 DEF cacheVars
  <2>2. CASE SelectDevice
    <3>1. asked.gpu_device \in Nat
      BY <2>2, DeviceOfTask DEF SelectDevice
    <3>2. gpu' = asked.gpu_device \/ gpu' = -1
      BY <2>2 DEF SelectDevice
    <3>3. device' = asked.gpu_device \/ device' = device
      BY <2>2 DEF SelectDevice
    <3>4. stage' \in {"detector", "refused"} /\ configured' = FALSE
          /\ params' = params /\ asked' = asked
      BY <2>2 DEF SelectDevice
    <3>5. gpu' \in Int /\ device' \in Nat
      BY <3>1, <3>2, <3>3
    <3>6. stage' \in Stages /\ configured' \in BOOLEAN
      BY <3>4
    <3>7. QED BY <3>4, <3>5, <3>6, Zenon
  <2>3. CASE LoadDetector
    BY <2>3 DEF LoadDetector
  <2>4. CASE LoadSegmenter
    BY <2>4 DEF LoadSegmenter, Stage
  <2>5. CASE \/ ReadImage \/ Preprocess \/ FindCandidates \/ CutSlices \/ Detect
             \/ Segment \/ Report \/ Collect \/ Collected
    <3>1. UNCHANGED <<cacheVars, asked>>
      BY <2>5 DEF ReadImage, Preprocess, FindCandidates, CutSlices, Detect, Segment, Report,
         Collect, Collected
    <3>2. stage' \in Stages
      BY <2>5 DEF ReadImage, Preprocess, FindCandidates, CutSlices, Detect, Segment, Report,
         Collect, Collected, Stage, Fail, Leave
    <3>3. QED BY <3>1, <3>2 DEF cacheVars
  <2>6. QED BY <1>6, <2>1, <2>2, <2>3, <2>4, <2>5 DEF PipelineStep
<1>7. Next => \/ AddRequest \/ Cancel \/ PushTask \/ NotifyWorker \/ Reply \/ FailQueued
              \/ NotifyStop \/ Join \/ WorkerTests \/ WorkerSleeps \/ PipelineStep
              \/ CompleteTask \/ WorkerLeaves \/ ResetPipeline \/ ProcessorCall
              \/ SaveThread \/ Spurious
  BY Zenon DEF Next, HttpThread, WorkerThread
<1>8. QED BY <1>1, <1>2, <1>3, <1>4, <1>5, <1>6, <1>7

LEMMA ProcessorTypesStep ==
  ASSUME ProcessorTypes, [Next]_vars
  PROVE  ProcessorTypes'
<1> USE DEF ProcessorTypes, SaverStates, CallerStates
<1>1. CASE AddRequest
  BY <1>1 DEF AddRequest, Construct, Aged
<1>2. CASE WorkerLeaves
  BY <1>2 DEF WorkerLeaves
<1>3. CASE \/ Cancel \/ PushTask \/ NotifyWorker \/ Reply \/ FailQueued \/ NotifyStop \/ Join
           \/ WorkerTests \/ WorkerSleeps \/ CompleteTask \/ ResetPipeline \/ UNCHANGED vars
  BY <1>3 DEF Cancel, PushTask, NotifyWorker, Reply, FailQueued, NotifyStop, Join, WorkerTests,
     WorkerSleeps, CompleteTask, ResetPipeline, vars, hpVars
<1>4. CASE PipelineStep
  <2>1. CASE FindCandidates
    BY <2>1 DEF FindCandidates, QueueSave, hpVars
  <2>2. CASE Collect \/ Collected
    BY <2>2 DEF Collect, Collected
  <2>3. CASE UNCHANGED hpVars
    BY <2>3 DEF hpVars
  <2>4. Preprocess \/ CutSlices \/ Detect \/ Segment \/ Report => UNCHANGED hpVars
    BY DEF Preprocess, CutSlices, Detect, Segment, Report
  <2>5. QED BY <1>4, <2>1, <2>2, <2>3, <2>4 DEF PipelineStep
<1>5. CASE ProcessorCall
  BY <1>5 DEF ProcessorCall, Caller, NotifySaver, CallerTests, CallerSleeps, DestructorNotifies,
     DestructorJoins, NotifyAllQueue
<1>6. CASE SaveThread
  BY <1>6 DEF SaveThread, Saver, SaverTests, SaverSleeps, SaverSaves, SaverCounts, SaverNotifies,
     SaverLeaves, NotifyAllQueue
<1>7. CASE Spurious
  BY <1>7 DEF Spurious, SpuriousWake, hpVars
<1>8. Next => \/ AddRequest \/ Cancel \/ PushTask \/ NotifyWorker \/ Reply \/ FailQueued
              \/ NotifyStop \/ Join \/ WorkerTests \/ WorkerSleeps \/ PipelineStep
              \/ CompleteTask \/ WorkerLeaves \/ ResetPipeline \/ ProcessorCall
              \/ SaveThread \/ Spurious
  BY Zenon DEF Next, HttpThread, WorkerThread
<1>9. QED BY <1>1, <1>2, <1>3, <1>4, <1>5, <1>6, <1>7, <1>8

\* The queue only ever grows by a typed request when it is empty.
TasksTyped == tasks \in Seq(Params) /\ Len(tasks) <= 1

LEMMA TasksTypedStep ==
  ASSUME TasksTyped, TaskSaveInv, RequestInv, [Next]_vars
  PROVE  TasksTyped'
<1>1. CASE UNCHANGED tasks
  BY <1>1 DEF TasksTyped
<1>2. CASE tasks' = <<>>
  BY <1>2 DEF TasksTyped
<1>3. CASE PushTask
  <2>1. tasks = <<>> /\ next \in Params
    BY <1>3 DEF PushTask, TaskSaveInv, TaskInv, RequestInv
  <2>2. tasks' = <<next>> \/ UNCHANGED tasks
    BY <1>3, <2>1 DEF PushTask
  <2>3. <<next>> \in Seq(Params) /\ Len(<<next>>) = 1
    BY <2>1
  <2>4. CASE tasks' = <<next>>
    BY <2>3, <2>4 DEF TasksTyped
  <2>5. QED BY <1>1, <2>2, <2>4
<1>4. CASE WorkerTests
  <2>1. tasks' = <<>> \/ UNCHANGED tasks
    BY <1>4 DEF WorkerTests, TaskSaveInv, TaskInv
  <2>2. QED BY <1>1, <1>2, <2>1
<1>5. CASE FailQueued \/ WorkerLeaves
  BY <1>2, <1>5 DEF FailQueued, WorkerLeaves
<1>6. CASE \/ AddRequest \/ Cancel \/ NotifyWorker \/ Reply \/ NotifyStop \/ Join
           \/ WorkerSleeps \/ PipelineStep \/ CompleteTask \/ ResetPipeline
           \/ ProcessorCall \/ SaveThread \/ Spurious \/ UNCHANGED vars
  BY <1>1, <1>6 DEF AddRequest, Cancel, NotifyWorker, Reply, NotifyStop, Join, WorkerSleeps,
     PipelineStep, CompleteTask, ResetPipeline, ProcessorCall, SaveThread, Spurious, vars, sdVars
<1>7. Next => \/ AddRequest \/ Cancel \/ PushTask \/ NotifyWorker \/ Reply \/ FailQueued
              \/ NotifyStop \/ Join \/ WorkerTests \/ WorkerSleeps \/ PipelineStep
              \/ CompleteTask \/ WorkerLeaves \/ ResetPipeline \/ ProcessorCall
              \/ SaveThread \/ Spurious
  BY Zenon DEF Next, HttpThread, WorkerThread
<1>8. QED BY <1>3, <1>4, <1>5, <1>6, <1>7

\* Every variable of the single-image part keeps its type; one task at most is queued
\* and one save at most is pending.
THEOREM TypeCorrect == Spec => []TypeOK
<1> DEFINE Types == SharedTypes /\ PipelineTypes /\ ProcessorTypes /\ TasksTyped
<1>1. Init => Types /\ RequestInv
  <2> SUFFICES ASSUME Init PROVE Types /\ RequestInv
    OBVIOUS
  <2>1. SharedTypes
    BY DEF Init, SharedTypes, HttpStates, WorkerStates
  <2>2. PipelineTypes
    <3>1. gpu \in Int /\ device \in Nat
      BY DEF Init, DpInit
    <3>2. asked = NoParams /\ params = NoParams /\ stage \in Stages /\ configured \in BOOLEAN
      BY DEF Init, DpInit, Stages
    <3>3. QED BY <3>1, <3>2, Zenon DEF PipelineTypes
  <2>3. ProcessorTypes
    BY DEF Init, HpInit, ProcessorTypes, SaverStates, CallerStates
  <2>4. TasksTyped /\ RequestInv
    BY DEF Init, DpInit, TasksTyped, RequestInv
  <2>5. QED BY <2>1, <2>2, <2>3, <2>4
<1>2. Types /\ TaskSaveInv /\ RequestInv /\ [Next]_vars => Types'
  BY SharedTypesStep, PipelineTypesStep, ProcessorTypesStep, TasksTypedStep
<1>3. Types /\ TaskSaveInv /\ RequestInv => TypeOK
  BY SavesTyped DEF SharedTypes, PipelineTypes, ProcessorTypes, TasksTyped, TypeOK, HpTypeOK
<1>4. QED BY <1>1, <1>2, <1>3, TaskInit, TaskStep, RequestStep, PTL DEF Spec
-----------------------------------------------------------------------------
(* The slices.  From the region of interest to the detector the locals of  *)
(* processSource agree: every centre lies in the image that is cut, and    *)
(* the slices are those of these centres.                                  *)

LocalsShaped ==
    work = [size |-> work.size, centers |-> work.centers, starts |-> work.starts,
            raw |-> work.raw, found |-> work.found, measures |-> work.measures]

CentresInImage ==
    /\ work.centers \in Seq([x2 : Nat, y2 : Nat])
    /\ \A i \in DOMAIN work.centers : /\ work.centers[i].x2 < 2 * work.size.w
                                      /\ work.centers[i].y2 < 2 * work.size.h

CutInv ==
    /\ stage \in {"preprocess", "halcon", "slices", "detect"} =>
          LocalsShaped /\ work.size.w \in Int /\ work.size.h \in Int
    /\ stage \in {"slices", "detect"} => CentresInImage
    /\ stage = "detect" => work.starts = Slices(params, work.centers)

\* The parameters of a task at work are ints.
LEMMA TaskMembers ==
  ASSUME RequestInv, stage # "idle"
  PROVE  /\ asked.crop_width \in Int /\ asked.crop_height \in Int
         /\ asked.slice_width \in Int /\ asked.slice_height \in Int
         /\ asked.slice_distance \in Int
<1>1. PICK r \in Requests : asked = ParsedParams(r)
  BY DEF RequestInv, Params, Usable
<1>2. QED BY <1>1, IntMembers

\* Each stage hands the next one locals that agree.
LEMMA CutStep == ModelInv /\ RequestInv /\ CutInv /\ [Next]_vars => CutInv'
<1> SUFFICES ASSUME ModelInv, RequestInv, CutInv, [Next]_vars PROVE CutInv'
    OBVIOUS
<1> DEFINE At == {"preprocess", "halcon", "slices", "detect"}
<1>1. ASSUME stage' \notin At PROVE CutInv'
  BY <1>1 DEF CutInv
<1>2. ASSUME UNCHANGED <<stage, work, params>> PROVE CutInv'
  BY <1>2 DEF CutInv, LocalsShaped, CentresInImage, Slices, SliceStart
<1>3. CASE PipelineStep
  <2>1. CASE Configure \/ SelectDevice \/ LoadDetector \/ LoadSegmenter
    <3>1. stage' \notin At
      BY <2>1 DEF Configure, SelectDevice, LoadDetector, LoadSegmenter, Stage
    <3>2. QED BY <1>1, <3>1
  <2>2. CASE ReadImage
    <3>1. CASE stage' = "result"
      BY <1>1, <3>1
    <3>2. CASE stage' = "preprocess"
      <4>1. PICK size \in ImageSizes : work' = [NoWork EXCEPT !.size = size]
        BY <2>2, <3>2 DEF ReadImage
      <4>2. size.w \in Int /\ size.h \in Int
        BY ImageAssumption
      <4>3. /\ work'.size = size
            /\ work' = [size |-> size, centers |-> work'.centers, starts |-> work'.starts,
                        raw |-> work'.raw, found |-> work'.found, measures |-> work'.measures]
        BY <4>1 DEF NoWork
      <4>4. QED BY <3>2, <4>2, <4>3 DEF CutInv, LocalsShaped
    <3>3. QED BY <2>2, <3>1, <3>2 DEF ReadImage
  <2>3. CASE Preprocess
    <3>1. CASE stage' = "collect"
      BY <1>1, <3>1
    <3>2. CASE stage' = "halcon"
      <4>1. /\ stage = "preprocess" /\ LocalsShaped
            /\ work.size.w \in Int /\ work.size.h \in Int /\ params = asked
        BY <2>3 DEF Preprocess, Fail, Leave, Stage, CutInv, ModelInv, Configured
      <4>2. work' = [work EXCEPT !.size = Processed(params, @)]
        BY <2>3, <3>2 DEF Preprocess, Fail, Leave, Stage
      <4>3. Processed(params, work.size).w \in Int /\ Processed(params, work.size).h \in Int
        BY <4>1, TaskMembers DEF Processed
      <4>4. /\ work'.size = Processed(params, work.size)
            /\ work' = [size |-> work'.size, centers |-> work'.centers, starts |-> work'.starts,
                        raw |-> work'.raw, found |-> work'.found, measures |-> work'.measures]
        BY <4>1, <4>2, Zenon DEF LocalsShaped
      <4>5. QED BY <3>2, <4>3, <4>4 DEF CutInv, LocalsShaped
    <3>3. QED BY <2>3, <3>1, <3>2 DEF Preprocess, Fail, Leave, Stage
  <2>4. CASE FindCandidates
    <3>1. CASE stage' = "result"
      BY <1>1, <3>1
    <3>2. CASE stage' = "slices"
      <4>1. stage = "halcon" /\ LocalsShaped /\ work.size.w \in Int /\ work.size.h \in Int
        BY <2>4 DEF FindCandidates, CutInv
      <4>2. PICK centers \in CandidateSets :
               /\ \A i \in DOMAIN centers : /\ centers[i].x2 < 2 * work.size.w
                                            /\ centers[i].y2 < 2 * work.size.h
               /\ work' = [work EXCEPT !.centers = centers]
        BY <2>4, <3>2 DEF FindCandidates
      <4>3. centers \in Seq([x2 : Nat, y2 : Nat])
        BY ImageAssumption
      <4>4. /\ work'.size = work.size /\ work'.centers = centers
            /\ work' = [size |-> work'.size, centers |-> work'.centers, starts |-> work'.starts,
                        raw |-> work'.raw, found |-> work'.found, measures |-> work'.measures]
        BY <4>1, <4>2 DEF LocalsShaped
      <4>5. CentresInImage' /\ LocalsShaped'
        BY <4>2, <4>3, <4>4 DEF CentresInImage, LocalsShaped
      <4>6. QED BY <3>2, <4>1, <4>4, <4>5 DEF CutInv
    <3>3. QED BY <2>4, <3>1, <3>2 DEF FindCandidates
  <2>5. CASE CutSlices
    <3>1. CASE stage' = "collect"
      BY <1>1, <3>1
    <3>2. CASE stage' = "detect"
      <4>1. /\ stage = "slices" /\ LocalsShaped /\ CentresInImage
            /\ work.size.w \in Int /\ work.size.h \in Int
        BY <2>5 DEF CutSlices, Fail, Leave, Stage, CutInv
      <4>2. work' = [work EXCEPT !.starts = Slices(params, work.centers)] /\ params' = params
        BY <2>5, <3>2 DEF CutSlices, Fail, Leave, Stage, cacheVars
      <4>3. /\ work'.size = work.size /\ work'.centers = work.centers
            /\ work'.starts = Slices(params, work.centers)
            /\ work' = [size |-> work'.size, centers |-> work'.centers, starts |-> work'.starts,
                        raw |-> work'.raw, found |-> work'.found, measures |-> work'.measures]
        BY <4>1, <4>2, Zenon DEF LocalsShaped
      <4>4. CentresInImage' /\ LocalsShaped'
        BY <4>1, <4>3 DEF CentresInImage, LocalsShaped
      <4>5. Slices(params, work.centers)' = Slices(params, work.centers)
        BY <4>2, <4>3 DEF Slices, SliceStart
      <4>6. QED BY <3>2, <4>1, <4>3, <4>4, <4>5 DEF CutInv
    <3>3. stage' = "collect" \/ stage' = "detect"
      BY <2>5 DEF CutSlices, Fail, Leave, Stage
    <3>4. QED BY <3>1, <3>2, <3>3
  <2>6. CASE Detect \/ Segment \/ Report \/ Collect \/ Collected
    <3>1. stage' \notin At
      BY <2>6 DEF Detect, Segment, Report, Collect, Collected, Fail, Leave, Stage
    <3>2. QED BY <1>1, <3>1
  <2>7. QED BY <1>3, <2>1, <2>2, <2>3, <2>4, <2>5, <2>6 DEF PipelineStep
<1>4. CASE WorkerTests
  <2>1. UNCHANGED <<work, params>> /\ (UNCHANGED stage \/ stage' = "configure")
    BY <1>4 DEF WorkerTests, cacheVars
  <2>2. QED BY <1>1, <1>2, <2>1
<1>5. CASE CompleteTask \/ ResetPipeline
  <2>1. stage' = "idle"
    BY <1>5 DEF CompleteTask, ResetPipeline, Worker, ModelInv
  <2>2. QED BY <1>1, <2>1
<1>6. CASE \/ AddRequest \/ Cancel \/ PushTask \/ NotifyWorker \/ Reply \/ FailQueued
           \/ NotifyStop \/ Join \/ WorkerSleeps \/ WorkerLeaves \/ ProcessorCall \/ SaveThread
           \/ Spurious \/ UNCHANGED vars
  BY <1>2, <1>6 DEF AddRequest, Cancel, PushTask, NotifyWorker, Reply, FailQueued, NotifyStop,
     Join, WorkerSleeps, WorkerLeaves, ProcessorCall, SaveThread, Spurious, vars, dpVars
<1>7. Next => \/ AddRequest \/ Cancel \/ PushTask \/ NotifyWorker \/ Reply \/ FailQueued
              \/ NotifyStop \/ Join \/ WorkerTests \/ WorkerSleeps \/ PipelineStep
              \/ CompleteTask \/ WorkerLeaves \/ ResetPipeline \/ ProcessorCall
              \/ SaveThread \/ Spurious
  BY Zenon DEF Next, HttpThread, WorkerThread
<1>8. QED BY <1>3, <1>4, <1>5, <1>6, <1>7

\* An element of a sequence is of the type of its elements.
LEMMA SeqElement == ASSUME NEW S, NEW s \in Seq(S), NEW i \in DOMAIN s PROVE s[i] \in S
  OBVIOUS

\* The first slice of a centre starts half its size before it, rounded towards zero.
LEMMA FirstSlice ==
  ASSUME NEW p, p.slice_distance \in Int, NEW centers \in Seq([x2 : Nat, y2 : Nat]),
         NEW i \in DOMAIN centers, p.slice_width \in Int, p.slice_height \in Int
  PROVE  Slices(p, centers)[(i - 1) * Len(SliceOffsets) + 1]
            = [x |-> Half(centers[i].x2 - p.slice_width),
               y |-> Half(centers[i].y2 - p.slice_height)]
<1>1. Len(SliceOffsets) = 5 /\ SliceOffsets[1] = <<0, 0>>
  BY DEF SliceOffsets
<1>2. i \in Nat /\ Len(centers) \in Nat /\ 1 <= i /\ i <= Len(centers)
  OBVIOUS
<1>3. ASSUME NEW k \in Nat PROVE (5 * k) \div 5 = k /\ (5 * k) % 5 = 0
  OBVIOUS
<1>4. Slices(p, centers)[(i - 1) * 5 + 1] = SliceStart(p, centers[i], <<0, 0>>)
  <2> DEFINE At(k) == SliceStart(p, centers[((k - 1) \div 5) + 1], SliceOffsets[((k - 1) % 5) + 1])
  <2>1. Slices(p, centers) = [k \in 1..5 * Len(centers) |-> At(k)]
    BY <1>1, Zenon DEF Slices
  <2>2. ASSUME NEW k \in 1..5 * Len(centers), ((k - 1) \div 5) + 1 = i, ((k - 1) % 5) + 1 = 1
        PROVE  Slices(p, centers)[k] = SliceStart(p, centers[i], SliceOffsets[1])
    BY <2>1, <2>2, Zenon
  <2>3. ASSUME NEW k, k = (i - 1) * 5 + 1
        PROVE  Slices(p, centers)[k] = SliceStart(p, centers[i], SliceOffsets[1])
    <3>1. k - 1 = 5 * (i - 1) /\ k \in 1..5 * Len(centers) /\ i - 1 \in Nat
      BY <1>2, <2>3
    <3>2. (k - 1) \div 5 = i - 1 /\ (k - 1) % 5 = 0
      BY <1>3, <3>1
    <3>3. ((k - 1) \div 5) + 1 = i /\ ((k - 1) % 5) + 1 = 1
      BY <1>2, <3>2
    <3>4. QED BY <2>2, <3>1, <3>3, Zenon
  <2>4. QED BY <1>1, <2>3
<1>5. centers[i].x2 \in Nat /\ centers[i].y2 \in Nat
  <2>1. centers[i] \in [x2 : Nat, y2 : Nat]
    BY SeqElement, Zenon
  <2>2. QED BY <2>1
<1>6. 2 * 0 * p.slice_distance = 0
  OBVIOUS
<1>7. /\ centers[i].x2 + 2 * 0 * p.slice_distance - p.slice_width = centers[i].x2 - p.slice_width
      /\ centers[i].y2 + 2 * 0 * p.slice_distance - p.slice_height
            = centers[i].y2 - p.slice_height
  BY <1>5, <1>6
<1>8. <<0, 0>>[1] = 0 /\ <<0, 0>>[2] = 0
  OBVIOUS
<1>9. QED BY <1>1, <1>4, <1>7, <1>8 DEF SliceStart

\* Of two pixels or more a slice that starts so covers its centre, in one dimension.
LEMMA HalfInside ==
  ASSUME NEW c \in Nat, NEW width \in Int, width >= 2, NEW size \in Int, c < 2 * size
  PROVE  Half(c) \in Larger(Half(c - width), 0)..Smaller(Half(c - width) + width, size) - 1
<1>1. Half(c) = c \div 2 /\ Half(c) \in Int
  BY DEF Half
<1>2. CASE c >= width
  <2>1. Half(c - width) = (c - width) \div 2
    BY <1>2 DEF Half
  <2>2. QED BY <1>1, <1>2, <2>1 DEF Larger, Smaller
<1>3. CASE c < width
  <2>1. Half(c - width) = -((width - c) \div 2)
    BY <1>3 DEF Half
  <2>2. QED BY <1>1, <1>3, <2>1 DEF Larger, Smaller
<1>4. QED BY <1>2, <1>3

\* The first slice of a candidate always shows the pixel of its centre, for any image,
\* candidate and slice of two pixels or more.
THEOREM CentresShown == Spec => []CentreIsShown
<1>1. Init => CutInv /\ RequestInv
  BY DEF Init, DpInit, CutInv, RequestInv
<1>2. ModelInv /\ RequestInv /\ CutInv => CentreIsShown
  <2> SUFFICES ASSUME ModelInv, RequestInv, CutInv, stage = "detect",
                      params.slice_width >= 2, params.slice_height >= 2,
                      NEW i \in DOMAIN work.centers
               PROVE  Covers(Copied(params, work.starts[(i - 1) * Len(SliceOffsets) + 1], work.size),
                             Half(work.centers[i].x2), Half(work.centers[i].y2))
      BY DEF CentreIsShown
  <2>1. /\ params.slice_width \in Int /\ params.slice_height \in Int
        /\ params.slice_distance \in Int
    BY TaskMembers DEF ModelInv, Configured
  <2>2. /\ work.size.w \in Int /\ work.size.h \in Int /\ CentresInImage
        /\ work.starts = Slices(params, work.centers)
    BY DEF CutInv
  <2>3. work.starts[(i - 1) * Len(SliceOffsets) + 1]
            = [x |-> Half(work.centers[i].x2 - params.slice_width),
               y |-> Half(work.centers[i].y2 - params.slice_height)]
    BY <2>1, <2>2, FirstSlice DEF CentresInImage
  <2>4. /\ work.centers[i].x2 \in Nat /\ work.centers[i].x2 < 2 * work.size.w
        /\ work.centers[i].y2 \in Nat /\ work.centers[i].y2 < 2 * work.size.h
    <3>1. work.centers[i] \in [x2 : Nat, y2 : Nat]
      BY <2>2, SeqElement, Zenon DEF CentresInImage
    <3>2. QED BY <2>2, <3>1 DEF CentresInImage
  <2>5. /\ Half(work.centers[i].x2) \in Larger(Half(work.centers[i].x2 - params.slice_width), 0)
              ..Smaller(Half(work.centers[i].x2 - params.slice_width) + params.slice_width,
                        work.size.w) - 1
        /\ Half(work.centers[i].y2) \in Larger(Half(work.centers[i].y2 - params.slice_height), 0)
              ..Smaller(Half(work.centers[i].y2 - params.slice_height) + params.slice_height,
                        work.size.h) - 1
    BY <2>1, <2>2, <2>4, HalfInside
  <2>6. QED BY <2>3, <2>5 DEF Covers, Copied
<1>3. QED
  BY <1>1, <1>2, ModelInit, ModelStep, TaskInit, TaskStep, RequestStep, CutStep, PTL DEF Spec

-----------------------------------------------------------------------------
(* The detections.  An induction over the number of detections is a search *)
(* for the least counterexample: a set of indices that no sequence lists   *)
(* in order.                                                               *)

LEMMA LeastNumber ==
  ASSUME NEW S \in SUBSET Nat, S # {}
  PROVE  \E m \in S : \A k \in S : m <= k
<1>1. PICK m \in S : \A k \in S : <<k, m>> \notin OpToRel(<, Nat)
  BY NatLessThanWellFounded, WFMin
<1>2. ASSUME NEW k \in S PROVE m <= k
  <2>1. <<k, m>> \in Nat \X Nat /\ <<k, m>> \notin OpToRel(<, Nat)
    BY <1>1
  <2>2. ~(k < m)
    BY <2>1 DEF OpToRel
  <2>3. QED BY <2>2
<1>3. QED BY <1>2

Ascends(ids) == \A i, j \in DOMAIN ids : i < j => ids[i] < ids[j]
Listed(S)    == \E ids \in [1..Cardinality(S) -> S] : Ascends(ids)

\* Listing one more index, larger than the others.
LEMMA OneMore ==
  ASSUME NEW c \in Nat, NEW k \in Nat, NEW U \in SUBSET (1..k-1),
         NEW ids \in [1..c -> U], Ascends(ids),
         NEW more, more = [i \in 1..c+1 |-> IF i = c + 1 THEN k ELSE ids[i]]
  PROVE  more \in [1..c+1 -> U \cup {k}] /\ Ascends(more)
<1>1. \A i \in 1..c+1 : i = c + 1 \/ i \in 1..c
  OBVIOUS
<1>2. more \in [1..c+1 -> U \cup {k}]
  BY <1>1
<1>3. ASSUME NEW i \in 1..c+1, NEW j \in 1..c+1, i < j PROVE more[i] < more[j]
  <2>0. i # c + 1 /\ i \in 1..c
    BY <1>1, <1>3
  <2>1. i \in 1..c /\ more[i] = ids[i] /\ ids[i] \in 1..k-1
    BY <2>0, ids[i] \in U
  <2>2. CASE j = c + 1
    BY <2>1, <2>2
  <2>3. CASE j # c + 1
    BY <1>1, <1>3, <2>1, <2>3 DEF Ascends
  <2>4. QED BY <2>2, <2>3
<1>4. DOMAIN more = 1..c+1
  OBVIOUS
<1>5. QED BY <1>2, <1>3, <1>4 DEF Ascends

LEMMA EverySetListed ==
  ASSUME NEW n \in Nat, NEW S \in SUBSET (1..n)
  PROVE  Listed(S)
<1> DEFINE Bad == {k \in Nat : \E T \in SUBSET (1..k) : ~Listed(T)}
<1>1. SUFFICES ASSUME Bad # {} PROVE FALSE
  BY DEF Listed
<1>2. PICK k \in Bad : \A m \in Bad : k <= m
  BY <1>1, LeastNumber
<1>3. PICK T \in SUBSET (1..k) : ~Listed(T)
  BY <1>2
<1>4. k \in Nat
  BY <1>2
<1>5. k # 0
  <2>1. SUFFICES ASSUME k = 0 PROVE FALSE
    OBVIOUS
  <2>2. T = {}
    BY <1>3, <2>1
  <2>2a. Cardinality(T) = 0
    BY <2>2, FS_EmptySet
  <2>3. [i \in 1..0 |-> i] \in [1..Cardinality(T) -> T] /\ Ascends([i \in 1..0 |-> i])
    BY <2>2, <2>2a DEF Ascends
  <2>4. QED BY <1>3, <2>3 DEF Listed
<1>6. k - 1 \in Nat /\ k - 1 \notin Bad
  BY <1>2, <1>4, <1>5
<1>7. T \ {k} \in SUBSET (1..k-1) /\ IsFiniteSet(T \ {k}) /\ IsFiniteSet(1..k-1)
  <2>1. T \ {k} \in SUBSET (1..k-1)
    BY <1>4, <1>6
  <2>2. IsFiniteSet(1..k-1)
    BY <1>6, FS_Interval
  <2>3. QED BY <2>1, <2>2, FS_Subset
<1>8. PICK c \in Nat : c = Cardinality(T \ {k})
  BY <1>7, FS_CardinalityType
<1>9. PICK ids \in [1..c -> T \ {k}] : Ascends(ids)
  BY <1>6, <1>7, <1>8 DEF Listed
<1>10. k \in T
  BY <1>3, <1>6, <1>7 DEF Listed
<1>11. Cardinality(T) = c + 1 /\ (T \ {k}) \cup {k} = T
  <2>1. (T \ {k}) \cup {k} = T
    BY <1>10
  <2>2. QED BY <1>7, <1>8, <2>1, FS_AddElement
<1>12. PICK more : more = [i \in 1..c+1 |-> IF i = c + 1 THEN k ELSE ids[i]]
  OBVIOUS
<1>13. more \in [1..c+1 -> (T \ {k}) \cup {k}] /\ Ascends(more)
  <2>1. PICK U : U = T \ {k}
    OBVIOUS
  <2>2. U \in SUBSET (1..k-1) /\ ids \in [1..c -> U]
    BY <1>7, <1>9, <2>1
  <2>3. more \in [1..c+1 -> U \cup {k}] /\ Ascends(more)
    <3>1. /\ c \in Nat /\ k \in Nat /\ U \in SUBSET (1..k-1)
          /\ ids \in [1..c -> U] /\ Ascends(ids)
          /\ more = [i \in 1..c+1 |-> IF i = c + 1 THEN k ELSE ids[i]]
      BY <1>4, <1>8, <1>9, <1>12, <2>2
    <3>2. QED BY <3>1, OneMore
  <2>4. QED BY <2>1, <2>3
<1>14. QED BY <1>3, <1>11, <1>13 DEF Listed

\* The sequence of a filtering loop lists members of the set it filters.
LEMMA InOrderLists ==
  ASSUME NEW n \in Nat, NEW S \in SUBSET (1..n)
  PROVE  InOrder(S) \in [1..Cardinality(S) -> S] /\ Cardinality(S) \in Nat
<1>1. \E ids \in [1..Cardinality(S) -> S] : \A i, j \in DOMAIN ids : i < j => ids[i] < ids[j]
  BY EverySetListed DEF Listed, Ascends
<1>2. InOrder(S) \in [1..Cardinality(S) -> S]
  BY <1>1 DEF InOrder
<1>3. IsFiniteSet(S)
  <2>1. IsFiniteSet(1..n)
    BY FS_Interval
  <2>2. QED BY <2>1, FS_Subset
<1>4. QED BY <1>2, <1>3, FS_CardinalityType

\* Every slice starts at a pixel.
LEMMA StartsTyped ==
  ASSUME NEW p, p.slice_width \in Int, p.slice_height \in Int, p.slice_distance \in Int,
         NEW centers \in Seq([x2 : Nat, y2 : Nat]), NEW k \in DOMAIN Slices(p, centers)
  PROVE  Slices(p, centers)[k] \in [x : Int, y : Int]
<1>1. Len(SliceOffsets) = 5 /\ \A m \in 1..5 : SliceOffsets[m][1] \in Int /\ SliceOffsets[m][2] \in Int
  BY DEF SliceOffsets
<1> DEFINE At(m) == SliceStart(p, centers[((m - 1) \div 5) + 1], SliceOffsets[((m - 1) % 5) + 1])
<1>2. Slices(p, centers) = [m \in 1..5 * Len(centers) |-> At(m)]
  BY <1>1, Zenon DEF Slices
<1>3. k \in 1..5 * Len(centers) /\ Slices(p, centers)[k] = At(k)
  BY <1>2
<1>4. Len(centers) \in Nat
  OBVIOUS
<1>5. ((k - 1) \div 5) + 1 \in 1..Len(centers) /\ ((k - 1) % 5) + 1 \in 1..5
  <2>1. ASSUME NEW l \in Nat, NEW m \in 1..5 * l
        PROVE  ((m - 1) \div 5) + 1 \in 1..l /\ ((m - 1) % 5) + 1 \in 1..5
    OBVIOUS
  <2>2. QED BY <1>3, <1>4, <2>1
<1>6. ASSUME NEW c, c.x2 \in Int, c.y2 \in Int, NEW d, d[1] \in Int, d[2] \in Int
      PROVE  SliceStart(p, c, d) \in [x : Int, y : Int]
  <2>1. \A n \in Int : Half(n) \in Int
    BY DEF Half
  <2>2. 2 * d[1] * p.slice_distance \in Int /\ 2 * d[2] * p.slice_distance \in Int
    BY <1>6
  <2>3. \A a, b, e \in Int : a + b - e \in Int
    OBVIOUS
  <2>4. c.x2 + 2 * d[1] * p.slice_distance - p.slice_width \in Int
    BY <1>6, <2>2, <2>3, Zenon
  <2>5. c.y2 + 2 * d[2] * p.slice_distance - p.slice_height \in Int
    BY <1>6, <2>2, <2>3, Zenon
  <2>6. QED BY <2>1, <2>4, <2>5, Zenon DEF SliceStart
<1>7. ((k - 1) \div 5) + 1 \in DOMAIN centers
  BY <1>5
<1>8. centers[((k - 1) \div 5) + 1] \in [x2 : Nat, y2 : Nat]
  BY <1>7, SeqElement, Zenon
<1>9. PICK c, d : /\ c = centers[((k - 1) \div 5) + 1] /\ d = SliceOffsets[((k - 1) % 5) + 1]
  OBVIOUS
<1>10. c.x2 \in Int /\ c.y2 \in Int /\ d[1] \in Int /\ d[2] \in Int
  <2>1. c \in [x2 : Nat, y2 : Nat]
    BY <1>8, <1>9, Zenon
  <2>2. d[1] \in Int /\ d[2] \in Int
    BY <1>1, <1>5, <1>9, Zenon
  <2>3. QED BY <2>1, <2>2
<1>11. QED BY <1>3, <1>6, <1>9, <1>10, Zenon

RawDetection ==
    [slice : Nat, class : Int, score : Int,
     box : [x0 : Int, y0 : Int, x1 : Int, y1 : Int]]

\* A detection that the detector saw in a slice, moved into the image.
SeenIn(p, starts, raw, detection) ==
    /\ raw \in RawDetection /\ starts[raw.slice] \in [x : Int, y : Int]
    /\ Candidate(p, starts, raw)
    /\ detection = InImage(starts, raw)

FoundSeen ==
    /\ LocalsShaped
    /\ \E n \in Nat : DOMAIN work.found = 1..n
    /\ \A i \in DOMAIN work.found : \E r \in DOMAIN work.raw :
          SeenIn(params, work.starts, work.raw[r], work.found[i])

ReportInv ==
    /\ stage \in {"preprocess", "halcon", "slices", "detect", "segment"} => work.measures = <<>>
    /\ stage \in {"segment", "report"} => FoundSeen
    /\ stage = "report" /\ sam # NoModel => work.measures = work.found

\* The detector's stage: what it keeps it has seen.
LEMMA DetectKeepsSeen ==
  ASSUME ModelInv, RequestInv, CutInv, ReportInv, Detect, stage' = "segment",
         UNCHANGED params
  PROVE  FoundSeen' /\ work'.measures = <<>>
<1>1. PICK raw \in RawDetections :
         /\ \A i \in DOMAIN raw : raw[i].slice \in DOMAIN work.starts
         /\ \E kept \in SUBSET {i \in DOMAIN raw : Candidate(params, work.starts, raw[i])} :
               \E ids \in ByScore(raw, kept) :
                  work' = [work EXCEPT
                     !.raw = raw,
                     !.found = [i \in DOMAIN ids |-> InImage(work.starts, raw[ids[i]])]]
  BY DEF Detect, Fail, Leave, Stage
<1>2. PICK kept \in SUBSET {i \in DOMAIN raw : Candidate(params, work.starts, raw[i])} :
         \E ids \in ByScore(raw, kept) :
            work' = [work EXCEPT
               !.raw = raw,
               !.found = [i \in DOMAIN ids |-> InImage(work.starts, raw[ids[i]])]]
  BY <1>1
<1>3. PICK ids \in ByScore(raw, kept) :
         work' = [work EXCEPT
            !.raw = raw,
            !.found = [i \in DOMAIN ids |-> InImage(work.starts, raw[ids[i]])]]
  BY <1>2
<1>4. stage = "detect" /\ LocalsShaped /\ work.measures = <<>> /\ params = asked
  BY DEF Detect, CutInv, ReportInv, ModelInv, Configured
<1>5. /\ work'.raw = raw /\ work'.starts = work.starts /\ work'.measures = work.measures
      /\ work'.found = [i \in DOMAIN ids |-> InImage(work.starts, raw[ids[i]])]
      /\ LocalsShaped'
  BY <1>3, <1>4, Zenon DEF LocalsShaped
<1>6. raw \in Seq(RawDetection)
  BY ImageAssumption DEF RawDetection
<1>7. ids \in [1..Cardinality(kept) -> kept]
  BY DEF ByScore
<1>8. Cardinality(kept) \in Nat
  <2>1. Len(raw) \in Nat /\ DOMAIN raw = 1..Len(raw)
    BY <1>6
  <2>2. IsFiniteSet(DOMAIN raw)
    BY <2>1, FS_Interval
  <2>3. kept \in SUBSET DOMAIN raw
    OBVIOUS
  <2>4. QED BY <2>2, <2>3, FS_Subset, FS_CardinalityType
<1>9. ASSUME NEW s \in DOMAIN work.starts PROVE work.starts[s] \in [x : Int, y : Int]
  <2>1. /\ asked.slice_width \in Int /\ asked.slice_height \in Int /\ asked.slice_distance \in Int
    BY <1>4, TaskMembers
  <2>2. work.starts = Slices(params, work.centers) /\ work.centers \in Seq([x2 : Nat, y2 : Nat])
    BY <1>4 DEF CutInv, CentresInImage
  <2>3. QED BY <1>4, <1>9, <2>1, <2>2, StartsTyped
<1>10. ASSUME NEW i \in DOMAIN ids
       PROVE  ids[i] \in DOMAIN raw /\ SeenIn(params, work.starts, raw[ids[i]], work'.found[i])
  <2>1. ids[i] \in kept /\ ids[i] \in DOMAIN raw /\ Candidate(params, work.starts, raw[ids[i]])
    BY <1>7, <1>10
  <2>2. raw[ids[i]] \in RawDetection
    BY <1>6, <2>1, SeqElement, Zenon
  <2>3. work'.found[i] = InImage(work.starts, raw[ids[i]])
    BY <1>5, <1>10
  <2>4. QED BY <1>1, <1>9, <2>1, <2>2, <2>3 DEF SeenIn
<1>11. DOMAIN work'.found = 1..Cardinality(kept) /\ DOMAIN ids = DOMAIN work'.found
  BY <1>5, <1>7
<1>12. \A i \in DOMAIN work'.found : \E r \in DOMAIN work'.raw :
          SeenIn(params', work'.starts, work'.raw[r], work'.found[i])
  BY <1>5, <1>10, <1>11
<1>13. QED BY <1>4, <1>5, <1>8, <1>11, <1>12 DEF FoundSeen

\* The segmentation: it drops detections and measures those it keeps.
LEMMA SegmentKeepsSeen ==
  ASSUME ReportInv, Segment, stage' = "report", UNCHANGED <<params, sam>>
  PROVE  FoundSeen' /\ (sam # NoModel => work'.measures = work'.found)
<1>1. FoundSeen /\ LocalsShaped /\ work.measures = <<>>
  BY DEF Segment, Stage, Fail, Leave, ReportInv, FoundSeen
<1>2. CASE sam = NoModel \/ work.found = <<>>
  <2>1. work' = work
    BY <1>2 DEF Segment, Stage, Fail, Leave
  <2>2. sam # NoModel => work.measures = work.found
    BY <1>1, <1>2
  <2>3. QED BY <1>1, <2>1, <2>2 DEF FoundSeen, LocalsShaped
<1>3. CASE ~(sam = NoModel \/ work.found = <<>>)
  <2>1. PICK masks \in [DOMAIN work.found -> {"empty", "small", "kept"}] :
           work' = [work EXCEPT !.found    = Segmented(@, masks),
                                !.measures = Measures(work.found, masks)]
    BY <1>3 DEF Segment, Stage, Fail, Leave
  <2>2. /\ work'.raw = work.raw /\ work'.starts = work.starts
        /\ work'.found = Segmented(work.found, masks)
        /\ work'.measures = Measures(work.found, masks)
        /\ LocalsShaped'
    BY <1>1, <2>1, Zenon DEF LocalsShaped
  <2> DEFINE keep == {i \in DOMAIN masks : masks[i] = "kept"}
  <2>3. PICK n \in Nat : DOMAIN work.found = 1..n
    BY <1>1 DEF FoundSeen
  <2>4. keep \in SUBSET (1..n) /\ keep \in SUBSET DOMAIN work.found
    BY <2>3
  <2>5. PICK ids : ids = InOrder(keep)
    OBVIOUS
  <2>6. ids \in [1..Cardinality(keep) -> keep] /\ Cardinality(keep) \in Nat
    BY <2>3, <2>4, <2>5, InOrderLists
  <2>7. /\ work'.found = [i \in DOMAIN ids |-> work.found[ids[i]]]
        /\ work'.measures = [i \in DOMAIN ids |-> work.found[ids[i]]]
    BY <2>2, <2>5 DEF Segmented, Measures, KeptOf, MeasuredOf
  <2>8. DOMAIN work'.found = 1..Cardinality(keep) /\ DOMAIN ids = DOMAIN work'.found
    BY <2>6, <2>7
  <2>9. ASSUME NEW i \in DOMAIN work'.found
        PROVE  \E r \in DOMAIN work'.raw :
                  SeenIn(params', work'.starts, work'.raw[r], work'.found[i])
    <3>1. ids[i] \in DOMAIN work.found /\ work'.found[i] = work.found[ids[i]]
      BY <2>4, <2>6, <2>7, <2>8, <2>9
    <3>2. PICK r \in DOMAIN work.raw : SeenIn(params, work.starts, work.raw[r], work.found[ids[i]])
      BY <1>1, <3>1 DEF FoundSeen
    <3>3. QED BY <2>2, <3>1, <3>2
  <2>10. QED BY <2>2, <2>6, <2>7, <2>8, <2>9 DEF FoundSeen
<1>4. QED BY <1>2, <1>3

LEMMA ReportStep == ModelInv /\ RequestInv /\ CutInv /\ ReportInv /\ [Next]_vars => ReportInv'
<1> SUFFICES ASSUME ModelInv, RequestInv, CutInv, ReportInv, [Next]_vars PROVE ReportInv'
    OBVIOUS
<1> DEFINE Cutting == {"preprocess", "halcon", "slices", "detect"}
           At      == Cutting \cup {"segment", "report"}
<1>1. ASSUME stage' \notin At PROVE ReportInv'
  BY <1>1 DEF ReportInv
<1>2. ASSUME UNCHANGED <<stage, work, params, sam>> PROVE ReportInv'
  BY <1>2 DEF ReportInv, FoundSeen, LocalsShaped, SeenIn, Candidate, ClassAllowed
<1>3. CASE PipelineStep
  <2>1. CASE Configure \/ SelectDevice \/ LoadDetector \/ LoadSegmenter
    <3>1. stage' \notin At
      BY <2>1 DEF Configure, SelectDevice, LoadDetector, LoadSegmenter, Stage
    <3>2. QED BY <1>1, <3>1
  <2>2. CASE ReadImage
    <3>1. CASE stage' = "result"
      BY <1>1, <3>1
    <3>2. CASE stage' = "preprocess"
      <4>1. PICK size \in ImageSizes : work' = [NoWork EXCEPT !.size = size]
        BY <2>2, <3>2 DEF ReadImage
      <4>2. work'.measures = <<>>
        BY <4>1 DEF NoWork
      <4>3. QED BY <3>2, <4>2 DEF ReportInv
    <3>3. QED BY <2>2, <3>1, <3>2 DEF ReadImage
  <2>3. CASE Preprocess \/ FindCandidates \/ CutSlices
    <3>1. CASE stage' \notin At
      BY <1>1, <3>1
    <3>2. CASE stage' \in Cutting
      <4>1. stage \in Cutting /\ LocalsShaped /\ work.measures = <<>>
        BY <2>3 DEF Preprocess, FindCandidates, CutSlices, Fail, Leave, Stage, CutInv, ReportInv
      <4>2. \/ work' = work
            \/ work' = [work EXCEPT !.size = Processed(params, @)]
            \/ \E centers \in CandidateSets : work' = [work EXCEPT !.centers = centers]
            \/ work' = [work EXCEPT !.starts = Slices(params, work.centers)]
        BY <2>3 DEF Preprocess, FindCandidates, CutSlices, Fail, Leave, Stage
      <4>3. work'.measures = work.measures
        <5>1. CASE work' = work
          BY <5>1
        <5>2. CASE work' = [work EXCEPT !.size = Processed(params, @)]
          BY <4>1, <5>2, Zenon DEF LocalsShaped
        <5>3. CASE \E centers \in CandidateSets : work' = [work EXCEPT !.centers = centers]
          BY <4>1, <5>3, Zenon DEF LocalsShaped
        <5>4. CASE work' = [work EXCEPT !.starts = Slices(params, work.centers)]
          BY <4>1, <5>4, Zenon DEF LocalsShaped
        <5>5. QED BY <4>2, <5>1, <5>2, <5>3, <5>4
      <4>4. QED BY <3>2, <4>1, <4>3 DEF ReportInv
    <3>3. stage' \notin {"segment", "report"}
      BY <2>3 DEF Preprocess, FindCandidates, CutSlices, Fail, Leave, Stage
    <3>4. QED BY <3>1, <3>2, <3>3
  <2>4. CASE Detect
    <3>1. CASE stage' = "collect"
      BY <1>1, <3>1
    <3>2. CASE stage' = "segment"
      <4>1. params' = params
        BY <2>4 DEF Detect, cacheVars
      <4>2. QED BY <2>4, <3>2, <4>1, DetectKeepsSeen DEF ReportInv
    <3>3. stage' = "collect" \/ stage' = "segment"
      BY <2>4 DEF Detect, Fail, Leave, Stage
    <3>4. QED BY <3>1, <3>2, <3>3
  <2>5. CASE Segment
    <3>1. CASE stage' = "collect"
      BY <1>1, <3>1
    <3>2. CASE stage' = "report"
      <4>1. UNCHANGED <<params, sam>>
        BY <2>5 DEF Segment, cacheVars
      <4>2. QED BY <2>5, <3>2, <4>1, SegmentKeepsSeen DEF ReportInv
    <3>3. stage' = "collect" \/ stage' = "report"
      BY <2>5 DEF Segment, Fail, Leave, Stage
    <3>4. QED BY <3>1, <3>2, <3>3
  <2>6. CASE Report \/ Collect \/ Collected
    <3>1. stage' \notin At
      BY <2>6 DEF Report, Collect, Collected, Stage
    <3>2. QED BY <1>1, <3>1
  <2>7. QED BY <1>3, <2>1, <2>2, <2>3, <2>4, <2>5, <2>6 DEF PipelineStep
<1>4. CASE WorkerTests
  <2>1. UNCHANGED <<work, params, sam>> /\ (UNCHANGED stage \/ stage' = "configure")
    BY <1>4 DEF WorkerTests, cacheVars
  <2>2. QED BY <1>1, <1>2, <2>1
<1>5. CASE CompleteTask \/ ResetPipeline
  <2>1. stage' = "idle"
    BY <1>5 DEF CompleteTask, ResetPipeline, Worker, ModelInv
  <2>2. QED BY <1>1, <2>1
<1>6. CASE \/ AddRequest \/ Cancel \/ PushTask \/ NotifyWorker \/ Reply \/ FailQueued
           \/ NotifyStop \/ Join \/ WorkerSleeps \/ WorkerLeaves \/ ProcessorCall \/ SaveThread
           \/ Spurious \/ UNCHANGED vars
  BY <1>2, <1>6 DEF AddRequest, Cancel, PushTask, NotifyWorker, Reply, FailQueued, NotifyStop,
     Join, WorkerSleeps, WorkerLeaves, ProcessorCall, SaveThread, Spurious, vars, dpVars
<1>7. Next => \/ AddRequest \/ Cancel \/ PushTask \/ NotifyWorker \/ Reply \/ FailQueued
              \/ NotifyStop \/ Join \/ WorkerTests \/ WorkerSleeps \/ PipelineStep
              \/ CompleteTask \/ WorkerLeaves \/ ResetPipeline \/ ProcessorCall
              \/ SaveThread \/ Spurious
  BY Zenon DEF Next, HttpThread, WorkerThread
<1>8. QED BY <1>3, <1>4, <1>5, <1>6, <1>7

\* Clamping at the left and top edge leaves the part of a box that lies in the image,
\* if something of the box is left at all.
LEMMA ClampKeepsSeen ==
  ASSUME NEW box \in [x0 : Int, y0 : Int, x1 : Int, y1 : Int], NEW start \in [x : Int, y : Int],
         NEW size, NonEmpty(ToImage(box, start))
  PROVE  /\ ToImage(box, start).x0 >= 0 /\ ToImage(box, start).y0 >= 0
         /\ Seen(ToImage(box, start), size) = Seen(Moved(box, start), size)
<1>1. PICK m \in [x0 : Int, y0 : Int, x1 : Int, y1 : Int] : m = Moved(box, start)
  <2>1. /\ box.x0 + start.x \in Int /\ box.y0 + start.y \in Int
        /\ box.x1 + start.x \in Int /\ box.y1 + start.y \in Int
    OBVIOUS
  <2>2. Moved(box, start) \in [x0 : Int, y0 : Int, x1 : Int, y1 : Int]
    BY <2>1, Zenon DEF Moved
  <2>3. QED BY <2>2
<1>2. PICK c : c = ToImage(box, start)
  OBVIOUS
<1>3. DOMAIN m = {"x0", "y0", "x1", "y1"}
  BY <1>1
<1>4. /\ c.x0 = Larger(0, m.x0) /\ c.y0 = Larger(0, m.y0)
      /\ c.x1 = Larger(0, m.x1) /\ c.y1 = Larger(0, m.y1)
  <2>1. c = [side \in DOMAIN m |-> Larger(0, m[side])]
    BY <1>1, <1>2, Zenon DEF ToImage
  <2>2. QED BY <1>3, <2>1
<1>5. m.x0 \in Int /\ m.y0 \in Int /\ m.x1 \in Int /\ m.y1 \in Int
  OBVIOUS
<1>6. c.x0 < c.x1 /\ c.y0 < c.y1
  BY <1>2, Zenon DEF NonEmpty
<1>7. ASSUME NEW a \in Int, NEW b \in Int, Larger(0, a) < Larger(0, b)
      PROVE  /\ Larger(0, a) >= 0 /\ Larger(0, Larger(0, a)) = Larger(0, a)
             /\ Larger(0, b) = b
  BY <1>7 DEF Larger
<1>8. /\ c.x0 >= 0 /\ Larger(0, c.x0) = Larger(0, m.x0) /\ c.x1 = m.x1
  BY <1>4, <1>5, <1>6, <1>7
<1>9. /\ c.y0 >= 0 /\ Larger(0, c.y0) = Larger(0, m.y0) /\ c.y1 = m.y1
  BY <1>4, <1>5, <1>6, <1>7
<1>10. Seen(c, size) = Seen(m, size)
  BY <1>8, <1>9, Zenon DEF Seen
<1>11. QED BY <1>1, <1>2, <1>8, <1>9, <1>10, Zenon

\* Whatever the detector sees, a detection that is reported is one it saw, at its place
\* in the image, of an allowed class and a sufficient score, with a measure of its own.
THEOREM ReportsSeen == Spec => []ReportedDetections
<1>1. Init => CutInv /\ RequestInv /\ ReportInv
  BY DEF Init, DpInit, CutInv, RequestInv, ReportInv
<1>2. ModelInv /\ ReportInv => ReportedDetections
  <2> SUFFICES ASSUME ModelInv, ReportInv, stage = "report"
               PROVE  ReportedDetections
      BY DEF ReportedDetections
  <2>1. FoundSeen /\ params = asked /\ (sam # NoModel => work.measures = work.found)
    BY DEF ModelInv, Configured, ReportInv
  <2>2. ASSUME NEW i \in DOMAIN work.found
        PROVE  \E r \in DOMAIN work.raw :
                  LET raw == work.raw[r]
                      box == work.found[i].box
                  IN  /\ work.found[i] = [raw EXCEPT !.box = box]
                      /\ raw.score >= asked.conf_threshold
                      /\ ClassAllowed(asked, raw.class)
                      /\ NonEmpty(box) /\ box.x0 >= 0 /\ box.y0 >= 0
                      /\ Seen(box, work.size)
                            = Seen(Moved(raw.box, work.starts[raw.slice]), work.size)
    <3>1. PICK r \in DOMAIN work.raw : SeenIn(asked, work.starts, work.raw[r], work.found[i])
      BY <2>1 DEF FoundSeen
    <3>2. PICK raw, start, box :
             /\ raw = work.raw[r] /\ start = work.starts[raw.slice]
             /\ box = ToImage(raw.box, start)
      OBVIOUS
    <3>3. /\ raw \in RawDetection /\ start \in [x : Int, y : Int]
          /\ raw.score >= asked.conf_threshold /\ ClassAllowed(asked, raw.class)
          /\ NonEmpty(box)
          /\ work.found[i] = [raw EXCEPT !.box = box]
      BY <3>1, <3>2, Zenon DEF SeenIn, Candidate, InImage
    <3>4. raw.box \in [x0 : Int, y0 : Int, x1 : Int, y1 : Int] /\ work.found[i].box = box
      BY <3>3 DEF RawDetection
    <3>5. /\ box.x0 >= 0 /\ box.y0 >= 0
          /\ Seen(box, work.size) = Seen(Moved(raw.box, start), work.size)
      <4>1. NonEmpty(ToImage(raw.box, start))
        BY <3>2, <3>3, Zenon
      <4>2. PICK b : b = raw.box
        OBVIOUS
      <4>3. b \in [x0 : Int, y0 : Int, x1 : Int, y1 : Int] /\ NonEmpty(ToImage(b, start))
        BY <3>4, <4>1, <4>2, Zenon
      <4>4. /\ ToImage(b, start).x0 >= 0 /\ ToImage(b, start).y0 >= 0
            /\ Seen(ToImage(b, start), work.size) = Seen(Moved(b, start), work.size)
        BY <3>3, <4>3, ClampKeepsSeen
      <4>5. QED BY <3>2, <4>2, <4>4, Zenon
    <3>6. QED BY <3>2, <3>3, <3>4, <3>5, Zenon
  <2>3. QED BY <2>1, <2>2, Zenon DEF ReportedDetections
<1>3. QED
  BY <1>1, <1>2, ModelInit, ModelStep, TaskInit, TaskStep, RequestStep, CutStep, ReportStep,
     PTL DEF Spec

-----------------------------------------------------------------------------
(* Waiting.  HTTP thread, worker, processor and save thread wait for each  *)
(* other in a chain; nobody sleeps on a predicate that has become true     *)
(* unless its notification is still to come, or is one of the two that are *)
(* sent without the mutex.                                                 *)

Inside == {"wait", "testing", "asleep", "returned"}
Ended  == {"stopping", "joining", "destroyed"}

\* The worker and the HTTP thread.
WorkerServes ==
    /\ worker \in WorkerStates
    /\ http \in {"notify", "waiting"} /\ answer = "pending" => tasks # <<>> \/ worker = "work"
    /\ tasks # <<>> => running
    /\ running => worker \in {"run", "testing", "asleep", "work"}
    /\ worker = "testing" => tasks = <<>> /\ (running \/ http = "fail")
    /\ worker = "asleep"  => /\ tasks = <<>> \/ http = "notify"
                             /\ running \/ http \in {"fail", "notifyStop"}
    /\ http \in {"fail", "notifyStop", "join"} => ~running /\ object
    /\ http = "join" => worker \in {"run", "leave", "reset", "gone"}
    /\ object <=> worker # "none"

\* The worker in the processor, and the save thread.
SaverServes ==
    /\ worker \in {"none", "gone"} => caller = "destroyed"
    /\ worker = "reset" => caller \in Ended
    /\ worker \in {"run", "testing", "asleep", "leave"} => caller = "idle"
    /\ worker = "work" => /\ caller \in {"idle", "queued"} \cup Inside
                          /\ caller = "queued" => stage = "slices"
                          /\ caller \in Inside <=> stage = "collecting"
    /\ stopSaver /\ worker # "none" => caller \in Ended
    /\ saver \in {"leaving", "gone"} => stopSaver
    /\ caller \in {"idle", "queued"} \cup Inside => saver # "none"
    /\ saver = "testing" => saveQueue = <<>>
    /\ saver = "asleep"  => saveQueue = <<>> \/ caller = "queued"

\* Whoever waits, the thread it waits for is not asleep: the HTTP thread in
\* submitAndWait and in join() for the worker, the worker in waitForAsyncOperations
\* for the save thread.  Only SaveMissed and StopMissed are left.
WaitsAreServed ==
    /\ http = "waiting" /\ answer = "pending" =>
          worker = "work" \/ (worker = "run" /\ tasks # <<>>)
    /\ http = "join" => worker \in {"run", "leave", "reset", "gone"}
    /\ worker = "work" /\ stage = "collecting" => caller \in Inside
    /\ worker = "work" /\ caller \in {"testing", "asleep"} =>
          pending = 0 \/ saver \in {"run", "saving", "saved", "notify"}

LEMMA WorkerServesStep == TaskSaveInv /\ WorkerServes /\ [Next]_vars => WorkerServes'
<1> SUFFICES ASSUME TaskInv, WorkerServes, [Next]_vars PROVE WorkerServes'
    BY DEF TaskSaveInv
<1> USE DEF TaskInv, WorkerServes, WorkerStates
<1>1. CASE AddRequest
  BY <1>1 DEF AddRequest, Http, Construct
<1>2. CASE PushTask
  <2>1. CASE running
    <3>1. tasks' # <<>>
      BY <1>2, <2>1 DEF PushTask
    <3>2. QED BY <1>2, <2>1, <3>1 DEF PushTask, TaskMutexFree
  <2>2. CASE ~running
    BY <1>2, <2>2 DEF PushTask
  <2>3. QED BY <2>1, <2>2
<1>3. CASE NotifyWorker \/ NotifyStop
  BY <1>3 DEF NotifyWorker, NotifyStop, Http
<1>4. CASE Reply
  BY <1>4 DEF Reply, Http
<1>5. CASE Cancel
  BY <1>5 DEF Cancel, Http
<1>6. CASE FailQueued
  BY <1>6 DEF FailQueued, Http, TaskMutexFree
<1>7. CASE Join
  BY <1>7 DEF Join, Http
<1>8. CASE WorkerTests
  BY <1>8 DEF WorkerTests
<1>9. CASE WorkerSleeps
  BY <1>9 DEF WorkerSleeps, Worker
<1>10. CASE CompleteTask
  BY <1>10 DEF CompleteTask, Worker
<1>11. CASE WorkerLeaves
  BY <1>11 DEF WorkerLeaves, Worker
<1>12. CASE ResetPipeline
  BY <1>12 DEF ResetPipeline, Worker
<1>13. CASE Spurious
  BY <1>13 DEF Spurious, Worker, sdVars
<1>14. CASE PipelineStep \/ ProcessorCall \/ SaveThread \/ UNCHANGED vars
  BY <1>14 DEF PipelineStep, ProcessorCall, SaveThread, vars, sdVars
<1>15. Next => \/ AddRequest \/ Cancel \/ PushTask \/ NotifyWorker \/ Reply \/ FailQueued
               \/ NotifyStop \/ Join \/ WorkerTests \/ WorkerSleeps \/ PipelineStep
               \/ CompleteTask \/ WorkerLeaves \/ ResetPipeline \/ ProcessorCall
               \/ SaveThread \/ Spurious
  BY Zenon DEF Next, HttpThread, WorkerThread
<1>16. QED
  BY <1>1, <1>2, <1>3, <1>4, <1>5, <1>6, <1>7, <1>8, <1>9, <1>10, <1>11, <1>12, <1>13, <1>14, <1>15

LEMMA SaverServesStep ==
  TaskSaveInv /\ WorkerServes /\ SaverServes /\ [Next]_vars => SaverServes'
<1> SUFFICES ASSUME TaskInv, WorkerServes, SaverServes, [Next]_vars PROVE SaverServes'
    BY DEF TaskSaveInv
<1> USE DEF SaverServes, Inside, Ended
<1>1. CASE AddRequest
  BY <1>1 DEF AddRequest, Construct, WorkerServes, TaskInv, Http
<1>2. CASE PipelineStep
  <2> worker = "work" /\ worker' = "work"
    BY <1>2 DEF PipelineStep, sdVars
  <2>1. CASE /\ Configure \/ SelectDevice \/ LoadDetector \/ LoadSegmenter \/ ReadImage
             /\ UNCHANGED hpVars
    BY <2>1 DEF Configure, SelectDevice, LoadDetector, LoadSegmenter, ReadImage, Stage, hpVars
  <2>2. CASE Preprocess \/ CutSlices \/ Detect \/ Segment \/ Report
    <3>1. /\ UNCHANGED hpVars /\ caller = "idle"
          /\ stage' \in {"halcon", "collect", "detect", "segment", "report"}
      BY <2>2 DEF Preprocess, CutSlices, Detect, Segment, Report, Fail, Leave, Stage
    <3>2. QED BY <3>1 DEF hpVars
  <2>3. CASE FindCandidates
    <3>1. CASE QueueSave /\ stage' = "slices"
      BY <2>3, <3>1 DEF FindCandidates, QueueSave, QueueMutexFree
    <3>2. CASE UNCHANGED hpVars /\ stage' = "result"
      BY <2>3, <3>2 DEF FindCandidates, hpVars
    <3>3. QED BY <2>3, <3>1, <3>2 DEF FindCandidates
  <2>4. CASE Collect \/ Collected
    BY <2>4 DEF Collect, Collected, Stage
  <2>5. QED BY <1>2, <2>1, <2>2, <2>3, <2>4 DEF PipelineStep
<1>3. CASE CompleteTask
  BY <1>3 DEF CompleteTask, Worker, hpVars
<1>4. CASE WorkerLeaves
  BY <1>4 DEF WorkerLeaves, Worker
<1>5. CASE ResetPipeline
  BY <1>5 DEF ResetPipeline, Worker, hpVars
<1>6. CASE Join
  BY <1>6 DEF Join, Http, hpVars, dpVars
<1>7. CASE \/ PushTask \/ NotifyWorker \/ Reply \/ Cancel \/ FailQueued \/ NotifyStop
           \/ WorkerSleeps \/ UNCHANGED vars
  BY <1>7 DEF PushTask, NotifyWorker, Reply, Cancel, FailQueued, NotifyStop, WorkerSleeps, Worker,
     vars, sdVars, dpVars, hpVars
<1>8. CASE WorkerTests
  BY <1>8 DEF WorkerTests, hpVars
<1>9. CASE ProcessorCall
  <2> UNCHANGED <<worker, stage>>
    BY <1>9 DEF ProcessorCall, sdVars, dpVars
  <2>1. CASE NotifySaver \/ CallerTests \/ CallerSleeps
    BY <2>1 DEF NotifySaver, CallerTests, CallerSleeps
  <2>2. CASE DestructorNotifies \/ DestructorJoins
    BY <2>2 DEF DestructorNotifies, DestructorJoins, NotifyAllQueue
  <2>3. QED BY <1>9, <2>1, <2>2 DEF ProcessorCall, Caller
<1>10. CASE SaveThread
  <2> UNCHANGED <<worker, stage>>
    BY <1>10 DEF SaveThread, sdVars, dpVars
  <2>1. CASE SaverTests \/ SaverSleeps \/ SaverSaves \/ SaverCounts
    BY <2>1 DEF SaverTests, SaverSleeps, SaverSaves, SaverCounts
  <2>2. CASE SaverNotifies \/ SaverLeaves
    BY <2>2 DEF SaverNotifies, SaverLeaves, NotifyAllQueue
  <2>3. QED BY <1>10, <2>1, <2>2 DEF SaveThread, Saver
<1>11. CASE Spurious
  BY <1>11 DEF Spurious, SpuriousWake, Worker, sdVars, dpVars, hpVars
<1>12. Next => \/ AddRequest \/ Cancel \/ PushTask \/ NotifyWorker \/ Reply \/ FailQueued
               \/ NotifyStop \/ Join \/ WorkerTests \/ WorkerSleeps \/ PipelineStep
               \/ CompleteTask \/ WorkerLeaves \/ ResetPipeline \/ ProcessorCall
               \/ SaveThread \/ Spurious
  BY Zenon DEF Next, HttpThread, WorkerThread
<1>13. QED BY <1>1, <1>2, <1>3, <1>4, <1>5, <1>6, <1>7, <1>8, <1>9, <1>10, <1>11, <1>12

\* No thread waits for one that sleeps, for any requests, cancellations and spurious
\* wake-ups: what RequestAnswered and CancelEnds rest on beside fairness.
THEOREM NobodyWaitsForSleeper == Spec => []WaitsAreServed
<1>1. Init => WorkerServes /\ SaverServes
  BY DEF Init, DpInit, HpInit, WorkerServes, WorkerStates, SaverServes, Inside, Ended
<1>2. TypeOK /\ TaskSaveInv /\ WorkerServes /\ SaverServes => WaitsAreServed
  <2> SUFFICES ASSUME saver \in SaverStates, TaskInv, SaveCount, WorkerServes, SaverServes
               PROVE  WaitsAreServed
      BY DEF TaskSaveInv, SaveInv, TypeOK, HpTypeOK
  <2>1. http = "waiting" /\ answer = "pending" => worker = "work" \/ (worker = "run" /\ tasks # <<>>)
    BY DEF WorkerServes, WorkerStates
  <2>2. worker = "work" /\ caller \in {"testing", "asleep"} =>
          pending = 0 \/ saver \in {"run", "saving", "saved", "notify"}
    <3>1. SUFFICES ASSUME worker = "work", caller \in {"testing", "asleep"}, pending # 0,
                          saver \notin {"saving", "saved"}
                   PROVE  saver \in {"run", "notify"}
      OBVIOUS
    <3>2. saveQueue = <<"overlay">>
      BY <3>1 DEF SaveCount
    <3>3. saver \notin {"none", "testing", "asleep", "leaving", "gone"}
      BY <3>1, <3>2 DEF SaverServes, Inside, Ended
    <3>4. QED BY <3>1, <3>3 DEF SaverStates
  <2>3. QED BY <2>1, <2>2 DEF WaitsAreServed, WorkerServes, SaverServes
<1>3. QED
  BY <1>1, <1>2, TypeCorrect, TaskInit, TaskStep, WorkerServesStep, SaverServesStep, PTL DEF Spec
=============================================================================
