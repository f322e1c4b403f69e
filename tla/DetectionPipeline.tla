------------------------- MODULE DetectionPipeline -------------------------
(***************************************************************************)
(* Core/detection_pipeline.{hpp,cpp} on the thread that owns it: configure *)
(* with its cache of device-bound models, and processFile with its stages. *)
(*                                                                         *)
(* `stage` is where that thread is in the pipeline.  Everything a library  *)
(* decides (a device that cannot be selected, an engine that cannot be     *)
(* loaded, the candidates, the raw detections, the masks) is chosen from   *)
(* small sets.                                                             *)
(***************************************************************************)
EXTENDS HalconProcessor, ImageSlices, DetectRequest

CONSTANTS
    PresentFiles,   \* the SAM model files that exist
    ImageSizes,     \* sizes of the images that can be read
    CandidateSets,  \* sequences of centres the HALCON search may return
    RawDetections,  \* what the detector may see in a slice
    NoParams, NoModel

\* An image has a size, a centre lies to the right of and below its corner, and the
\* corners of a box are ints.
ASSUME ImageAssumption ==
    /\ ImageSizes \subseteq [w : Nat, h : Nat]
    /\ CandidateSets \subseteq Seq([x2 : Nat, y2 : Nat])
    /\ RawDetections \subseteq
          Seq([slice : Nat, class : Int, score : Int,
               box : [x0 : Int, y0 : Int, x1 : Int, y1 : Int]])

VARIABLES
    stage,
    device,     \* the CUDA device current on this thread
    gpu,        \* current_gpu_device
    configured, \* is_configured
    params,     \* params
    detector,   \* detector and detector_engine: [file, device]
    sam,        \* sam, sam_ready, sam_encoder and sam_decoder: [files, device]
    asked,      \* the parameters and the input of the call at work
    work,       \* the locals of processSource
    result      \* the SingleImageResult

dpVars == <<stage, device, gpu, configured, params, detector, sam, asked, work, result>>

Stages == {"idle", "configure", "select", "detector", "segmenter", "refused",
           "read", "preprocess", "halcon", "slices", "detect", "segment", "report",
           "collect", "collecting", "result"}
UsingModels == {"detect", "segment", "report"}

NoWork   == [size |-> [w |-> 0, h |-> 0], centers |-> <<>>, starts |-> <<>>,
             raw |-> <<>>, found |-> <<>>, measures |-> <<>>]
NoResult == [ok |-> FALSE, skeleton |-> FALSE, detections |-> <<>>]

DpInit ==
    /\ stage = "idle" /\ device = 0
    /\ gpu = -1 /\ configured = FALSE
    /\ params = NoParams /\ detector = NoModel /\ sam = NoModel
    /\ asked = NoParams /\ work = NoWork /\ result = NoResult

Stage(from, to) == stage = from /\ stage' = to
cacheVars == <<device, gpu, configured, params, detector, sam>>

-----------------------------------------------------------------------------
(* configure.                                                              *)

\* A negative device and an empty engine path are refused before anything is
\* touched.
Configure ==
    /\ stage = "configure"
    /\ stage' = IF asked.gpu_device < 0 \/ EngineFile(asked) = "" THEN "refused"
                ELSE IF gpu # asked.gpu_device THEN "select" ELSE "detector"
    /\ UNCHANGED <<cacheVars, asked, work, result>>

SelectDeviceFirst ==    \* mutant: the new device is selected, then the old models go
    /\ stage = "select"
    /\ stage' = "detector" /\ device' = asked.gpu_device /\ gpu' = asked.gpu_device
    /\ configured' = FALSE
    /\ UNCHANGED <<params, detector, sam, asked, work, result>>

\* resetDeviceResources, then selectCudaDevice: OpenCV may refuse the device that
\* CUDA has accepted.
SelectDevice ==
    /\ stage = "select"
    /\ detector' = NoModel /\ sam' = NoModel /\ configured' = FALSE
    /\ \/ stage' = "detector" /\ device' = asked.gpu_device /\ gpu' = asked.gpu_device
       \/ stage' = "refused" /\ device' \in {device, asked.gpu_device} /\ gpu' = -1
    /\ UNCHANGED <<params, asked, work, result>>

LoadDetectorOnce ==     \* mutant: any loaded engine will do
    /\ stage = "detector"
    /\ IF detector # NoModel
       THEN stage' = "segmenter" /\ UNCHANGED <<detector, configured>>
       ELSE /\ stage' = "segmenter"
            /\ detector' = [file |-> EngineFile(asked), device |-> device]
            /\ UNCHANGED configured
    /\ UNCHANGED <<device, gpu, params, sam, asked, work, result>>

DetectorLoaded == detector # NoModel /\ detector.file = EngineFile(asked)

\* The engine is loaded again only for another path; a failure keeps the old one.
LoadDetector ==
    /\ stage = "detector"
    /\ \/ DetectorLoaded /\ stage' = "segmenter" /\ UNCHANGED <<detector, configured>>
       \/ /\ ~DetectorLoaded
          /\ \/ /\ stage' = "segmenter"
                /\ detector' = [file |-> EngineFile(asked), device |-> device]
                /\ UNCHANGED configured
             \/ stage' = "refused" /\ configured' = FALSE /\ UNCHANGED detector
    /\ UNCHANGED <<device, gpu, params, sam, asked, work, result>>

\* selectSamModels: the engine file, or the ONNX model when it does not exist.
SamFile(engine, onnx) == IF engine \in PresentFiles \/ onnx = "" THEN engine ELSE onnx
SamFiles(p) == <<SamFile(p.sam_encoder_name, p.sam_encoder_onnx_name),
                 SamFile(p.sam_decoder_name, p.sam_decoder_onnx_name)>>
SamWanted(p) == "" \notin {SamFiles(p)[1], SamFiles(p)[2]}
SamLoaded == sam # NoModel /\ sam.files = SamFiles(asked)

\* Segmentation is optional: without its models, or when they cannot be loaded,
\* the pipeline is configured all the same.
LoadSegmenter ==
    /\ Stage("segmenter", "read")
    /\ \/ ~SamWanted(asked) /\ sam' = NoModel
       \/ SamWanted(asked) /\ SamLoaded /\ UNCHANGED sam
       \/ /\ SamWanted(asked) /\ ~SamLoaded
          /\ sam' \in {NoModel, [files |-> SamFiles(asked), device |-> device]}
    /\ params' = asked /\ configured' = TRUE
    /\ UNCHANGED <<device, gpu, detector, asked, work, result>>

-----------------------------------------------------------------------------
(* processFile and processSource.                                          *)

LeaveAtOnce(from, ok) ==    \* mutant: an early return forgets the saves
    /\ Stage(from, "result")
    /\ result' = [result EXCEPT !.ok = ok]

\* Every way out after a save may be queued waits for the saves.
Leave(from, ok) ==
    /\ Stage(from, "collect")
    /\ result' = [result EXCEPT !.ok = ok]

Fail(from) == Leave(from, FALSE) /\ UNCHANGED work

\* cv::imread; what follows is processSource.
ReadImage ==
    /\ stage = "read"
    /\ \/ /\ configured /\ detector # NoModel
          /\ stage' = "preprocess"
          /\ \E size \in ImageSizes : work' = [NoWork EXCEPT !.size = size]
          /\ result' = [NoResult EXCEPT !.ok = TRUE]
       \/ stage' = "result" /\ result' = NoResult /\ UNCHANGED work
    /\ UNCHANGED <<cacheVars, asked>>

\* The output directory, the upload and the two preprocessImage calls; their
\* exceptions reach the catch clauses.
Preprocess ==
    /\ stage = "preprocess"
    /\ \/ Fail("preprocess")
       \/ /\ ~CropRejected(params, work.size) /\ ~MaskRejected(params)
          /\ Stage("preprocess", "halcon")
          /\ work' = [work EXCEPT !.size = Processed(params, @)]
          /\ UNCHANGED result
    /\ UNCHANGED <<cacheVars, asked, hpVars>>

\* HalconProcessor::processImage with saving on.  A failure comes before the save
\* is queued, and the caller returns at once.
FindCandidates ==
    /\ stage = "halcon"
    /\ \/ /\ stage' = "slices"
          /\ \E centers \in CandidateSets :
                /\ \A i \in DOMAIN centers : /\ centers[i].x2 < 2 * work.size.w
                                             /\ centers[i].y2 < 2 * work.size.h
                /\ work' = [work EXCEPT !.centers = centers]
          /\ result' = [result EXCEPT !.skeleton = TRUE]
          /\ QueueSave
       \/ /\ stage' = "result"
          /\ \E named \in BOOLEAN : result' = [NoResult EXCEPT !.skeleton = named]
          /\ UNCHANGED <<work, hpVars>>
    /\ UNCHANGED <<cacheVars, asked>>

\* No candidate is a GOOD image.
CutSlices ==
    /\ stage = "slices" /\ caller = "idle"
    /\ IF work.centers = <<>> THEN Leave("slices", TRUE) /\ UNCHANGED work
       ELSE IF SlicesRejected(params) THEN Fail("slices")
       ELSE /\ Stage("slices", "detect")
            /\ work' = [work EXCEPT !.starts = Slices(params, work.centers)]
            /\ UNCHANGED result
    /\ UNCHANGED <<cacheVars, asked, hpVars>>

\* process_sliced_images: the raw detections of all slices, the two filters, and the
\* suppression of overlapping boxes, which may drop any of them and returns the others
\* by descending score.
Detect ==
    /\ stage = "detect"
    /\ \/ Fail("detect")
       \/ /\ ~ThresholdsRejected(params) /\ Stage("detect", "segment")
          /\ \E raw \in RawDetections :
                /\ \A i \in DOMAIN raw : raw[i].slice \in DOMAIN work.starts
                /\ \E kept \in SUBSET {i \in DOMAIN raw : Candidate(params, work.starts, raw[i])} :
                      \E ids \in ByScore(raw, kept) :
                         work' = [work EXCEPT
                            !.raw   = raw,
                            !.found = [i \in DOMAIN ids |-> InImage(work.starts, raw[ids[i]])]]
          /\ UNCHANGED result
    /\ UNCHANGED <<cacheVars, asked, hpVars>>

\* Masks, measures and the filter by size, when SAM is there and something was
\* found.
Segment ==
    /\ \/ /\ Stage("segment", "report")
          /\ IF sam = NoModel \/ work.found = <<>> THEN UNCHANGED work
             ELSE \E masks \in [DOMAIN work.found -> {"empty", "small", "kept"}] :
                     work' = [work EXCEPT !.found    = Segmented(@, masks),
                                          !.measures = Measures(work.found, masks)]
          /\ UNCHANGED result
       \/ sam # NoModel /\ work.found # <<>> /\ Fail("segment")
    /\ UNCHANGED <<cacheVars, asked, hpVars>>

\* The detections of the result; a measure belongs to the detection of its index.
Report ==
    /\ Stage("report", "collect")
    /\ result' = [result EXCEPT !.detections =
          [i \in DOMAIN work.found |->
              [box |-> work.found[i], measured |-> i \in DOMAIN work.measures]]]
    /\ UNCHANGED <<cacheVars, asked, work, hpVars>>

\* halcon.waitForAsyncOperations()
Collect ==
    /\ caller = "idle"
    /\ Stage("collect", "collecting") /\ caller' = "wait"
    /\ UNCHANGED <<cacheVars, asked, work, result, saver, stopSaver, saveQueue, pending,
                   skeleton, saveResult>>

Collected ==
    /\ caller = "returned"
    /\ Stage("collecting", "result") /\ caller' = "idle"
    /\ UNCHANGED <<cacheVars, asked, work, result, saver, stopSaver, saveQueue, pending,
                   skeleton, saveResult>>
=============================================================================
