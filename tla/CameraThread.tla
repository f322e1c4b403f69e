---------------------------- MODULE CameraThread ----------------------------
(***************************************************************************)
(* Core/camera_thread.{hpp,cpp} with its two callers: the HTTP thread,     *)
(* which starts and stops it (Scheduler, the camera handlers of Server.cpp)*)
(* and asks it for single images, and the GroupManager, which gives it the *)
(* token for the next group.                                               *)
(*                                                                         *)
(* CaptureFlow models what happens to a group; here it is only `owed`: a   *)
(* frame has been pushed, so some group will be finalised, and a token     *)
(* follows.  The steps here are those of the two mutexes, the condition    *)
(* variable of the token and the stop flag.                                *)
(***************************************************************************)
EXTENDS Naturals

CONSTANT FaceCount      \* kQuadImageCount

ASSUME FaceCountAssumption == FaceCount \in Nat \ {0}

VARIABLES
    running,    \* mRunning
    stopReq,    \* mStopRequested
    requested,  \* mSingleCaptureRequested
    promise,    \* mSingleCapturePromise
    grouped,    \* mEnableGroupCapture: a detection task owns the camera
    allow,      \* mAllowNextGroup
    face,       \* face_index
    cpc,        \* the capture thread
    hpc,        \* the HTTP thread
    gpc,        \* the GroupManager thread
    owed,       \* a group the GroupManager has still to finalise
    gStop,      \* ~GroupManager::mRunning
    qStop       \* QueueManager::mStopped

vars == <<running, stopReq, requested, promise, grouped, allow, face, cpc, hpc,
          gpc, owed, gStop, qStop>>

\* "snap" holds mSingleCaptureMutex; "test" and "block" hold mAllowMutex, before
\* and after the predicate was found false; "asleep": inside mAllowCondition.wait.
CameraStates == {"top", "single", "snap", "token", "test", "block", "asleep",
                 "stage", "faces", "shot", "exit"}
HttpStates   == {"idle", "ask", "get", "stop", "fail", "notify", "stopGroup",
                 "stopQueue", "joinCamera", "joinGroup"}
GroupStates  == {"pop", "notify", "done"}
Answers      == {"none", "image", "error"}

TypeOK ==
    /\ running \in BOOLEAN /\ stopReq \in BOOLEAN /\ requested \in BOOLEAN
    /\ promise \in Answers
    /\ grouped \in BOOLEAN /\ allow \in BOOLEAN
    /\ face \in 0..FaceCount-1
    /\ cpc \in CameraStates /\ hpc \in HttpStates /\ gpc \in GroupStates
    /\ owed \in BOOLEAN /\ gStop \in BOOLEAN /\ qStop \in BOOLEAN

Init ==
    /\ running = FALSE /\ stopReq = FALSE /\ requested = FALSE
    /\ promise = "none"
    /\ grouped = FALSE /\ allow = TRUE
    /\ face = 0
    /\ cpc = "exit" /\ hpc = "idle" /\ gpc = "done"
    /\ owed = FALSE /\ gStop = TRUE /\ qStop = FALSE

SingleMutexFree == cpc # "snap"
AllowMutexFree  == cpc \notin {"test", "block"}

Camera(from, to) == cpc = from /\ cpc' = to
Http(from, to)   == hpc = from /\ hpc' = to
LastFace == FaceCount - 1

-----------------------------------------------------------------------------
(* captureLoop.                                                            *)

\* while (!mStopRequested)
Top ==
    /\ cpc = "top"
    /\ cpc' = IF stopReq THEN "exit" ELSE "single"
    /\ UNCHANGED <<running, stopReq, requested, promise, grouped, allow, face,
                   hpc, gpc, owed, gStop, qStop>>

\* wait_for wakes after at most 100 ms whatever is notified, so all that matters
\* is what it finds when it holds the mutex again.
SingleWait ==
    /\ cpc = "single"
    /\ \/ stopReq /\ cpc' = "exit"
       \/ ~stopReq /\ requested /\ cpc' = "snap"
       \/ ~stopReq /\ ~requested /\ cpc' = IF grouped THEN "token" ELSE "top"
    /\ UNCHANGED <<running, stopReq, requested, promise, grouped, allow, face,
                   hpc, gpc, owed, gStop, qStop>>

SingleSnapSilent ==     \* mutant: the exception of a failed Snap is not set
    /\ Camera("snap", "top")
    /\ promise' \in {"none", "image"}
    /\ requested' = FALSE
    /\ UNCHANGED <<running, stopReq, grouped, allow, face, hpc, gpc, owed, gStop, qStop>>

\* captureSingleImageInternal under the mutex: an image, or the exception.
SingleSnap ==
    /\ Camera("snap", "top")
    /\ promise' \in {"image", "error"}
    /\ requested' = FALSE
    /\ UNCHANGED <<running, stopReq, grouped, allow, face, hpc, gpc, owed, gStop, qStop>>

LockAllow ==
    /\ Camera("token", "test")
    /\ UNCHANGED <<running, stopReq, requested, promise, grouped, allow, face,
                   hpc, gpc, owed, gStop, qStop>>

TestTokenOnly ==        \* mutant: the predicate does not read the stop flag
    /\ cpc = "test"
    /\ IF allow
       THEN cpc' = (IF stopReq THEN "exit" ELSE "stage") /\ allow' = stopReq
       ELSE cpc' = "block" /\ UNCHANGED allow
    /\ UNCHANGED <<running, stopReq, requested, promise, grouped, face,
                   hpc, gpc, owed, gStop, qStop>>

\* The predicate of mAllowCondition.wait, and what follows when it holds.
TestToken ==
    /\ cpc = "test"
    /\ \/ stopReq /\ cpc' = "exit" /\ UNCHANGED allow
       \/ ~stopReq /\ allow /\ cpc' = "stage" /\ allow' = FALSE
       \/ ~stopReq /\ ~allow /\ cpc' = "block" /\ UNCHANGED allow
    /\ UNCHANGED <<running, stopReq, requested, promise, grouped, face,
                   hpc, gpc, owed, gStop, qStop>>

\* The mutex is released and the thread sleeps, in one step; there is no timeout.
Block ==
    /\ Camera("block", "asleep")
    /\ UNCHANGED <<running, stopReq, requested, promise, grouped, allow, face,
                   hpc, gpc, owed, gStop, qStop>>

SpuriousWake ==
    /\ Camera("asleep", "token")
    /\ UNCHANGED <<running, stopReq, requested, promise, grouped, allow, face,
                   hpc, gpc, owed, gStop, qStop>>

\* Notifying mAllowCondition.
WakeCamera == cpc' = IF cpc = "asleep" THEN "token" ELSE cpc

StageReady ==
    /\ Camera("stage", "faces")
    /\ face' = 0
    /\ UNCHANGED <<running, stopReq, requested, promise, grouped, allow,
                   hpc, gpc, owed, gStop, qStop>>

StageFailsKeeping ==    \* mutant: no allow_next_group after a failed LOAD
    /\ Camera("stage", "top")
    /\ UNCHANGED <<running, stopReq, requested, promise, grouped, allow, face,
                   hpc, gpc, owed, gStop, qStop>>

\* LOAD or GOTO_CAM failed or was cut short by the stop flag: allow_next_group by
\* the capture thread itself.
StageFails ==
    /\ Camera("stage", "top")
    /\ allow' = TRUE
    /\ UNCHANGED <<running, stopReq, requested, promise, grouped, face,
                   hpc, gpc, owed, gStop, qStop>>

\* A Snap that succeeds, with all channels.  One that fails or is incomplete changes
\* nothing: the face is tried again, without limit, after the stop flag has been read.
SnapFace ==
    /\ Camera("faces", "shot") /\ ~stopReq
    /\ UNCHANGED <<running, stopReq, requested, promise, grouped, allow, face,
                   hpc, gpc, owed, gStop, qStop>>

LeaveFaces ==
    /\ Camera("faces", "top") /\ stopReq
    /\ UNCHANGED <<running, stopReq, requested, promise, grouped, allow, face,
                   hpc, gpc, owed, gStop, qStop>>

PushFaceUnbounded ==    \* mutant: face_index runs past the last face
    /\ cpc = "shot" /\ ~qStop
    /\ owed' = TRUE
    /\ \/ face <= LastFace /\ face' = face + 1 /\ cpc' = "faces"
       \/ cpc' = "top" /\ UNCHANGED face
    /\ UNCHANGED <<running, stopReq, requested, promise, grouped, allow,
                   hpc, gpc, gStop, qStop>>

\* The frame is pushed, and CAM_NEXT or UNLOAD follow; a failed CAM_NEXT leaves
\* the group.
PushFace ==
    /\ cpc = "shot" /\ ~qStop
    /\ owed' = TRUE
    /\ \/ face < LastFace /\ face' = face + 1 /\ cpc' = "faces"
       \/ cpc' = "top" /\ UNCHANGED face
    /\ UNCHANGED <<running, stopReq, requested, promise, grouped, allow,
                   hpc, gpc, gStop, qStop>>

\* pushRaw refuses the frame once the queue is stopped.
PushRefused ==
    /\ Camera("shot", "top") /\ qStop
    /\ UNCHANGED <<running, stopReq, requested, promise, grouped, allow, face,
                   hpc, gpc, owed, gStop, qStop>>

Capture == \/ Top \/ SingleWait \/ SingleSnap \/ LockAllow \/ TestToken \/ Block
           \/ StageReady \/ StageFails \/ LeaveFaces
           \/ PushFace \/ PushRefused

-----------------------------------------------------------------------------
(* GroupManager::run, as far as the camera sees it.                        *)

GiveTokenUnlocked ==    \* mutant: allow_next_group without mAllowMutex
    /\ gpc = "pop" /\ owed
    /\ gpc' = "notify"
    /\ owed' = FALSE
    /\ allow' = TRUE
    /\ UNCHANGED <<running, stopReq, requested, promise, grouped, face, cpc,
                   hpc, gStop, qStop>>

\* finalizeGroup reaches allow_next_group: the flag under the mutex ...
GiveToken ==
    /\ gpc = "pop" /\ owed /\ AllowMutexFree
    /\ gpc' = "notify"
    /\ owed' = FALSE
    /\ allow' = TRUE
    /\ UNCHANGED <<running, stopReq, requested, promise, grouped, face, cpc,
                   hpc, gStop, qStop>>

\* ... the notification after it.
NotifyToken ==
    /\ gpc = "notify"
    /\ gpc' = "pop"
    /\ WakeCamera
    /\ UNCHANGED <<running, stopReq, requested, promise, grouped, allow, face,
                   hpc, owed, gStop, qStop>>

GroupExit ==
    /\ gpc = "pop" /\ (gStop \/ qStop)
    /\ gpc' = "done"
    /\ UNCHANGED <<running, stopReq, requested, promise, grouped, allow, face,
                   cpc, hpc, owed, gStop, qStop>>

GroupThread == GiveToken \/ NotifyToken \/ GroupExit

-----------------------------------------------------------------------------
(* The HTTP thread: one libevent loop, one request at a time.              *)

\* CameraThread::start.
StartCamera(group) ==
    /\ grouped' = group
    /\ running' = TRUE /\ stopReq' = FALSE
    /\ allow' = TRUE
    /\ cpc' = "top"

\* Scheduler::start: the queue and the GroupManager first, the camera last.
StartTask ==
    /\ hpc = "idle" /\ ~grouped
    /\ qStop' = FALSE /\ gStop' = FALSE /\ gpc' = "pop" /\ owed' = FALSE
    /\ StartCamera(TRUE)
    /\ UNCHANGED <<requested, promise, face, hpc>>

\* The camera does not start: everything started before it is stopped again.
StartTaskFails ==
    /\ Http("idle", "stop") /\ ~grouped
    /\ qStop' = FALSE /\ gStop' = FALSE /\ gpc' = "pop" /\ owed' = FALSE
    /\ grouped' = TRUE
    /\ UNCHANGED <<running, stopReq, requested, promise, allow, face, cpc>>

StopTask ==
    /\ Http("idle", "stop") /\ grouped
    /\ UNCHANGED <<running, stopReq, requested, promise, grouped, allow, face,
                   cpc, gpc, owed, gStop, qStop>>

\* apiCameraSingleCapture: a camera of its own when none is running.
BeginSingle ==
    /\ Http("idle", "ask")
    /\ IF running
       THEN UNCHANGED <<running, stopReq, grouped, allow, cpc>>
       ELSE StartCamera(FALSE)
    /\ UNCHANGED <<requested, promise, face, gpc, owed, gStop, qStop>>

\* captureSingleImage.
AskSingle ==
    /\ Http("ask", "get") /\ SingleMutexFree
    /\ IF ~running \/ stopReq \/ requested
       THEN promise' = "error" /\ UNCHANGED requested
       ELSE promise' = "none" /\ requested' = TRUE
    /\ UNCHANGED <<running, stopReq, grouped, allow, face, cpc, gpc, owed, gStop, qStop>>

\* future.get(), which has no timeout, then releaseTemporaryCamera.
GetSingle ==
    /\ hpc = "get" /\ promise # "none"
    /\ hpc' = IF grouped THEN "idle" ELSE "stop"
    /\ promise' = "none"
    /\ UNCHANGED <<running, stopReq, requested, grouped, allow, face, cpc,
                   gpc, owed, gStop, qStop>>

\* CameraThread::stop: the flag; the pending promise under its mutex; the
\* notifications, for which mAllowMutex is never taken.
StopFlag ==
    /\ Http("stop", "fail")
    /\ stopReq' = TRUE
    /\ UNCHANGED <<running, requested, promise, grouped, allow, face, cpc,
                   gpc, owed, gStop, qStop>>

FailSingle ==
    /\ Http("fail", "notify") /\ SingleMutexFree
    /\ promise' = IF requested THEN "error" ELSE promise
    /\ requested' = FALSE
    /\ UNCHANGED <<running, stopReq, grouped, allow, face, cpc, gpc, owed, gStop, qStop>>

NotifyCamera ==
    /\ hpc = "notify"
    /\ hpc' = IF grouped THEN "stopGroup" ELSE "joinCamera"
    /\ WakeCamera
    /\ UNCHANGED <<running, stopReq, requested, promise, grouped, allow, face,
                   gpc, owed, gStop, qStop>>

StopGroupManager ==
    /\ Http("stopGroup", "stopQueue")
    /\ gStop' = TRUE
    /\ UNCHANGED <<running, stopReq, requested, promise, grouped, allow, face,
                   cpc, gpc, owed, qStop>>

StopQueue ==
    /\ Http("stopQueue", "joinCamera")
    /\ qStop' = TRUE
    /\ UNCHANGED <<running, stopReq, requested, promise, grouped, allow, face,
                   cpc, gpc, owed, gStop>>

JoinCamera ==
    /\ hpc = "joinCamera" /\ cpc = "exit"
    /\ hpc' = IF grouped THEN "joinGroup" ELSE "idle"
    /\ running' = FALSE
    /\ UNCHANGED <<stopReq, requested, promise, grouped, allow, face, cpc,
                   gpc, owed, gStop, qStop>>

JoinGroup ==
    /\ Http("joinGroup", "idle") /\ gpc = "done"
    /\ grouped' = FALSE
    /\ UNCHANGED <<running, stopReq, requested, promise, allow, face, cpc,
                   gpc, owed, gStop, qStop>>

\* Steps the HTTP thread takes by itself once a request has been received.
Proceed == \/ AskSingle \/ GetSingle \/ StopFlag \/ FailSingle \/ NotifyCamera
           \/ StopGroupManager \/ StopQueue \/ JoinCamera \/ JoinGroup

Request == StartTask \/ StartTaskFails \/ StopTask \/ BeginSingle

Next == Capture \/ SnapFace \/ SpuriousWake \/ GroupThread \/ Proceed \/ Request

\* The three threads are scheduled, a Snap or a stage command ends some time, with
\* success or without, and a mutex that is free again and again is got (SF).  No Snap
\* of a group need ever succeed (SnapFace), no request need arrive and no wake-up be
\* spurious.
FairSpec ==
    /\ Init /\ [][Next]_vars
    /\ WF_vars(Capture)
    /\ WF_vars(GroupThread) /\ SF_vars(GiveToken)
    /\ SF_vars(Proceed)

Spec == Init /\ [][Next]_vars

-----------------------------------------------------------------------------
(* Properties.                                                             *)

\* allow_next_group cannot slip between the camera's test and its sleep: a camera
\* asleep while its token lies there is one that is about to be notified
\* (camera_thread.cpp:101-107 against 320-327).
NoSleepOnToken == cpc = "asleep" /\ allow => gpc = "notify"

\* A camera asleep during a task waits for a group that is on its way, so the
\* untimed wait at camera_thread.cpp:322 ends without anybody's help.
SleepIsOwed == cpc \in {"block", "asleep"} /\ gpc # "done" => owed \/ gpc = "notify"

\* A single capture is answered, be the camera waiting for a token, between groups or
\* in the middle of one, unless the Snaps of a face fail for ever: the retry loop of
\* camera_thread.cpp:351-392 is the only place where a request can be left waiting,
\* while future.get() holds up the only HTTP thread without a timeout (Server.cpp:285).
CaptureAnswered == (hpc = "get" ~> hpc # "get") \/ <>[](cpc = "faces")

\* Once the stop notification is out, a camera that was not on its way to sleep
\* at that moment is joined, so the window of TestToken..Block is the only one.
StopEndsOutsideWindow ==
    hpc = "stopGroup" /\ cpc \notin {"block", "asleep"} ~> hpc = "idle"

\* What Scheduler.cpp:136-137 says of its stop sequence: "wake any blocking queue
\* waits so every owned thread can exit and be joined".
StopTerminates == hpc = "stop" ~> hpc = "idle"
=============================================================================
