---------------------------- MODULE CaptureFlow -----------------------------
(***************************************************************************)
(* The life of a group from the stage to the database: the group part of   *)
(* CameraThread::captureLoop, the detection workers and the GroupManager,  *)
(* joined by the two queues and by the camera's allow-next-group token.    *)
(*                                                                         *)
(* The workers' share is only how long a frame takes: whatever happens to  *)
(* it, DetectThread::run publishes exactly one result per popped frame.    *)
(* QueueManager models the queues themselves; here they are sets, a frame  *)
(* stays in `frames` until its result is pushed.                           *)
(***************************************************************************)
EXTENDS GroupManager

VARIABLES
    frames,     \* <<group, face>>: in the raw queue or with a worker
    cam,        \* where captureLoop is
    seq,        \* mGroupSequence
    gid, face,  \* group_id and face_index of the loop
    camStop     \* CameraThread::mStopRequested

camVars == <<frames, cam, seq, gid, face, camStop>>
vars == <<gmVars, camVars>>

CamStates == {"waiting", "stage", "shoot", "taken", "advance", "done"}

TypeOK ==
    /\ GmTypeOK
    /\ frames \subseteq Groups \X Faces
    /\ cam \in CamStates
    /\ seq \in 1..MaxGroup+1
    /\ gid \in Groups \cup {NoGroup}
    /\ face \in Faces
    /\ camStop \in BOOLEAN

Init ==
    /\ GmInit
    /\ frames = {}
    /\ cam = "waiting"
    /\ seq = 1
    /\ gid = NoGroup
    /\ face = 0
    /\ camStop = FALSE

LastFace == FaceCount - 1

-----------------------------------------------------------------------------
(* captureLoop.                                                            *)

TakeTokenForgets ==     \* mutant: mAllowNextGroup is not reset
    /\ cam = "waiting" /\ ~camStop /\ allow /\ seq <= MaxGroup
    /\ cam' = "stage"
    /\ UNCHANGED <<gmVars, frames, seq, gid, face, camStop>>

\* mAllowCondition.wait, then mAllowNextGroup = false.
TakeToken ==
    /\ cam = "waiting" /\ ~camStop /\ allow /\ seq <= MaxGroup
    /\ cam' = "stage"
    /\ allow' = FALSE
    /\ UNCHANGED <<results, received, aged, running, qStop, gpc, current, due, recorded,
                   reports, reported, timedOut, frames, seq, gid, face, camStop>>

StageFailsKeeping ==    \* mutant: no allow_next_group after a failed LOAD
    /\ cam = "stage"
    /\ cam' = "waiting"
    /\ UNCHANGED <<gmVars, frames, seq, gid, face, camStop>>

\* LOAD or GOTO_CAM failed: the loop lets itself try again.
StageFails ==
    /\ cam = "stage"
    /\ cam' = "waiting"
    /\ allow' = TRUE
    /\ UNCHANGED <<results, received, aged, running, qStop, gpc, current, due, recorded,
                   reports, reported, timedOut, frames, seq, gid, face, camStop>>

BeginGroup ==
    /\ cam = "stage"
    /\ cam' = "shoot"
    /\ gid' = seq
    /\ seq' = seq + 1
    /\ face' = 0
    /\ UNCHANGED <<gmVars, frames, camStop>>

\* The stop flag is read before each Snap; a failed Snap retries the same face.
Snap ==
    /\ cam = "shoot" /\ ~camStop
    /\ cam' = "taken"
    /\ UNCHANGED <<gmVars, frames, seq, gid, face, camStop>>

\* pushRaw, which refuses the frame when the queue was stopped meanwhile.
Push ==
    /\ cam = "taken"
    /\ IF qStop
       THEN cam' = "waiting" /\ UNCHANGED frames
       ELSE cam' = "advance" /\ frames' = frames \cup {<<gid, face>>}
    /\ UNCHANGED <<gmVars, seq, gid, face, camStop>>

NextFaceUnbounded ==    \* mutant: face_index runs past the last face
    /\ cam = "advance" /\ face <= LastFace
    /\ cam' = "shoot"
    /\ face' = face + 1
    /\ UNCHANGED <<gmVars, frames, seq, gid, camStop>>

\* CAM_NEXT was answered: the next face.
NextFace ==
    /\ cam = "advance" /\ face < LastFace
    /\ cam' = "shoot"
    /\ face' = face + 1
    /\ UNCHANGED <<gmVars, frames, seq, gid, camStop>>

\* CAM_NEXT failed (the group stays incomplete), or UNLOAD ended either way.
LeaveGroup ==
    /\ cam = "advance"
    /\ cam' = "waiting"
    /\ UNCHANGED <<gmVars, frames, seq, gid, face, camStop>>

CamExit ==
    /\ cam \in {"waiting", "shoot"} /\ camStop
    /\ cam' = "done"
    /\ UNCHANGED <<gmVars, frames, seq, gid, face, camStop>>

Camera == TakeToken \/ StageFails \/ BeginGroup \/ Snap \/ Push \/ NextFace \/ LeaveGroup \/ CamExit

-----------------------------------------------------------------------------
\* A worker ends with a frame, in any order: publishResult pushes its result,
\* or loses it when the queue has been stopped.
Detect ==
    \E frame \in frames :
        /\ frames' = frames \ {frame}
        /\ results' = IF qStop THEN results ELSE results \cup {frame}
        /\ UNCHANGED <<received, aged, running, qStop, gpc, current, due, allow, recorded,
                       reports, reported, timedOut, cam, seq, gid, face, camStop>>

GroupManagerStep == GmThread /\ UNCHANGED camVars
Clock == \E g \in Groups : Age(g) /\ UNCHANGED camVars

\* Scheduler::stop, flag by flag in its order.
StopCamera ==
    /\ ~camStop
    /\ camStop' = TRUE
    /\ UNCHANGED <<gmVars, frames, cam, seq, gid, face>>

StopGroupManager ==
    /\ camStop /\ running
    /\ running' = FALSE
    /\ UNCHANGED <<results, received, aged, qStop, gpc, current, due, allow, recorded,
                   reports, reported, timedOut, camVars>>

StopQueue ==
    /\ ~running /\ ~qStop
    /\ qStop' = TRUE
    /\ UNCHANGED <<results, received, aged, running, gpc, current, due, allow, recorded,
                   reports, reported, timedOut, camVars>>

Stop == StopCamera \/ StopGroupManager \/ StopQueue

Joined == cam = "done" /\ gpc = "done" /\ frames = {} /\ UNCHANGED vars

Next == Camera \/ Detect \/ GroupManagerStep \/ Clock \/ Stop \/ Joined

\* The threads keep running and the clock advances.  The stage may fail again
\* and again, so BeginGroup and NextFace are not fair on their own, and the
\* operator need not stop the task.
Fairness ==
    /\ WF_vars(Camera)
    /\ WF_vars(Detect)
    /\ WF_vars(GroupManagerStep)
    /\ \A g \in Groups : WF_vars(Age(g) /\ UNCHANGED camVars)

Spec == Init /\ [][Next]_vars
FairSpec == Spec /\ Fairness

-----------------------------------------------------------------------------
(* Properties.                                                             *)

Capturing(g) == gid = g /\ cam \in {"shoot", "taken", "advance"}
InFlight(g)  == \E f \in Faces : <<g, f>> \in frames \cup results
Finishing(g) == current.id = g
Outstanding(g) == Capturing(g) \/ InFlight(g) \/ Open(g) \/ Finishing(g)

\* The camera is never left waiting for a token nobody is going to give: there
\* is always a group on its way to finalizeGroup, whatever failed at the stage
\* (camera_thread.cpp:335, 342, 408) or in the save (group_manager.cpp:109-123).
CameraNeverStarved ==
    cam = "waiting" /\ ~allow /\ ~camStop =>
        \E g \in Groups : InFlight(g) \/ Open(g) \/ Finishing(g)

\* Without a timeout the token is a back-pressure: at most one group is between
\* the camera and the database, so the unbounded queues hold FaceCount items.
BackPressure ==
    timedOut = {} =>
        \A g, h \in Groups : Outstanding(g) /\ Outstanding(h) => g = h

\* A group that did not time out is reported once, complete, when nothing of it
\* is left anywhere, and its record holds all its faces or (failed save) none.
UntimedGroupExact ==
    \A g \in Groups \ timedOut :
        /\ reports[g] <= 1
        /\ reports[g] = 1 => reported[g] = Faces /\ ~InFlight(g) /\ ~Open(g)
        /\ recorded[g] \in {{}, Faces}

\* What the comment at group_manager.hpp:18 says: the results of a group's faces
\* are aggregated into one inspection result.
OneResultPerGroup == \A g \in Groups : reports[g] <= 1

\* Every face that was captured is reported, alone with a timed-out group if
\* need be, unless the task is stopped first.
EveryFaceReported ==
    \A g \in Groups, f \in Faces :
        <<g, f>> \in frames ~> f \in reported[g] \/ camStop

\* The camera always gets its token back, unless the task is stopped.
TokenReturns == cam = "waiting" /\ ~allow ~> allow \/ camStop
=============================================================================
