------------------------- MODULE CameraThreadProofs -------------------------
(***************************************************************************)
(* What CameraThread promises for every FaceCount: its types, that a token *)
(* given to the camera is never slept on, that a camera which does sleep   *)
(* is waiting for a group on its way, that a pending single capture is     *)
(* never forgotten, and where alone a stop can be lost.                    *)
(***************************************************************************)
EXTENDS CameraThread, TLAPS

\* Who may start what: between requests a camera is running exactly when a task
\* owns it, a stop that reached the GroupManager has joined the camera, only a
\* task captures groups, and its queues are stopped after its camera.
Ownership ==
    /\ hpc = "idle" => (grouped <=> running)
    /\ hpc = "idle" /\ ~grouped => cpc = "exit"
    /\ hpc \in {"ask", "get"} => running
    /\ hpc = "joinGroup" => cpc = "exit" /\ ~running
    /\ cpc \in {"token", "test", "block", "asleep", "stage", "faces", "shot"} => grouped
    /\ hpc \in {"fail", "notify", "stopGroup", "stopQueue", "joinCamera"} => stopReq
    /\ grouped /\ qStop => stopReq

\* Holding the mutex after a false predicate, the camera has no token; asleep it
\* has one only with its notification to come.
TokenSeen ==
    /\ cpc = "block" => ~allow
    /\ NoSleepOnToken

\* The places between two groups: there, unless it was stopped on the way, the
\* camera has its token or a group has still to give it.
BetweenGroups == cpc \in {"top", "single", "snap", "token", "test"} /\ ~stopReq

TokenAccounted ==
    (BetweenGroups \/ cpc \in {"block", "asleep"}) /\ ~allow /\ gpc # "done" => owed

Inv == TypeOK /\ Ownership /\ TokenSeen /\ TokenAccounted

USE FaceCountAssumption DEF FaceCountAssumption

-----------------------------------------------------------------------------
\* The invariant holds before the first request.
LEMMA InvInit == Init => Inv
<1> SUFFICES ASSUME Init PROVE Inv
    OBVIOUS
<1>1. TypeOK
    <2>1. face \in 0..FaceCount-1 BY DEF Init
    <2> QED BY <2>1, Zenon DEF Init, TypeOK, CameraStates, HttpStates, GroupStates, Answers
<1>2. Ownership BY DEF Init, Ownership
<1>3. TokenSeen BY DEF Init, TokenSeen, NoSleepOnToken
<1>4. TokenAccounted BY DEF Init, TokenAccounted, BetweenGroups
<1> QED BY <1>1, <1>2, <1>3, <1>4 DEF Inv

\* No step of the capture thread breaks it.
LEMMA InvCapture == Inv /\ (Capture \/ SnapFace \/ SpuriousWake) => Inv'
<1> SUFFICES ASSUME Inv, Capture \/ SnapFace \/ SpuriousWake PROVE Inv'
    OBVIOUS
<1> USE DEF Inv, TypeOK, Ownership, TokenSeen, NoSleepOnToken, TokenAccounted,
            BetweenGroups, CameraStates, HttpStates, GroupStates, Answers, Camera
<1>1. CASE Top BY <1>1 DEF Top
<1>2. CASE SingleWait BY <1>2 DEF SingleWait
<1>3. CASE SingleSnap
    <2>1. TypeOK' BY <1>3 DEF SingleSnap
    <2>2. Ownership' BY <1>3 DEF SingleSnap
    <2>3. TokenSeen' BY <1>3 DEF SingleSnap
    <2>4. TokenAccounted' BY <1>3 DEF SingleSnap
    <2> QED BY <2>1, <2>2, <2>3, <2>4
<1>4. CASE LockAllow BY <1>4 DEF LockAllow
<1>5. CASE TestToken
    <2>1. TypeOK'
        <3>1. CASE stopReq BY <1>5, <3>1 DEF TestToken
        <3>2. CASE ~stopReq /\ allow BY <1>5, <3>2 DEF TestToken
        <3>3. CASE ~stopReq /\ ~allow BY <1>5, <3>3 DEF TestToken
        <3> QED BY <3>1, <3>2, <3>3
    <2>2. Ownership' BY <1>5 DEF TestToken
    <2>3. TokenSeen' BY <1>5 DEF TestToken
    <2>4. TokenAccounted' BY <1>5 DEF TestToken
    <2> QED BY <2>1, <2>2, <2>3, <2>4
<1>6. CASE Block BY <1>6 DEF Block
<1>7. CASE StageReady BY <1>7 DEF StageReady
<1>8. CASE StageFails BY <1>8 DEF StageFails
<1>9. CASE SnapFace BY <1>9 DEF SnapFace
<1>10. CASE LeaveFaces BY <1>10 DEF LeaveFaces
<1>11. CASE PushFace BY <1>11 DEF PushFace, LastFace
<1>12. CASE PushRefused
    <2>1. TypeOK' BY <1>12 DEF PushRefused
    <2>2. Ownership' BY <1>12 DEF PushRefused
    <2>3. TokenSeen' BY <1>12 DEF PushRefused
    <2>4. TokenAccounted'
        <3>1. stopReq BY <1>12 DEF PushRefused
        <3> QED BY <1>12, <3>1 DEF PushRefused
    <2> QED BY <2>1, <2>2, <2>3, <2>4
<1>13. CASE SpuriousWake BY <1>13 DEF SpuriousWake
<1> QED BY <1>1, <1>2, <1>3, <1>4, <1>5, <1>6, <1>7, <1>8, <1>9, <1>10, <1>11,
           <1>12, <1>13 DEF Capture

\* Nor does the GroupManager: it gives a token only while the camera is not
\* between its test and its sleep, and a notification leaves nobody asleep.
LEMMA InvGroupThread == Inv /\ GroupThread => Inv'
<1> SUFFICES ASSUME Inv, GroupThread PROVE Inv'
    OBVIOUS
<1> USE DEF Inv, TypeOK, Ownership, TokenSeen, NoSleepOnToken, TokenAccounted,
            BetweenGroups, CameraStates, HttpStates, GroupStates, Answers
<1>1. CASE GiveToken
    <2>1. TypeOK'
        <3>1. allow' \in BOOLEAN /\ owed' \in BOOLEAN BY <1>1 DEF GiveToken
        <3> QED BY <1>1, <3>1 DEF GiveToken
    <2>2. Ownership' BY <1>1 DEF GiveToken, AllowMutexFree
    <2>3. TokenSeen' BY <1>1 DEF GiveToken, AllowMutexFree
    <2>4. TokenAccounted' BY <1>1 DEF GiveToken, AllowMutexFree
    <2> QED BY <2>1, <2>2, <2>3, <2>4
<1>2. CASE NotifyToken BY <1>2 DEF NotifyToken, WakeCamera
<1>3. CASE GroupExit BY <1>3 DEF GroupExit
<1> QED BY <1>1, <1>2, <1>3 DEF GroupThread

\* Nor does the HTTP thread: it starts a camera only when none is running.
LEMMA InvHttp == Inv /\ (Proceed \/ Request) => Inv'
<1> SUFFICES ASSUME Inv, Proceed \/ Request PROVE Inv'
    OBVIOUS
<1> USE DEF Inv, TypeOK, Ownership, TokenSeen, NoSleepOnToken, TokenAccounted,
            BetweenGroups, CameraStates, HttpStates, GroupStates, Answers, Http
<1>1. CASE AskSingle BY <1>1 DEF AskSingle
<1>2. CASE GetSingle BY <1>2 DEF GetSingle
<1>3. CASE StopFlag BY <1>3 DEF StopFlag
<1>4. CASE FailSingle
    <2>1. TypeOK' BY <1>4 DEF FailSingle
    <2>2. Ownership' BY <1>4 DEF FailSingle
    <2>3. TokenSeen' BY <1>4 DEF FailSingle
    <2>4. TokenAccounted' BY <1>4 DEF FailSingle
    <2> QED BY <2>1, <2>2, <2>3, <2>4
<1>5. CASE NotifyCamera BY <1>5 DEF NotifyCamera, WakeCamera
<1>6. CASE StopGroupManager BY <1>6 DEF StopGroupManager
<1>7. CASE StopQueue BY <1>7 DEF StopQueue
<1>8. CASE JoinCamera BY <1>8 DEF JoinCamera
<1>9. CASE JoinGroup BY <1>9 DEF JoinGroup
<1>10. CASE StartTask BY <1>10 DEF StartTask, StartCamera
<1>11. CASE StartTaskFails BY <1>11 DEF StartTaskFails
<1>12. CASE StopTask BY <1>12 DEF StopTask
<1>13. CASE BeginSingle
    <2>1. TypeOK' BY <1>13 DEF BeginSingle, StartCamera
    <2>2. Ownership' BY <1>13 DEF BeginSingle, StartCamera
    <2>3. TokenSeen' BY <1>13 DEF BeginSingle, StartCamera
    <2>4. TokenAccounted' BY <1>13 DEF BeginSingle, StartCamera
    <2> QED BY <2>1, <2>2, <2>3, <2>4
<1> QED BY <1>1, <1>2, <1>3, <1>4, <1>5, <1>6, <1>7, <1>8, <1>9, <1>10, <1>11,
           <1>12, <1>13 DEF Proceed, Request

\* Inv is an invariant of the specification.
LEMMA Invariance == Spec => []Inv
<1>1. Inv /\ [Next]_vars => Inv'
    <2> SUFFICES ASSUME Inv, [Next]_vars PROVE Inv'
        OBVIOUS
    <2>1. CASE Next BY <2>1, InvCapture, InvGroupThread, InvHttp DEF Next
    <2>2. CASE UNCHANGED vars
        BY <2>2 DEF vars, Inv, TypeOK, Ownership, TokenSeen, NoSleepOnToken,
                    TokenAccounted, BetweenGroups
    <2> QED BY <2>1, <2>2
<1> QED BY <1>1, InvInit, PTL DEF Spec

-----------------------------------------------------------------------------
\* Every variable keeps its type: camera_thread.hpp, group_manager.hpp.
THEOREM TypeCorrect == Spec => []TypeOK
<1>1. Inv => TypeOK BY DEF Inv
<1> QED BY <1>1, Invariance, PTL

\* A token is never slept on: the wait of camera_thread.cpp:320-327 cannot miss
\* the notification of allow_next_group.
THEOREM TokenNotMissed == Spec => []NoSleepOnToken
<1>1. Inv => NoSleepOnToken BY DEF Inv, TokenSeen
<1> QED BY <1>1, Invariance, PTL

\* A camera asleep is owed a token, also when the stage failed or a single
\* capture came in between; only a stop that lets the GroupManager go ends this.
THEOREM SleepAlwaysOwed == Spec => []SleepIsOwed
<1>1. Inv => SleepIsOwed
    BY DEF Inv, TokenSeen, TokenAccounted, NoSleepOnToken, SleepIsOwed, BetweenGroups
<1> QED BY <1>1, Invariance, PTL

-----------------------------------------------------------------------------
(* The single capture and the stop: what CaptureAnswered and               *)
(* StopEndsOutsideWindow rest on, before any fairness.                     *)

\* A pending capture and the HTTP thread that waits for it go together: the camera
\* it waits for has been asked, runs, and has not been told to stop, a Snap under
\* the mutex is for a request still pending, and an answer has somebody to read it
\* (camera_thread.cpp:74-88, 165-188, 304-314).
CaptureHeard ==
    /\ requested <=> hpc = "get" /\ promise = "none"
    /\ requested => ~stopReq /\ cpc # "exit"
    /\ cpc = "snap" => requested
    /\ promise # "none" => hpc = "get"

\* A camera of a request in progress has neither been stopped nor left its loop.
CameraAlive == hpc \in {"idle", "ask", "get"} /\ running => ~stopReq /\ cpc # "exit"

\* Between the false predicate of the token's wait and its end.
WaitWindow == cpc \in {"block", "asleep"}

\* Once the stop flag is set, a camera outside the window never enters it.
NoLateSleep == [][stopReq /\ ~WaitWindow => ~WaitWindow']_vars

CaptureInv == CaptureHeard /\ CameraAlive

\* CaptureHeard is kept by every step, given what Inv says of the camera's owner.
LEMMA CaptureStep == Inv /\ CaptureInv /\ [Next]_vars => CaptureInv'
<1> SUFFICES ASSUME Inv, CaptureInv, [Next]_vars PROVE CaptureInv'
    OBVIOUS
<1> USE DEF CaptureInv, CaptureHeard, CameraAlive
<1>1. CASE Capture \/ SnapFace \/ SpuriousWake
    <2> USE DEF Camera
    <2>1. CASE Top BY <2>1 DEF Top
    <2>2. CASE SingleWait BY <2>2 DEF SingleWait
    <2>3. CASE SingleSnap BY <2>3 DEF SingleSnap
    <2>4. CASE LockAllow BY <2>4 DEF LockAllow
    <2>5. CASE TestToken BY <2>5 DEF TestToken
    <2>6. CASE Block BY <2>6 DEF Block
    <2>7. CASE StageReady BY <2>7 DEF StageReady
    <2>8. CASE StageFails BY <2>8 DEF StageFails
    <2>9. CASE SnapFace BY <2>9 DEF SnapFace
    <2>10. CASE LeaveFaces BY <2>10 DEF LeaveFaces
    <2>11. CASE PushFace BY <2>11 DEF PushFace
    <2>12. CASE PushRefused BY <2>12 DEF PushRefused
    <2>13. CASE SpuriousWake BY <2>13 DEF SpuriousWake
    <2> QED BY <1>1, <2>1, <2>2, <2>3, <2>4, <2>5, <2>6, <2>7, <2>8, <2>9, <2>10,
               <2>11, <2>12, <2>13 DEF Capture
<1>2. CASE GroupThread
    BY <1>2 DEF GroupThread, GiveToken, NotifyToken, GroupExit, WakeCamera
<1>3. CASE Proceed
    <2> USE DEF Http
    <2>1. CASE AskSingle BY <2>1 DEF AskSingle, SingleMutexFree
    <2>2. CASE GetSingle BY <2>2 DEF GetSingle
    <2>3. CASE StopFlag BY <2>3 DEF StopFlag
    <2>4. CASE FailSingle BY <2>4 DEF FailSingle, SingleMutexFree
    <2>5. CASE NotifyCamera BY <2>5 DEF NotifyCamera, WakeCamera
    <2>6. CASE StopGroupManager BY <2>6 DEF StopGroupManager
    <2>7. CASE StopQueue BY <2>7 DEF StopQueue
    <2>8. CASE JoinCamera BY <2>8 DEF JoinCamera
    <2>9. CASE JoinGroup BY <2>9 DEF JoinGroup, Inv, Ownership
    <2> QED BY <1>3, <2>1, <2>2, <2>3, <2>4, <2>5, <2>6, <2>7, <2>8, <2>9 DEF Proceed
<1>4. CASE Request
    <2> USE DEF Http
    <2>1. CASE StartTask BY <2>1 DEF StartTask, StartCamera
    <2>2. CASE StartTaskFails BY <2>2 DEF StartTaskFails
    <2>3. CASE StopTask BY <2>3 DEF StopTask
    <2>4. CASE BeginSingle BY <2>4 DEF BeginSingle, StartCamera
    <2> QED BY <1>4, <2>1, <2>2, <2>3, <2>4 DEF Request
<1>5. CASE UNCHANGED vars BY <1>5 DEF vars
<1> QED BY <1>1, <1>2, <1>3, <1>4, <1>5 DEF Next

\* The future.get() of Server.cpp:285, which has no timeout, is never left behind:
\* whatever the camera was doing, in a group or waiting for a token, and whatever
\* failed, the request it waits for is pending at a camera that runs on.
THEOREM CaptureNeverForgotten == Spec => []CaptureHeard
<1>1. Init => CaptureInv BY DEF Init, CaptureInv, CaptureHeard, CameraAlive
<1>2. CaptureInv => CaptureHeard BY DEF CaptureInv
<1> QED BY <1>1, <1>2, CaptureStep, Invariance, PTL DEF Spec

\* The flag alone, set without mAllowMutex, keeps the camera out of the untimed
\* wait it is not yet in: the window between the predicate and the sleep is the
\* only one a stop can be lost in (camera_thread.cpp:74-75, 320-327).
THEOREM StopLostOnlyInWindow == Spec => NoLateSleep
<1>1. ASSUME Inv, [Next]_vars PROVE [stopReq /\ ~WaitWindow => ~WaitWindow']_vars
    <2> SUFFICES ASSUME stopReq, ~WaitWindow, Next PROVE ~WaitWindow'
        BY <1>1
    <2> USE DEF WaitWindow
    <2>1. CASE Capture \/ SnapFace \/ SpuriousWake
        BY <2>1 DEF Capture, SpuriousWake, Camera, Top, SingleWait, SingleSnap,
                    LockAllow, TestToken, Block, StageReady, StageFails, SnapFace,
                    LeaveFaces, PushFace, PushRefused
    <2>2. CASE GroupThread
        BY <2>2 DEF GroupThread, GiveToken, NotifyToken, GroupExit, WakeCamera
    <2>3. CASE Proceed
        BY <2>3 DEF Proceed, AskSingle, GetSingle, StopFlag, FailSingle, NotifyCamera,
                    StopGroupManager, StopQueue, JoinCamera, JoinGroup, WakeCamera
    <2>4. CASE Request
        BY <2>4 DEF Request, StartTask, StartTaskFails, StopTask, BeginSingle,
                    StartCamera
    <2> QED BY <2>1, <2>2, <2>3, <2>4 DEF Next
<1> QED BY <1>1, Invariance, PTL DEF Spec, NoLateSleep
=============================================================================
