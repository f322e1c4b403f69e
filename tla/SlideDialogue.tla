---------------------------- MODULE SlideDialogue ----------------------------
(***************************************************************************)
(* The group capture of Core/camera_thread.cpp as a dialogue with the      *)
(* stage: LOAD, GOTO_CAM, a picture, CAM_NEXT, a picture, ..., UNLOAD,     *)
(* through the serial client, with start(), stop() and join() called by    *)
(* the HTTP thread.  The token that allows a group, and single captures,   *)
(* are CameraThread's; here the next group may begin at any time.          *)
(*                                                                         *)
(* The controller is external: docs/serial_manual.md and the tokens the    *)
(* code waits for say what it answers.                                     *)
(***************************************************************************)
EXTENDS SlideSerial

CONSTANT FaceCount      \* kQuadImageCount

ASSUME FaceCountAssumption == FaceCount \in Nat \ {0}

VARIABLES
    http,       \* the HTTP thread
    stop,       \* mStopRequested
    cam,        \* the capture thread
    command,    \* the command it sends or awaits
    face,       \* face_index
    flow,       \* the controller: the flow it runs
    place,      \* where the stage is
    turned,     \* quarter turns accepted since the workpiece was loaded
    moving,     \* of which still to be done
    missed,     \* CAM_NEXT commands since then that turned nothing
    dialect     \* how it answers CAM_NEXT

camVars   == <<cam, command, face>>
stageVars == <<flow, place, turned, moving, missed, dialect>>
vars == <<serialVars, http, stop, camVars, stageVars>>

Flows    == {"LOAD", "GOTO_CAM", "UNLOAD"}
Commands == Flows \cup {"CAM_NEXT"}
Done     == [LOAD |-> "FLOW LOAD DONE", GOTO_CAM |-> "FLOW GOTO_CAM DONE",
             UNLOAD |-> "FLOW UNLOAD DONE"]
ErrorTexts == {"Parse Err", "Bad Cmd", "Flow Busy"}

\* The tokens each command waits for.
Tokens(c) == IF c \in Flows THEN {Done[c]} ELSE {"Cam Next", "POS_DONE"}

ASSUME TextsAssumption ==
    {Done[f] : f \in Flows} \cup ErrorTexts \cup {"Cam Next", "POS_DONE", "other"} \subseteq Texts

Faces == 0..FaceCount - 1

TypeOK ==
    /\ SerialTypeOK
    /\ http \in {"idle", "join", "close", "joinReader", "clear"} /\ stop \in BOOLEAN
    /\ cam \in {"none", "top", "send", "wait", "snap", "push", "exit"}
    /\ command \in Commands /\ face \in Faces
    /\ flow \in Flows \cup {"none"}
    /\ place \in {"away", "loaded", "camera"}
    /\ turned \in Faces /\ moving \in 0..turned /\ missed \in Faces
    /\ dialect \in {"at end", "at once"}

Init ==
    /\ SerialInit
    /\ http = "idle" /\ stop = FALSE
    /\ cam = "none" /\ command = "LOAD" /\ face = 0
    /\ flow = "none" /\ place = "away" /\ turned = 0 /\ moving = 0 /\ missed = 0
    /\ dialect \in {"at end", "at once"}

-----------------------------------------------------------------------------
(* start, stop and join.                                                   *)

\* A port that cannot be opened is logged, and the capture starts without it.
Start ==
    /\ http = "idle" /\ cam = "none"
    /\ stop' = FALSE /\ cam' = "top"
    /\ Open
    /\ UNCHANGED <<http, command, face, stageVars>>

Stop ==
    /\ http = "idle" /\ cam # "none"
    /\ http' = "join" /\ stop' = TRUE
    /\ UNCHANGED <<serialVars, camVars, stageVars>>

JoinCamera ==
    /\ http = "join" /\ cam = "exit"
    /\ http' = "close" /\ cam' = "none"
    /\ UNCHANGED <<serialVars, stop, command, face, stageVars>>

\* closeSlideSerial, in its three steps.
CloseSlide ==
    /\ \/ http = "close" /\ http' = "joinReader" /\ CloseStops
       \/ http = "joinReader" /\ http' = "clear" /\ CloseJoins
       \/ http = "clear" /\ http' = "idle" /\ CloseClears
    /\ UNCHANGED <<stop, camVars, stageVars>>

Join == JoinCamera \/ CloseSlide

-----------------------------------------------------------------------------
(* The controller and the stage: external.                                 *)

\* A reply arrives or is lost.
Reply(text) ==
    /\ \E symbols \in {<<>>, <<text, EndOfLine>>} : Receive(symbols)
    /\ UNCHANGED <<handle, mRunning, reader, buffer, lines>>

Refuse(text) == Reply(text) /\ UNCHANGED stageVars

\* A flow runs alone; it overrides a turn that is not finished.
BeginFlow(c) ==
    /\ flow' = c /\ place' = "away" /\ moving' = 0 /\ turned' = 0 /\ missed' = 0
    /\ UNCHANGED <<serialVars, dialect>>

Turn ==
    /\ turned' = turned + 1 /\ moving' = moving + 1
    /\ IF dialect = "at once" THEN Reply("Cam Next") ELSE UNCHANGED serialVars
    /\ UNCHANGED <<flow, place, missed, dialect>>

Miss(c) ==
    /\ missed' = IF c = "CAM_NEXT" THEN missed + 1 ELSE missed
    /\ UNCHANGED <<flow, place, turned, moving, dialect>>

\* A command arrives, arrives garbled, or is lost; it takes no time compared with a
\* flow or a turn.
Controlled(c) ==
    \/ c \in Flows /\ flow # "none" /\ Refuse("Flow Busy")
    \/ c \in Flows /\ flow = "none" /\ BeginFlow(c)
    \/ c = "CAM_NEXT" /\ Turn
    \/ Miss(c) /\ Reply("Parse Err")
    \/ Miss(c) /\ UNCHANGED serialVars

-----------------------------------------------------------------------------
(* The capture thread.                                                     *)

\* The wait for a token ends with the stop flag too.
LeaveLoop ==
    /\ cam = "top" /\ stop
    /\ cam' = "exit"
    /\ UNCHANGED <<serialVars, http, stop, command, face, stageVars>>

BeginGroupUndrained ==  \* mutant: old lines stay
    /\ cam = "top" /\ ~stop /\ wire = <<>>
    /\ IF handle
       THEN cam' = "send" /\ command' = "LOAD" /\ UNCHANGED face
       ELSE cam' = "snap" /\ face' = 0 /\ UNCHANGED command
    /\ UNCHANGED <<serialVars, http, stop, stageVars>>

\* Old lines are drained once, before LOAD.  The loop has waited 100 ms for single
\* captures, and ReadFile returns 50 ms after the last byte: what came before is read.
BeginGroup ==
    /\ cam = "top" /\ ~stop /\ wire = <<>>
    /\ IF handle
       THEN cam' = "send" /\ command' = "LOAD" /\ Drain /\ UNCHANGED face
       ELSE cam' = "snap" /\ face' = 0 /\ UNCHANGED <<serialVars, command>>
    /\ UNCHANGED <<http, stop, stageVars>>

\* A failed LOAD or GOTO_CAM begins again, a failed CAM_NEXT leaves the group, a
\* failed UNLOAD is the end of the group as well.
Failed == cam' = "top" /\ UNCHANGED face

Answered ==
    \/ command = "LOAD" /\ cam' = "send" /\ command' = "GOTO_CAM" /\ UNCHANGED face
    \/ command = "GOTO_CAM" /\ cam' = "snap" /\ face' = 0 /\ UNCHANGED command
    \/ command = "CAM_NEXT" /\ cam' = "snap" /\ face' = face + 1 /\ UNCHANGED command
    \/ command = "UNLOAD" /\ cam' = "top" /\ UNCHANGED <<command, face>>

\* sendSlideCommand: WriteLine may fail, and even then the command may have gone
\* out.
SendCommand ==
    /\ cam = "send"
    /\ Controlled(command)
    /\ \/ cam' = "wait" /\ UNCHANGED face
       \/ Failed
    /\ UNCHANGED <<http, stop, command>>

Has(line, texts) == \E k \in DOMAIN line : line[k] \in texts

\* Line i is the first of the drained lines that says something.
Tells(i, tokens) ==
    /\ Has(lines[i], ErrorTexts \cup tokens)
    /\ \A j \in 1..i - 1 : ~Has(lines[j], ErrorTexts \cup tokens)

\* A turn of the loop of waitSlideResponseAny that takes lines: all of them, those
\* after the telling one too.  The stop flag may be set after its test.
TakeLines ==
    /\ cam = "wait" /\ lines # <<>>
    /\ Drain
    /\ \/ /\ \A i \in DOMAIN lines : ~Has(lines[i], ErrorTexts \cup Tokens(command))
          /\ ~stop /\ UNCHANGED camVars
       \/ \E i \in DOMAIN lines :
             /\ Tells(i, Tokens(command))
             /\ IF Has(lines[i], ErrorTexts) THEN Failed /\ UNCHANGED command ELSE Answered
    /\ UNCHANGED <<http, stop, stageVars>>

\* The stop flag, or the deadline, which is far longer than a line takes.
GiveUp ==
    /\ cam = "wait"
    /\ stop \/ (wire = <<>> /\ lines = <<>>)
    /\ Failed
    /\ UNCHANGED <<serialVars, http, stop, command, stageVars>>

SnapStoppedAtFirst ==   \* mutant: the flag is read only before the first face
    /\ cam = "snap" /\ stop /\ face = 0
    /\ cam' = "top"
    /\ UNCHANGED <<serialVars, http, stop, command, face, stageVars>>

\* The stop flag is read before each Snap.
SnapStopped ==
    /\ cam = "snap" /\ stop
    /\ cam' = "top"
    /\ UNCHANGED <<serialVars, http, stop, command, face, stageVars>>

\* A Snap that fails, or whose channels are incomplete, is repeated.
SnapTaken ==
    /\ cam = "snap" /\ ~stop
    /\ cam' = "push"
    /\ UNCHANGED <<serialVars, http, stop, command, face, stageVars>>

\* pushRaw, which fails once the queue is stopped, and what follows the face.
Push ==
    /\ cam = "push"
    /\ \/ cam' = "top" /\ UNCHANGED <<command, face>>
       \/ /\ handle /\ cam' = "send" /\ UNCHANGED face
          /\ command' = IF face < FaceCount - 1 THEN "CAM_NEXT" ELSE "UNLOAD"
       \/ /\ ~handle /\ UNCHANGED command
          /\ face < FaceCount - 1 /\ cam' = "snap" /\ face' = face + 1
    /\ UNCHANGED <<serialVars, http, stop, stageVars>>

Capture == \/ LeaveLoop \/ BeginGroup \/ SendCommand \/ TakeLines \/ GiveUp
           \/ SnapStopped \/ Push

-----------------------------------------------------------------------------
(* What the controller reports later, and other texts: external.           *)

EndFlow ==
    /\ flow # "none" /\ flow' = "none"
    /\ place' = CASE flow = "LOAD" -> "loaded" [] flow = "GOTO_CAM" -> "camera"
                  [] flow = "UNLOAD" -> "away"
    /\ Reply(Done[flow])
    /\ UNCHANGED <<http, stop, camVars, turned, moving, missed, dialect>>

EndTurn ==
    /\ moving > 0 /\ moving' = moving - 1
    /\ \/ Reply("POS_DONE")
       \/ dialect = "at end" /\ Reply("Cam Next")
    /\ UNCHANGED <<http, stop, camVars, flow, place, turned, missed, dialect>>

\* A switch, a start message, noise, or an axis event the code does not wait for.  The
\* POS_DONE of a turn is EndTurn; that of a flow comes before the flow's DONE.
OtherText ==
    /\ wire = <<>> /\ lines = <<>>
    /\ \E symbols \in {<<"other">>, <<"other", EndOfLine>>} : Receive(symbols)
    /\ UNCHANGED <<handle, mRunning, reader, buffer, lines, http, stop, camVars,
                   stageVars>>

Controller == EndFlow \/ EndTurn \/ OtherText

ReaderThread == Reader /\ UNCHANGED <<http, stop, camVars, stageVars>>

Next == Start \/ Stop \/ Join \/ Capture \/ SnapTaken \/ ReaderThread \/ Controller

Spec == Init /\ [][Next]_vars

\* The threads run and ReadFile returns.  A Snap need not succeed, the controller
\* need not answer, and nobody has to stop the camera.
Fairness == WF_vars(Join) /\ WF_vars(Capture) /\ WF_vars(ReaderThread)
FairSpec == Spec /\ Fairness

-----------------------------------------------------------------------------
\* With the stage, every picture of a group is taken at the camera, between flows,
\* whatever was lost, late or refused before (camera_thread.cpp:329-346, 403-409).
\* Whichever way the controller answers CAM_NEXT, the picture of face i is taken i
\* turns on, but for the commands of this group that never became a turn.  If it
\* answers when the turn is over, there is no such command and the stage is at rest.
\* If it answers at once and reports the end of the turn besides, that report can
\* answer a later CAM_NEXT that was lost, and the stage may still turn.
PictureOfItsFace ==
    cam = "snap" /\ handle =>
        /\ flow = "none" /\ place = "camera" /\ turned + missed = face
        /\ dialect = "at end" => missed = 0 /\ moving = 0

\* The reader lives only while the port is open, and when join() has returned
\* nothing of the session is left for the next (SlideSerialClient::Close).
SessionIsClosed ==
    /\ reader \in {"test", "read"} => handle
    /\ http = "idle" /\ cam = "none" =>
          ~handle /\ reader = "none" /\ buffer = <<>> /\ lines = <<>>

\* stop() and join() return, though the controller may never answer and a Snap may
\* fail for ever (camera_thread.cpp:144, 352, 356).
StopEnds == http = "join" ~> http = "idle"
=============================================================================
