------------------------- MODULE SlideDialogueProofs -------------------------
(***************************************************************************)
(* Proofs about SlideDialogue, for any texts, line length, wire and number *)
(* of faces.                                                               *)
(***************************************************************************)
EXTENDS SlideDialogue, SlideSerialProofs

\* The port is open only between Start and the second step of Close; the reader runs
\* only on an open port; and while http is closing, no capture thread is left that
\* could open it.
SessionInv ==
    /\ reader \in {"test", "read"} => handle
    /\ http \in {"close", "joinReader", "clear"} => cam = "none"
    /\ http = "join" => cam # "none"
    /\ http = "clear" => ~handle /\ reader = "none"
    /\ http = "idle" /\ cam = "none" =>
          ~handle /\ reader = "none" /\ buffer = <<>> /\ lines = <<>>

\* What the client's own steps leave alone.
LEMMA ReaderOnOpenPort ==
  ASSUME Reader
  PROVE  reader \in {"test", "read"} /\ UNCHANGED <<handle, mRunning>>
         /\ (reader' \in {"test", "read"} => handle \/ reader = "read")
  BY DEF Reader, ReaderTests, ReadsNothing, ReadsSymbol

\* A controller's step only adds to the wire.
LEMMA RepliesOnWire ==
  ASSUME NEW text, Reply(text)
  PROVE  UNCHANGED <<handle, mRunning, reader, buffer, lines>>
  BY DEF Reply

LEMMA ControlledOnWire ==
  ASSUME NEW c, Controlled(c)
  PROVE  UNCHANGED <<handle, mRunning, reader, buffer, lines>>
  BY RepliesOnWire DEF Controlled, Refuse, BeginFlow, Turn, Miss, serialVars

\* A step of the capture thread that neither starts nor ends it.
LEMMA SessionInside ==
  ASSUME SessionInv, UNCHANGED <<handle, reader, http>>, cam \notin {"none"}, cam' # "none"
  PROVE  SessionInv'
  BY DEF SessionInv

LEMMA SessionStep == SessionInv /\ [Next]_vars => SessionInv'
<1> SUFFICES ASSUME SessionInv, [Next]_vars PROVE SessionInv'
    OBVIOUS
<1>1. CASE Start
  BY <1>1 DEF Start, Open, SessionInv
<1>2. CASE Stop
  BY <1>2 DEF Stop, serialVars, camVars, SessionInv
<1>3. CASE Join
  <2>1. CASE JoinCamera
    BY <2>1 DEF JoinCamera, serialVars, SessionInv
  <2>2. CASE http = "close" /\ http' = "joinReader" /\ CloseStops /\ UNCHANGED camVars
    BY <2>2 DEF CloseStops, camVars, SessionInv
  <2>3. CASE http = "joinReader" /\ http' = "clear" /\ CloseJoins /\ UNCHANGED camVars
    BY <2>3 DEF CloseJoins, camVars, SessionInv
  <2>4. CASE http = "clear" /\ http' = "idle" /\ CloseClears /\ UNCHANGED camVars
    BY <2>4 DEF CloseClears, camVars, SessionInv
  <2>5. QED BY <1>3, <2>1, <2>2, <2>3, <2>4 DEF Join, CloseSlide
<1>4. CASE Capture
  <2>1. CASE LeaveLoop
    BY <2>1, SessionInside DEF LeaveLoop, serialVars
  <2>2. CASE BeginGroup
    BY <2>2, SessionInside DEF BeginGroup, Drain, serialVars
  <2>3. CASE SendCommand
    BY <2>3, SessionInside, ControlledOnWire DEF SendCommand, Failed
  <2>4. CASE TakeLines
    BY <2>4, SessionInside DEF TakeLines, Drain, Failed, Answered, camVars
  <2>5. CASE GiveUp
    BY <2>5, SessionInside DEF GiveUp, Failed, serialVars
  <2>6. CASE SnapStopped
    BY <2>6, SessionInside DEF SnapStopped, serialVars
  <2>7. CASE Push
    BY <2>7, SessionInside DEF Push, serialVars
  <2>8. QED BY <1>4, <2>1, <2>2, <2>3, <2>4, <2>5, <2>6, <2>7 DEF Capture
<1>5. CASE SnapTaken
  BY <1>5, SessionInside DEF SnapTaken, serialVars
<1>6. CASE ReaderThread
  BY <1>6, ReaderOnOpenPort DEF ReaderThread, camVars, SessionInv
<1>7. CASE Controller
  <2>1. UNCHANGED <<handle, reader, buffer, lines, http, cam>>
    BY <1>7, RepliesOnWire DEF Controller, EndFlow, EndTurn, OtherText, camVars
  <2>2. QED BY <2>1 DEF SessionInv
<1>8. CASE UNCHANGED vars
  BY <1>8 DEF vars, serialVars, camVars, SessionInv
<1>9. QED BY <1>1, <1>2, <1>3, <1>4, <1>5, <1>6, <1>7, <1>8 DEF Next

\* The reader lives only while the port is open, and a capture that has been joined
\* leaves nothing for the next session.
THEOREM SlideSessionIsClosed == Spec => []SessionIsClosed
<1>1. Init => SessionInv
  BY DEF Init, SerialInit, SessionInv
<1>2. SessionInv => SessionIsClosed
  BY DEF SessionInv, SessionIsClosed
<1>3. QED BY <1>1, <1>2, SessionStep, PTL DEF Spec

-----------------------------------------------------------------------------
(* The picture of a face.  What is pending is named by the command it      *)
(* would answer.                                                           *)

LoadDone == {Done["LOAD"]}
GotoDone == {Done["GOTO_CAM"]}
TurnDone == Tokens("CAM_NEXT")

LoadSeen == Pending(LoadDone)
GotoSeen == Pending(GotoDone)
TurnSeen == Pending(TurnDone)

LoadFresh == Fresh(LoadDone, GotoDone \cup TurnDone)
TurnFresh == Fresh(TurnDone, TurnDone)

Sending(c) == cam \in {"send", "wait"} /\ command = c
Snapping   == cam \in {"snap", "push"} /\ handle

AllEnd == Ends(LoadDone) /\ Ends(GotoDone) /\ Ends(TurnDone)

\* The texts of the dialogue end their lines, except while Close throws away what
\* was not read.
EndsInv == /\ http # "clear" => AllEnd
           /\ http = "clear" => wire = <<>>

\* A flow begins without turns and is over before one is asked for; no turn is asked
\* for after the last face.
Counts ==
    /\ face \in Faces /\ turned \in Faces /\ moving \in 0..turned /\ missed \in Faces
    /\ flow # "none" => turned = 0 /\ missed = 0
    /\ cam \in {"send", "wait"} => handle
    /\ Sending("CAM_NEXT") => face < FaceCount - 1

\* What is left of an older group ends before LOAD does, be it that group's LOAD.
Loading ==
    Sending("LOAD") =>
        /\ LoadFresh
        /\ LoadSeen => turned = 0 /\ missed = 0 /\ flow \in {"none", "LOAD"}

\* GOTO_CAM is answered for this group, and nothing of an older turn is left.
Going ==
    Sending("GOTO_CAM") =>
        /\ ~TurnSeen /\ turned = 0 /\ missed = 0 /\ flow # "UNLOAD"
        /\ GotoSeen => flow = "none" /\ place = "camera"
        /\ cam = "send" => flow # "GOTO_CAM" /\ ~GotoSeen

\* From then on the stage stays at the camera, and every face stands for a CAM_NEXT of
\* this group that turned it or was missed.
AtCamera ==
    Snapping \/ Sending("CAM_NEXT") =>
        /\ flow = "none" /\ place = "camera"
        /\ turned + missed = IF cam = "wait" THEN face + 1 ELSE face

\* With one reply at the end of a turn, there is one turn or reply under way while
\* CAM_NEXT is awaited, and none otherwise.
InStep ==
    dialect = "at end" =>
        /\ Snapping \/ (Sending("CAM_NEXT") /\ cam = "send") =>
              turned = face /\ moving = 0 /\ ~TurnSeen
        /\ Sending("CAM_NEXT") /\ cam = "wait" =>
              /\ TurnFresh /\ moving <= 1
              /\ TurnSeen => turned = face + 1 /\ moving = 0
              /\ moving = 1 => turned = face + 1

PictureInv == Counts /\ Loading /\ Going /\ AtCamera /\ InStep

-----------------------------------------------------------------------------
\* The types that need no count of turns.
DialogueTypes ==
    /\ StreamOK
    /\ handle \in BOOLEAN /\ stop \in BOOLEAN
    /\ http \in {"idle", "join", "close", "joinReader", "clear"}
    /\ cam \in {"none", "top", "send", "wait", "snap", "push", "exit"}
    /\ command \in Commands
    /\ flow \in Flows \cup {"none"}
    /\ place \in {"away", "loaded", "camera"}
    /\ dialect \in {"at end", "at once"}

LEMMA RepliesAreTexts ==
  /\ \A f \in Flows : Done[f] \in Texts
  /\ {"Cam Next", "POS_DONE", "Flow Busy", "Parse Err", "other"} \subseteq Texts
  /\ EndOfLine \notin LoadDone /\ EndOfLine \notin GotoDone /\ EndOfLine \notin TurnDone
  BY TextsAssumption, SerialAssumption
     DEF Flows, ErrorTexts, LoadDone, GotoDone, TurnDone, Tokens

LEMMA StreamReply ==
  ASSUME StreamOK, NEW text \in Texts, Reply(text)
  PROVE  StreamOK'
  BY StreamReceive DEF Reply

LEMMA StreamControlled ==
  ASSUME StreamOK, NEW c, Controlled(c)
  PROVE  StreamOK'
<1>1. CASE UNCHANGED serialVars
  BY <1>1 DEF StreamOK, serialVars
<1>2. CASE \E text \in {"Cam Next", "Flow Busy", "Parse Err"} : Reply(text)
  BY <1>2, StreamReply, RepliesAreTexts
<1>3. QED BY <1>1, <1>2 DEF Controlled, Refuse, BeginFlow, Turn, Miss

LEMMA EmptyStream ==
  <<>> \in Seq(Texts \cup {EndOfLine}) /\ <<>> \in Seq(Texts) /\ <<>> \in Seq(Seq(Texts))
  OBVIOUS

LEMMA TypesInit == Init => DialogueTypes
<1>1. Init => StreamOK
  BY EmptyStream DEF Init, SerialInit, StreamOK
<1>2. QED BY <1>1 DEF Init, SerialInit, DialogueTypes, Commands, Flows

LEMMA StreamTaken ==
  ASSUME StreamOK, Drain \/ CloseStops \/ CloseJoins \/ CloseClears \/ UNCHANGED serialVars
  PROVE  StreamOK'
<1>1. /\ wire' \in {wire, <<>>} /\ buffer' \in {buffer, <<>>} /\ lines' \in {lines, <<>>}
  BY DEF Drain, CloseStops, CloseJoins, CloseClears, serialVars
<1>2. QED BY <1>1, EmptyStream DEF StreamOK

LEMMA TypesStep == DialogueTypes /\ [Next]_vars => DialogueTypes'
<1> SUFFICES ASSUME DialogueTypes, [Next]_vars PROVE DialogueTypes'
    OBVIOUS
<1> USE DEF DialogueTypes
<1>1. CASE Start
  BY <1>1 DEF Start, Open, StreamOK, stageVars
<1>2. CASE Stop
  BY <1>2 DEF Stop, serialVars, camVars, stageVars, StreamOK
<1>3. CASE Join
  <2>1. StreamOK'
    BY <1>3, StreamTaken DEF Join, JoinCamera, CloseSlide
  <2>2. QED BY <1>3, <2>1 DEF Join, JoinCamera, CloseSlide, CloseStops, CloseJoins, CloseClears,
                              serialVars, camVars, stageVars
<1>4. CASE Capture \/ SnapTaken
  <2>1. StreamOK' /\ handle' \in BOOLEAN
    <3>1. CASE SendCommand
      BY <3>1, StreamControlled, ControlledOnWire DEF SendCommand
    <3>2. CASE ~SendCommand
      <4>1. Drain \/ UNCHANGED serialVars
        BY <1>4, <3>2 DEF Capture, LeaveLoop, BeginGroup, TakeLines, GiveUp, SnapStopped,
                          SnapTaken, Push
      <4>2. handle' = handle
        BY <4>1 DEF Drain, serialVars
      <4>3. QED BY <4>1, <4>2, StreamTaken
    <3>3. QED BY <3>1, <3>2
  <2>2. /\ stop' = stop /\ http' = http
        /\ cam' \in {"top", "send", "wait", "snap", "push", "exit"} /\ command' \in Commands
    BY <1>4 DEF Capture, LeaveLoop, BeginGroup, SendCommand, TakeLines, GiveUp, SnapStopped,
                SnapTaken, Push, Failed, Answered, Commands, Flows, camVars
  <2>3. flow' \in Flows \cup {"none"} /\ place' \in {"away", "loaded", "camera"}
        /\ dialect' = dialect
    BY <1>4 DEF Capture, LeaveLoop, BeginGroup, SendCommand, TakeLines, GiveUp, SnapStopped,
                SnapTaken, Push, Controlled, Refuse, BeginFlow, Turn, Miss, stageVars
  <2>4. QED BY <2>1, <2>2, <2>3
<1>5. CASE ReaderThread
  BY <1>5, StreamReader, ReaderOnOpenPort DEF ReaderThread, camVars, stageVars
<1>6. CASE Controller
  <2>1. StreamOK'
    <3>1. CASE EndFlow
      BY <3>1, StreamReply, RepliesAreTexts DEF EndFlow
    <3>2. CASE EndTurn
      BY <3>2, StreamReply, RepliesAreTexts DEF EndTurn
    <3>3. CASE OtherText
      BY <3>3, StreamReceive, RepliesAreTexts DEF OtherText
    <3>4. QED BY <1>6, <3>1, <3>2, <3>3 DEF Controller
  <2>2. UNCHANGED <<handle, http, stop, camVars, dialect>>
    BY <1>6, RepliesOnWire DEF Controller, EndFlow, EndTurn, OtherText, stageVars
  <2>3. flow' \in Flows \cup {"none"} /\ place' \in {"away", "loaded", "camera"}
    BY <1>6 DEF Controller, EndFlow, EndTurn, OtherText, stageVars, Flows
  <2>4. QED BY <2>1, <2>2, <2>3 DEF camVars
<1>7. CASE UNCHANGED vars
  BY <1>7 DEF vars, serialVars, camVars, stageVars, StreamOK
<1>8. QED BY <1>1, <1>2, <1>3, <1>4, <1>5, <1>6, <1>7 DEF Next

-----------------------------------------------------------------------------
\* What a step leaves in order: nothing more is pending, and no older.
Quieter ==
    /\ LoadSeen' => LoadSeen
    /\ GotoSeen' => GotoSeen
    /\ TurnSeen' => TurnSeen
    /\ LoadFresh => LoadFresh'
    /\ TurnFresh => TurnFresh'

LEMMA QuietSerial == ASSUME UNCHANGED <<wire, buffer, lines>> PROVE Quieter /\ (AllEnd => AllEnd')
  BY DEF Quieter, LoadSeen, GotoSeen, TurnSeen, LoadFresh, TurnFresh, Pending, Fresh, OnWire,
         InBuffer, InLines, AllEnd, Ends

LEMMA QuietReader == ASSUME StreamOK, Reader PROVE Quieter /\ (AllEnd => AllEnd')
<1>1. Quieter
  BY PendingReader, FreshReader DEF Quieter, LoadSeen, GotoSeen, TurnSeen, LoadFresh, TurnFresh
<1>2. AllEnd => AllEnd'
  BY EndsReader, RepliesAreTexts DEF AllEnd
<1>3. QED BY <1>1, <1>2

LEMMA QuietDrain == ASSUME Drain PROVE Quieter /\ (AllEnd => AllEnd')
<1>1. Quieter
  BY Drained DEF Quieter, LoadSeen, GotoSeen, TurnSeen, LoadFresh, TurnFresh
<1>2. AllEnd => AllEnd'
  BY Drained DEF AllEnd
<1>3. QED BY <1>1, <1>2

\* What comes in is pending, and fresh if nothing it must not follow is pending.
LEMMA Received ==
  ASSUME StreamOK, NEW text,
         NEW symbols \in {<<>>, <<text>>, <<text, EndOfLine>>},
         Receive(symbols), UNCHANGED <<buffer, lines>>
  PROVE  /\ LoadSeen' => LoadSeen \/ text \in LoadDone
         /\ GotoSeen' => GotoSeen \/ text \in GotoDone
         /\ TurnSeen' => TurnSeen \/ text \in TurnDone
         /\ LoadFresh /\ (text \notin GotoDone \cup TurnDone \/ ~LoadSeen) => LoadFresh'
         /\ TurnFresh /\ (text \notin TurnDone \/ ~TurnSeen) => TurnFresh'
         /\ AllEnd /\ (symbols # <<text>> \/ text \notin LoadDone \cup GotoDone \cup TurnDone)
               => AllEnd'
<1>1. /\ LoadSeen' => LoadSeen \/ text \in LoadDone
      /\ GotoSeen' => GotoSeen \/ text \in GotoDone
      /\ TurnSeen' => TurnSeen \/ text \in TurnDone
  BY PendingReceive, RepliesAreTexts DEF LoadSeen, GotoSeen, TurnSeen
<1>2. EndOfLine \notin GotoDone \cup TurnDone
  BY RepliesAreTexts
<1>3. LoadFresh /\ (text \notin GotoDone \cup TurnDone \/ ~LoadSeen) => LoadFresh'
  BY <1>2, FreshReceive, RepliesAreTexts DEF LoadSeen, LoadFresh
<1>4. TurnFresh /\ (text \notin TurnDone \/ ~TurnSeen) => TurnFresh'
  BY FreshReceive, RepliesAreTexts DEF TurnSeen, TurnFresh
<1>5. AllEnd /\ (symbols # <<text>> \/ text \notin LoadDone \cup GotoDone \cup TurnDone) => AllEnd'
  BY EndsReceive, RepliesAreTexts DEF AllEnd
<1>6. QED BY <1>1, <1>3, <1>4, <1>5

LEMMA Replied ==
  ASSUME StreamOK, NEW text, Reply(text)
  PROVE  /\ LoadSeen' => LoadSeen \/ text \in LoadDone
         /\ GotoSeen' => GotoSeen \/ text \in GotoDone
         /\ TurnSeen' => TurnSeen \/ text \in TurnDone
         /\ LoadFresh /\ (text \notin GotoDone \cup TurnDone \/ ~LoadSeen) => LoadFresh'
         /\ TurnFresh /\ (text \notin TurnDone \/ ~TurnSeen) => TurnFresh'
         /\ AllEnd => AllEnd'
<1>1. PICK symbols \in {<<>>, <<text, EndOfLine>>} : Receive(symbols)
  BY DEF Reply
<1>2. UNCHANGED <<buffer, lines>>
  BY DEF Reply
<1>3. symbols # <<text>>
  BY <1>1
<1>4. symbols \in {<<>>, <<text>>, <<text, EndOfLine>>}
  BY <1>1
<1>5. QED BY <1>1, <1>2, <1>3, <1>4, Received

LEMMA QuietRefusal ==
  ASSUME StreamOK, NEW text \in {"Flow Busy", "Parse Err", "other"}, Reply(text)
  PROVE  Quieter
<1>1. text \notin LoadDone \cup GotoDone \cup TurnDone
  BY DEF LoadDone, GotoDone, TurnDone, Tokens, Done, Flows
<1>2. QED BY <1>1, Replied DEF Quieter

LEMMA QuietOther == ASSUME StreamOK, OtherText PROVE Quieter /\ (AllEnd => AllEnd')
<1>1. PICK symbols \in {<<"other">>, <<"other", EndOfLine>>} : Receive(symbols)
  BY DEF OtherText
<1>2. UNCHANGED <<buffer, lines>> /\ symbols \in {<<>>, <<"other">>, <<"other", EndOfLine>>}
  BY <1>1 DEF OtherText
<1>3. "other" \notin LoadDone \cup GotoDone \cup TurnDone
  BY DEF LoadDone, GotoDone, TurnDone, Tokens, Done, Flows
<1>4. QED BY <1>1, <1>2, <1>3, Received DEF Quieter

\* Whatever the controller says, it ends its lines.
LEMMA ControlledEnds == ASSUME StreamOK, NEW c, Controlled(c) PROVE AllEnd => AllEnd'
<1>1. CASE UNCHANGED serialVars
  BY <1>1, QuietSerial DEF serialVars
<1>2. CASE \E text \in {"Cam Next", "Flow Busy", "Parse Err"} : Reply(text)
  BY <1>2, Replied
<1>3. QED BY <1>1, <1>2 DEF Controlled, Refuse, BeginFlow, Turn, Miss

\* The capture thread drains, sends, or leaves the client alone.
LEMMA CaptureEnds ==
  ASSUME StreamOK, Capture \/ SnapTaken PROVE AllEnd => AllEnd'
<1>1. CASE SendCommand
  BY <1>1, ControlledEnds DEF SendCommand
<1>2. CASE ~SendCommand
  <2>1. Drain \/ UNCHANGED serialVars
    BY <1>2 DEF Capture, LeaveLoop, BeginGroup, TakeLines, GiveUp, SnapStopped, SnapTaken, Push
  <2>2. QED BY <2>1, QuietDrain, QuietSerial DEF serialVars
<1>3. QED BY <1>1, <1>2

LEMMA EndsStep == SessionInv /\ DialogueTypes /\ EndsInv /\ [Next]_vars => EndsInv'
<1> SUFFICES ASSUME SessionInv, DialogueTypes, EndsInv, [Next]_vars PROVE EndsInv'
    OBVIOUS
<1>0. StreamOK
  BY DEF DialogueTypes
<1>1. CASE Start
  BY <1>1, QuietSerial DEF Start, Open, EndsInv
<1>2. CASE Stop
  BY <1>2, QuietSerial DEF Stop, serialVars, EndsInv
<1>3. CASE Join
  <2>1. CASE JoinCamera
    BY <2>1, QuietSerial DEF JoinCamera, serialVars, EndsInv
  <2>2. CASE http = "close" /\ http' = "joinReader" /\ CloseStops
    BY <2>2, QuietSerial DEF CloseStops, EndsInv
  <2>3. CASE http = "joinReader" /\ http' = "clear" /\ CloseJoins
    BY <2>3 DEF CloseJoins, EndsInv
  <2>4. CASE http = "clear" /\ http' = "idle" /\ CloseClears
    <3>1. wire' = <<>> /\ buffer' = <<>>
      BY <2>4 DEF CloseClears, EndsInv
    <3>2. AllEnd'
      BY <3>1 DEF AllEnd, Ends, InBuffer
    <3>3. QED BY <2>4, <3>2 DEF EndsInv
  <2>5. QED BY <1>3, <2>1, <2>2, <2>3, <2>4 DEF Join, CloseSlide
<1>4. CASE Capture \/ SnapTaken
  <2>1. http' = http /\ cam # "none"
    BY <1>4 DEF Capture, LeaveLoop, BeginGroup, SendCommand, TakeLines, GiveUp, SnapStopped,
                SnapTaken, Push
  <2>2. http # "clear"
    BY <2>1 DEF SessionInv
  <2>3. QED BY <1>0, <1>4, <2>1, <2>2, CaptureEnds DEF EndsInv
<1>5. CASE ReaderThread
  <2>1. http' = http /\ http # "clear"
    BY <1>5, ReaderOnOpenPort DEF ReaderThread, SessionInv
  <2>2. QED BY <1>0, <1>5, <2>1, QuietReader DEF ReaderThread, EndsInv
<1>6. CASE Controller
  <2>1. AllEnd => AllEnd'
    BY <1>0, <1>6, Replied, QuietOther DEF Controller, EndFlow, EndTurn
  <2>2. http' = http
    BY <1>6 DEF Controller, EndFlow, EndTurn, OtherText
  <2>3. http = "clear" => wire' = wire
    BY <1>6 DEF Controller, EndFlow, EndTurn, OtherText, Reply, Receive, SessionInv
  <2>4. QED BY <2>1, <2>2, <2>3 DEF EndsInv
<1>7. CASE UNCHANGED vars
  BY <1>7, QuietSerial DEF vars, serialVars, EndsInv
<1>8. QED BY <1>1, <1>2, <1>3, <1>4, <1>5, <1>6, <1>7 DEF Next

-----------------------------------------------------------------------------
\* Nothing pending is fresh.
LEMMA NothingFresh == (~LoadSeen => LoadFresh) /\ (~TurnSeen => TurnFresh)
  BY DEF LoadSeen, TurnSeen, LoadFresh, TurnFresh, Fresh, Pending, OnWire

\* A step of the stage that does not concern the capture, and a capture thread that
\* is not in a group.
LEMMA PictureKept ==
  ASSUME PictureInv, Quieter, UNCHANGED <<cam, command, face, handle, stageVars>>
  PROVE  PictureInv'
<1>1. Counts'
  BY DEF PictureInv, Counts, Sending, stageVars
<1>2. Loading' /\ Going'
  BY DEF PictureInv, Loading, Going, Sending, stageVars, Quieter
<1>3. AtCamera' /\ InStep'
  BY DEF PictureInv, AtCamera, InStep, Sending, Snapping, stageVars, Quieter
<1>4. QED BY <1>1, <1>2, <1>3 DEF PictureInv

LEMMA PictureOutside ==
  ASSUME Counts, UNCHANGED <<face, stageVars>>, cam' \in {"none", "top", "exit"}
  PROVE  PictureInv'
  BY DEF PictureInv, Counts, Loading, Going, AtCamera, InStep, Sending, Snapping, stageVars

\* Where a command leaves the stage, when it may still be answered.
LEMMA PictureCommand ==
  ASSUME DialogueTypes, PictureInv, SendCommand
  PROVE  PictureInv'
<1>0. /\ cam = "send" /\ Controlled(command) /\ cam' \in {"wait", "top"}
      /\ command' = command /\ face' = face /\ handle' = handle /\ handle
      /\ UNCHANGED <<buffer, lines>> /\ StreamOK
  BY ControlledOnWire DEF SendCommand, Failed, PictureInv, Counts, DialogueTypes
<1>1. CASE \/ command \in Flows /\ Refuse("Flow Busy")
           \/ Miss(command) /\ Reply("Parse Err")
           \/ Miss(command) /\ UNCHANGED serialVars
  <2>0. command \in Flows => command # "CAM_NEXT"
    BY DEF Flows
  <2>1. /\ Quieter /\ UNCHANGED <<flow, place, turned, moving, dialect>>
        /\ missed' = IF command = "CAM_NEXT" THEN missed + 1 ELSE missed
    BY <1>0, <1>1, <2>0, QuietRefusal, QuietSerial DEF Refuse, Miss, stageVars, serialVars
  <2>2. Counts' /\ AtCamera'
    <3>1. CASE command = "CAM_NEXT"
      <4>1. /\ flow = "none" /\ place = "camera"
            /\ face < FaceCount - 1 /\ turned + missed = face
        BY <1>0, <3>1 DEF PictureInv, Counts, AtCamera, Sending
      <4>2. /\ face \in Nat /\ turned \in Nat /\ missed \in Nat /\ FaceCount \in Nat
            /\ turned \in Faces /\ face \in Faces /\ moving \in 0..turned
        BY <1>0, FaceCountAssumption DEF PictureInv, Counts, Faces
      <4>3. missed + 1 \in Faces /\ turned + (missed + 1) = face + 1
        BY <4>1, <4>2 DEF Faces
      <4>4. Counts'
        BY <1>0, <2>1, <3>1, <4>1, <4>2, <4>3 DEF Counts, Sending
      <4>5. AtCamera'
        BY <1>0, <2>1, <3>1, <4>1, <4>3 DEF AtCamera, Sending, Snapping
      <4>6. QED BY <4>4, <4>5
    <3>2. CASE command # "CAM_NEXT"
      BY <1>0, <2>1, <3>2 DEF PictureInv, Counts, AtCamera, Sending, Snapping
    <3>3. QED BY <3>1, <3>2
  <2>3. Loading' /\ Going'
    BY <1>0, <2>1 DEF PictureInv, Loading, Going, Sending, Quieter
  <2>5. InStep'
    <3>1. ~TurnSeen => ~TurnSeen' /\ TurnFresh'
      BY <2>1, NothingFresh DEF Quieter
    <3>2. dialect = "at end" /\ command = "CAM_NEXT" => turned = face /\ moving = 0 /\ ~TurnSeen
      BY <1>0 DEF PictureInv, InStep, Sending
    <3>3. dialect' = dialect /\ turned' = turned /\ moving' = moving
      BY <2>1
    <3>4. ~Snapping' /\ cam' # "send" /\ (Sending("CAM_NEXT")' => command = "CAM_NEXT")
      BY <1>0 DEF Snapping, Sending
    <3>5. moving = 0 => moving <= 1 /\ moving # 1
      OBVIOUS
    <3>6. QED BY <3>1, <3>2, <3>3, <3>4, <3>5 DEF InStep
  <2>6. QED BY <2>2, <2>3, <2>5 DEF PictureInv
<1>2. CASE command \in Flows /\ flow = "none" /\ BeginFlow(command)
  <2>1. Quieter /\ flow' = command /\ turned' = 0 /\ moving' = 0 /\ missed' = 0
    BY <1>2, QuietSerial DEF BeginFlow, serialVars
  <2>2. Counts'
    <3>1. 0 \in Faces /\ 0 \in 0..0 /\ face \in Faces
      BY FaceCountAssumption DEF Faces, PictureInv, Counts
    <3>2. command # "CAM_NEXT"
      BY <1>2 DEF Flows
    <3>3. QED BY <1>0, <2>1, <3>1, <3>2 DEF Counts, Sending
  <2>3. Loading' /\ Going'
    BY <1>0, <1>2, <2>1 DEF PictureInv, Loading, Going, Sending, Quieter, Flows
  <2>4. AtCamera' /\ InStep'
    BY <1>0, <1>2 DEF AtCamera, InStep, Sending, Snapping, Flows
  <2>5. QED BY <2>2, <2>3, <2>4 DEF PictureInv
<1>3. CASE command = "CAM_NEXT" /\ Turn
  <2>1. /\ turned' = turned + 1 /\ moving' = moving + 1
        /\ UNCHANGED <<flow, place, missed, dialect>>
        /\ dialect = "at end" => Quieter
    BY <1>3, QuietSerial DEF Turn, serialVars
  <2>2. /\ flow = "none" /\ place = "camera" /\ turned + missed = face
        /\ face < FaceCount - 1
        /\ dialect = "at end" => turned = face /\ moving = 0 /\ ~TurnSeen
    BY <1>0, <1>3 DEF PictureInv, Counts, AtCamera, InStep, Sending
  <2>3. /\ face \in Nat /\ turned \in Nat /\ moving \in Nat /\ moving <= turned
        /\ missed \in Nat /\ missed \in Faces /\ FaceCount \in Nat /\ face \in Faces
    BY FaceCountAssumption DEF PictureInv, Counts, Faces
  <2>4. Counts'
    <3>1. ASSUME turned + missed = face, face < FaceCount - 1
          PROVE  turned + 1 \in Faces /\ moving + 1 \in 0..turned + 1
      BY <2>3, <3>1 DEF Faces
    <3>2. turned' \in Faces /\ moving' \in 0..turned'
      BY <2>1, <2>2, <3>1
    <3>3. /\ flow' = "none" /\ face' \in Faces /\ face' < FaceCount - 1 /\ handle'
          /\ missed' \in Faces
      BY <1>0, <2>1, <2>2, <2>3
    <3>4. QED BY <3>2, <3>3 DEF Counts
  <2>5. Loading' /\ Going'
    BY <1>0, <1>3 DEF Loading, Going, Sending
  <2>6. AtCamera'
    <3>1. turned + missed = face => (turned + 1) + missed = face + 1
      BY <2>3
    <3>2. turned' + missed' = face' + 1
      BY <1>0, <2>1, <2>2, <3>1
    <3>3. Snapping' \/ Sending("CAM_NEXT")' => cam' = "wait"
      BY <1>0 DEF Sending, Snapping
    <3>4. flow' = "none" /\ place' = "camera"
      BY <2>1, <2>2
    <3>5. QED BY <3>2, <3>3, <3>4 DEF AtCamera
  <2>7. InStep'
    <3>1. dialect = "at end" => ~TurnSeen' /\ TurnFresh'
      BY <2>1, <2>2, NothingFresh DEF Quieter
    <3>2. turned = face /\ moving = 0 => turned + 1 = face + 1 /\ moving + 1 = 1 /\ moving + 1 <= 1
      BY <2>3
    <3>3. dialect' = "at end" => turned' = face' + 1 /\ moving' = 1 /\ moving' <= 1
      BY <1>0, <2>1, <2>2, <3>2
    <3>4. ~Snapping' /\ cam' # "send"
      BY <1>0 DEF Snapping
    <3>5. QED BY <2>1, <3>1, <3>3, <3>4 DEF InStep
  <2>8. QED BY <2>4, <2>5, <2>6, <2>7 DEF PictureInv
<1>4. QED BY <1>0, <1>1, <1>2, <1>3 DEF Controlled

\* Which answer takes the capture thread where.
LEMMA PictureTaken ==
  ASSUME DialogueTypes, PictureInv, TakeLines
  PROVE  PictureInv'
<1>0. /\ cam = "wait" /\ Drain /\ Quieter /\ UNCHANGED stageVars /\ handle' = handle
      /\ handle /\ Counts
  BY QuietDrain DEF TakeLines, Drain, PictureInv, Counts
<1>1. CASE UNCHANGED camVars
  BY <1>0, <1>1, PictureKept DEF camVars
<1>2. CASE Failed
  BY <1>0, <1>2, PictureOutside DEF Failed
<1>3. CASE InLines(Tokens(command)) /\ Answered
  <2>1. /\ flow' = flow /\ place' = place /\ turned' = turned /\ moving' = moving
        /\ missed' = missed /\ dialect' = dialect
    BY <1>0 DEF stageVars
  <2>2. /\ face \in Nat /\ face \in Faces /\ turned \in Nat /\ turned \in Faces
        /\ moving \in 0..turned /\ missed \in Faces
        /\ FaceCount \in Nat /\ 0 \in Faces
    BY <1>0, FaceCountAssumption DEF Counts, Faces
  <2>3. CASE command = "LOAD" /\ cam' = "send" /\ command' = "GOTO_CAM" /\ face' = face
    <3>1. InLines(LoadDone)
      BY <1>3, <2>3 DEF LoadDone, Tokens, Flows
    <3>2. LoadSeen /\ LoadFresh /\ turned = 0 /\ missed = 0 /\ flow \in {"none", "LOAD"}
      BY <1>0, <2>3, <3>1 DEF LoadSeen, Pending, PictureInv, Loading, Sending
    <3>3. ~Pending(GotoDone \cup TurnDone)'
      BY <1>0, <3>1, <3>2, Drained DEF LoadFresh
    <3>4. ~GotoSeen' /\ ~TurnSeen'
      BY <3>3 DEF GotoSeen, TurnSeen, Pending, OnWire, InBuffer, InLines
    <3>5. Counts'
      BY <1>0, <2>1, <2>3 DEF Counts, Sending
    <3>6. Loading' /\ Going'
      BY <2>1, <2>3, <3>2, <3>4 DEF Loading, Going, Sending
    <3>7. AtCamera' /\ InStep'
      BY <2>3 DEF AtCamera, InStep, Sending, Snapping
    <3>8. QED BY <3>5, <3>6, <3>7 DEF PictureInv
  <2>4. CASE command = "GOTO_CAM" /\ cam' = "snap" /\ face' = 0
    <3>1. GotoSeen
      BY <1>3, <2>4 DEF GotoDone, GotoSeen, Pending, Tokens, Flows
    <3>2. flow = "none" /\ place = "camera" /\ turned = 0 /\ missed = 0 /\ ~TurnSeen
      BY <1>0, <2>4, <3>1 DEF PictureInv, Going, Sending
    <3>3. moving = 0 /\ turned + missed = 0
      BY <2>2, <3>2
    <3>4. Counts'
      BY <1>0, <2>1, <2>2, <2>4 DEF Counts, Sending
    <3>5. Loading' /\ Going'
      BY <2>4 DEF Loading, Going, Sending
    <3>6. AtCamera' /\ InStep'
      BY <1>0, <2>1, <2>4, <3>2, <3>3 DEF AtCamera, InStep, Sending, Snapping, Quieter
    <3>7. QED BY <3>4, <3>5, <3>6 DEF PictureInv
  <2>5. CASE command = "CAM_NEXT" /\ cam' = "snap" /\ face' = face + 1
    <3>1. InLines(TurnDone) /\ TurnSeen
      BY <1>3, <2>5 DEF TurnDone, TurnSeen, Pending
    <3>2. flow = "none" /\ place = "camera" /\ face < FaceCount - 1
          /\ turned + missed = face + 1
      BY <1>0, <2>5 DEF PictureInv, AtCamera, Sending, Counts
    <3>3. dialect = "at end" => TurnFresh /\ turned = face + 1 /\ moving = 0
      BY <1>0, <2>5, <3>1 DEF PictureInv, InStep, Sending
    <3>4. dialect = "at end" => ~TurnSeen'
      BY <1>0, <3>1, <3>3, Drained DEF TurnFresh, TurnSeen
    <3>5. face + 1 \in Faces
      BY <2>2, <3>2 DEF Faces
    <3>6. Counts'
      BY <1>0, <2>1, <2>2, <2>5, <3>2, <3>5 DEF Counts, Sending
    <3>7. Loading' /\ Going'
      BY <2>5 DEF Loading, Going, Sending
    <3>8. AtCamera'
      BY <2>1, <2>5, <3>2, <3>5 DEF AtCamera
    <3>9. InStep'
      BY <2>1, <2>5, <3>3, <3>4 DEF InStep, Sending, Snapping
    <3>10. QED BY <3>6, <3>7, <3>8, <3>9 DEF PictureInv
  <2>6. CASE cam' = "top" /\ face' = face
    BY <1>0, <2>6, PictureOutside
  <2>7. QED BY <1>3, <2>3, <2>4, <2>5, <2>6 DEF Answered
<1>4. QED
  <2>1. ASSUME NEW i \in DOMAIN lines, Tells(i, Tokens(command)), ~Has(lines[i], ErrorTexts)
        PROVE  InLines(Tokens(command))
    BY <2>1 DEF Tells, Has, InLines
  <2>2. QED BY <1>1, <1>2, <1>3, <2>1 DEF TakeLines

LEMMA PictureCapture ==
  ASSUME DialogueTypes, EndsInv, SessionInv, PictureInv, Capture \/ SnapTaken
  PROVE  PictureInv'
<1>0. Counts
  BY DEF PictureInv
<1>1. CASE LeaveLoop
  BY <1>0, <1>1, PictureOutside DEF LeaveLoop
<1>2. CASE BeginGroup
  <2>1. /\ cam = "top" /\ wire = <<>> /\ UNCHANGED stageVars /\ handle' = handle
    BY <1>2 DEF BeginGroup, Drain, serialVars
  <2>2. CASE handle /\ cam' = "send" /\ command' = "LOAD" /\ Drain /\ face' = face
    <3>1. Ends(LoadDone)
      BY <2>1 DEF SessionInv, EndsInv, AllEnd
    <3>2. ~LoadSeen' /\ LoadFresh'
      <4>1. ~LoadSeen'
        BY <2>1, <2>2, <3>1, Drained DEF LoadSeen
      <4>2. QED BY <4>1, NothingFresh, PTL
    <3>3. Counts'
      BY <1>0, <2>1, <2>2 DEF Counts, Sending, stageVars
    <3>4. Loading' /\ Going' /\ AtCamera' /\ InStep'
      BY <2>2, <3>2 DEF Loading, Going, AtCamera, InStep, Sending, Snapping
    <3>5. QED BY <3>3, <3>4 DEF PictureInv
  <2>3. CASE ~handle /\ cam' = "snap" /\ face' = 0
    <3>1. 0 \in Faces
      BY FaceCountAssumption DEF Faces
    <3>2. Counts'
      BY <1>0, <2>1, <2>3, <3>1 DEF Counts, Sending, stageVars
    <3>3. Loading' /\ Going' /\ AtCamera' /\ InStep'
      BY <2>1, <2>3 DEF Loading, Going, AtCamera, InStep, Sending, Snapping
    <3>4. QED BY <3>2, <3>3 DEF PictureInv
  <2>4. QED BY <1>2, <2>2, <2>3 DEF BeginGroup
<1>3. CASE SendCommand
  BY <1>3, PictureCommand
<1>4. CASE TakeLines
  BY <1>4, PictureTaken
<1>5. CASE GiveUp
  BY <1>0, <1>5, PictureOutside DEF GiveUp, Failed
<1>6. CASE SnapStopped
  BY <1>0, <1>6, PictureOutside DEF SnapStopped
<1>7. CASE SnapTaken
  <2>1. /\ cam = "snap" /\ cam' = "push" /\ command' = command /\ face' = face
        /\ UNCHANGED stageVars /\ handle' = handle /\ Quieter
    BY <1>7, QuietSerial DEF SnapTaken, serialVars
  <2>2. Counts' /\ Loading' /\ Going'
    BY <1>0, <2>1 DEF Counts, Loading, Going, Sending, stageVars
  <2>3. AtCamera' /\ InStep'
    BY <2>1 DEF PictureInv, AtCamera, InStep, Sending, Snapping, stageVars, Quieter
  <2>4. QED BY <2>2, <2>3 DEF PictureInv
<1>8. CASE Push
  <2>1. /\ cam = "push" /\ UNCHANGED stageVars /\ handle' = handle /\ Quieter
    BY <1>8, QuietSerial DEF Push, serialVars
  <2>2. CASE cam' = "top" /\ face' = face
    BY <1>0, <2>1, <2>2, PictureOutside
  <2>3. CASE /\ handle /\ cam' = "send" /\ face' = face
             /\ command' = IF face < FaceCount - 1 THEN "CAM_NEXT" ELSE "UNLOAD"
    <3>1. Counts'
      BY <1>0, <2>1, <2>3 DEF Counts, Sending, stageVars
    <3>2. Loading' /\ Going'
      BY <2>3 DEF Loading, Going, Sending
    <3>3. AtCamera' /\ InStep'
      BY <2>1, <2>3 DEF PictureInv, AtCamera, InStep, Sending, Snapping, stageVars, Quieter
    <3>4. QED BY <3>1, <3>2, <3>3 DEF PictureInv
  <2>4. CASE ~handle /\ face < FaceCount - 1 /\ cam' = "snap" /\ face' = face + 1
    <3>1. face + 1 \in Faces
      BY <1>0, <2>4, FaceCountAssumption DEF Counts, Faces
    <3>2. Counts'
      BY <1>0, <2>1, <2>4, <3>1 DEF Counts, Sending, stageVars
    <3>3. Loading' /\ Going' /\ AtCamera' /\ InStep'
      BY <2>1, <2>4 DEF Loading, Going, AtCamera, InStep, Sending, Snapping
    <3>4. QED BY <3>2, <3>3 DEF PictureInv
  <2>5. QED BY <1>8, <2>2, <2>3, <2>4 DEF Push
<1>9. QED BY <1>1, <1>2, <1>3, <1>4, <1>5, <1>6, <1>7, <1>8 DEF Capture

\* What the stage finishes meanwhile.
LEMMA PictureController ==
  ASSUME DialogueTypes, PictureInv, Controller
  PROVE  PictureInv'
<1>0. /\ Counts /\ StreamOK /\ handle' = handle /\ cam' = cam /\ command' = command
      /\ face' = face /\ dialect' = dialect
  BY RepliesOnWire DEF Controller, EndFlow, EndTurn, OtherText, camVars, stageVars, PictureInv,
                       DialogueTypes
<1>1. CASE EndFlow
  <2>1. /\ flow # "none" /\ flow' = "none" /\ turned = 0 /\ turned' = turned /\ moving' = moving
        /\ missed = 0 /\ missed' = missed
        /\ flow = "GOTO_CAM" => place' = "camera"
        /\ flow \in Flows /\ Reply(Done[flow])
    BY <1>0, <1>1 DEF EndFlow, Counts, DialogueTypes
  <2>2. /\ LoadSeen' => LoadSeen \/ flow = "LOAD"
        /\ GotoSeen' => GotoSeen \/ flow = "GOTO_CAM"
        /\ TurnSeen' => TurnSeen
        /\ LoadFresh /\ (flow # "GOTO_CAM" \/ ~LoadSeen) => LoadFresh'
    <3>1. /\ Done[flow] \in LoadDone => flow = "LOAD"
          /\ Done[flow] \in GotoDone => flow = "GOTO_CAM"
          /\ Done[flow] \notin TurnDone
      <4>1. CASE flow = "LOAD"
        BY <4>1 DEF Done, LoadDone, GotoDone, TurnDone, Tokens, Flows
      <4>2. CASE flow = "GOTO_CAM"
        BY <4>2 DEF Done, LoadDone, GotoDone, TurnDone, Tokens, Flows
      <4>3. CASE flow = "UNLOAD"
        BY <4>3 DEF Done, LoadDone, GotoDone, TurnDone, Tokens, Flows
      <4>4. QED BY <2>1, <4>1, <4>2, <4>3 DEF Flows
    <3>2. QED BY <1>0, <2>1, <3>1, Replied
  <2>3. Counts'
    BY <1>0, <2>1 DEF Counts, Sending
  <2>4. Loading'
    BY <1>0, <2>1, <2>2 DEF PictureInv, Loading, Sending
  <2>5. Going'
    BY <1>0, <2>1, <2>2 DEF PictureInv, Going, Sending, Flows
  <2>6. AtCamera' /\ InStep'
    <3>1. ~Snapping /\ ~Sending("CAM_NEXT")
      BY <2>1 DEF PictureInv, AtCamera
    <3>2. ~Snapping' /\ ~Sending("CAM_NEXT")'
      BY <1>0, <3>1 DEF Snapping, Sending
    <3>3. QED BY <3>2 DEF AtCamera, InStep
  <2>7. QED BY <2>3, <2>4, <2>5, <2>6 DEF PictureInv
<1>2. CASE EndTurn
  <2>1. /\ moving > 0 /\ moving' = moving - 1 /\ turned' = turned /\ flow' = flow /\ place' = place
        /\ missed' = missed
        /\ \E text \in TurnDone : Reply(text)
    BY <1>2 DEF EndTurn, TurnDone, Tokens, Flows
  <2>2. /\ LoadSeen' => LoadSeen
        /\ GotoSeen' => GotoSeen
        /\ LoadFresh /\ ~LoadSeen => LoadFresh'
        /\ TurnFresh /\ ~TurnSeen => TurnFresh'
    <3>1. \A text \in TurnDone : text \notin LoadDone /\ text \notin GotoDone
      BY DEF Done, LoadDone, GotoDone, TurnDone, Tokens, Flows
    <3>2. QED BY <1>0, <2>1, <3>1, Replied
  <2>3. /\ moving \in Nat /\ moving - 1 \in 0..turned /\ turned # 0
        /\ moving <= 1 => moving = 1 /\ moving - 1 = 0
    BY <1>0, <2>1 DEF Counts, Faces
  <2>4. Counts'
    BY <1>0, <2>1, <2>3 DEF Counts, Sending
  <2>5. Loading'
    BY <1>0, <2>1, <2>2, <2>3 DEF PictureInv, Loading, Sending
  <2>6. Going'
    <3>1. ~Sending("GOTO_CAM")
      BY <2>3 DEF PictureInv, Going
    <3>2. QED BY <1>0, <3>1 DEF Going, Sending
  <2>7. AtCamera'
    BY <1>0, <2>1 DEF PictureInv, AtCamera, Snapping, Sending
  <2>8. InStep'
    <3>1. moving # 0
      BY <2>1
    <3>2. dialect = "at end" => ~Snapping /\ ~(Sending("CAM_NEXT") /\ cam = "send")
      BY <3>1 DEF PictureInv, InStep
    <3>3. dialect = "at end" /\ Sending("CAM_NEXT") =>
             TurnFresh' /\ moving' = 0 /\ turned' = face' + 1
      BY <1>0, <2>1, <2>2, <2>3, <3>1, <3>2 DEF PictureInv, InStep, Sending
    <3>4. moving' = 0 => moving' <= 1 /\ moving' # 1
      OBVIOUS
    <3>5. QED BY <1>0, <3>2, <3>3, <3>4 DEF InStep, Snapping, Sending
  <2>9. QED BY <2>4, <2>5, <2>6, <2>7, <2>8 DEF PictureInv
<1>3. CASE OtherText
  BY <1>0, <1>3, QuietOther, PictureKept DEF OtherText
<1>4. QED BY <1>1, <1>2, <1>3 DEF Controller

LEMMA PictureStep ==
  DialogueTypes /\ EndsInv /\ SessionInv /\ PictureInv /\ [Next]_vars => PictureInv'
<1> SUFFICES ASSUME DialogueTypes, EndsInv, SessionInv, PictureInv, [Next]_vars
             PROVE  PictureInv'
    OBVIOUS
<1>0. Counts /\ StreamOK
  BY DEF PictureInv, DialogueTypes
<1>1. CASE Start
  BY <1>0, <1>1, PictureOutside DEF Start
<1>2. CASE Stop
  BY <1>2, QuietSerial, PictureKept DEF Stop, serialVars, camVars
<1>3. CASE Join
  <2>1. UNCHANGED <<face, stageVars>> /\ cam' = "none"
    BY <1>3 DEF Join, JoinCamera, CloseSlide, SessionInv, camVars
  <2>2. QED BY <1>0, <2>1, PictureOutside
<1>4. CASE Capture \/ SnapTaken
  BY <1>4, PictureCapture
<1>5. CASE ReaderThread
  BY <1>0, <1>5, QuietReader, ReaderOnOpenPort, PictureKept DEF ReaderThread, camVars
<1>6. CASE Controller
  BY <1>6, PictureController
<1>7. CASE UNCHANGED vars
  BY <1>7, QuietSerial, PictureKept DEF vars, serialVars, camVars
<1>8. QED BY <1>1, <1>2, <1>3, <1>4, <1>5, <1>6, <1>7 DEF Next

LEMMA DialogueInit == Init => SessionInv /\ DialogueTypes /\ EndsInv /\ PictureInv
<1> SUFFICES ASSUME Init PROVE SessionInv /\ DialogueTypes /\ EndsInv /\ PictureInv
    OBVIOUS
<1>1. SessionInv /\ DialogueTypes
  BY TypesInit DEF Init, SerialInit, SessionInv
<1>2. EndsInv
  <2>1. wire = <<>> /\ buffer = <<>> /\ http # "clear"
    BY DEF Init, SerialInit
  <2>2. AllEnd
    BY <2>1 DEF AllEnd, Ends, InBuffer
  <2>3. QED BY <2>1, <2>2 DEF EndsInv
<1>3. PictureInv
  <2>1. 0 \in Faces /\ 0 \in 0..0
    BY FaceCountAssumption DEF Faces
  <2>2. Counts
    BY <2>1 DEF Init, Counts, Sending
  <2>3. Loading /\ Going /\ AtCamera /\ InStep
    BY DEF Init, Loading, Going, AtCamera, InStep, Sending, Snapping
  <2>4. QED BY <2>2, <2>3 DEF PictureInv
<1>4. QED BY <1>1, <1>2, <1>3

LEMMA DialogueAlways == Spec => [](DialogueTypes /\ SessionInv /\ PictureInv)
<1>1. SessionInv /\ DialogueTypes /\ EndsInv /\ PictureInv /\ [Next]_vars
        => (SessionInv /\ DialogueTypes /\ EndsInv /\ PictureInv)'
  BY SessionStep, TypesStep, EndsStep, PictureStep
<1>2. QED BY <1>1, DialogueInit, PTL DEF Spec

\* With the stage, and whichever way the controller answers CAM_NEXT, every picture is
\* taken at the camera, between flows, and its face is the number of turns and of
\* missed CAM_NEXTs of its group.  A controller that answers at the end of the turn
\* has none missed then, and the stage is at rest; of one that answers at once neither
\* is true (camera_thread.cpp:329-346, 403-409).
THEOREM PicturesMatchTheirTurns == Spec => []PictureOfItsFace
<1>1. Counts /\ AtCamera /\ InStep => PictureOfItsFace
  <2>1. SUFFICES ASSUME Counts, AtCamera, InStep, cam = "snap", handle PROVE PictureOfItsFace
    BY DEF PictureOfItsFace
  <2>2. flow = "none" /\ place = "camera" /\ turned + missed = face
    BY <2>1 DEF AtCamera, Snapping
  <2>3. turned + missed = turned => missed = 0
    BY <2>1, FaceCountAssumption DEF Counts, Faces
  <2>4. dialect = "at end" => turned = face /\ moving = 0
    BY <2>1 DEF InStep, Snapping
  <2>5. QED BY <2>2, <2>3, <2>4 DEF PictureOfItsFace
<1>2. QED BY <1>1, DialogueAlways, PTL DEF PictureInv

-----------------------------------------------------------------------------
(* The types and bounds.                                                   *)

LEMMA SerialReply ==
  ASSUME SerialTypeOK, NEW text \in Texts, Reply(text)
  PROVE  SerialTypeOK'
  BY SerialReceive DEF Reply

LEMMA SerialControlled ==
  ASSUME SerialTypeOK, NEW c, Controlled(c)
  PROVE  SerialTypeOK'
<1>1. CASE UNCHANGED serialVars
  BY <1>1, SerialTaken
<1>2. CASE \E text \in {"Cam Next", "Flow Busy", "Parse Err"} : Reply(text)
  BY <1>2, SerialReply, RepliesAreTexts
<1>3. QED BY <1>1, <1>2 DEF Controlled, Refuse, BeginFlow, Turn, Miss

LEMMA SerialStep == SerialTypeOK /\ DialogueTypes /\ [Next]_vars => SerialTypeOK'
<1> SUFFICES ASSUME SerialTypeOK, DialogueTypes, [Next]_vars PROVE SerialTypeOK'
    OBVIOUS
<1>1. CASE SendCommand
  BY <1>1, SerialControlled DEF SendCommand
<1>2. CASE (Capture \/ SnapTaken) /\ ~SendCommand
  <2>1. Drain \/ UNCHANGED serialVars
    BY <1>2 DEF Capture, LeaveLoop, BeginGroup, TakeLines, GiveUp, SnapStopped, SnapTaken, Push
  <2>2. QED BY <2>1, SerialTaken
<1>3. CASE Start \/ Stop \/ Join
  <2>1. Open \/ CloseStops \/ CloseJoins \/ CloseClears \/ UNCHANGED serialVars
    BY <1>3 DEF Start, Stop, Join, JoinCamera, CloseSlide
  <2>2. QED BY <2>1, SerialTaken
<1>4. CASE ReaderThread
  BY <1>4, SerialReader DEF ReaderThread
<1>5. CASE Controller
  <2>1. CASE EndFlow
    BY <2>1, SerialReply, RepliesAreTexts DEF EndFlow, DialogueTypes
  <2>2. CASE EndTurn
    BY <2>2, SerialReply, RepliesAreTexts DEF EndTurn
  <2>3. CASE OtherText
    BY <2>3, SerialReceive, RepliesAreTexts DEF OtherText
  <2>4. QED BY <1>5, <2>1, <2>2, <2>3 DEF Controller
<1>6. CASE UNCHANGED vars
  BY <1>6, SerialTaken DEF vars
<1>7. QED BY <1>1, <1>2, <1>3, <1>4, <1>5, <1>6 DEF Next

\* Every variable of the client and of the dialogue keeps its type, the line under way
\* and the queued lines their limit, the turns and the missed ones the number of faces.
THEOREM TypeCorrect == Spec => []TypeOK
<1>1. Init => SerialTypeOK
  <2>1. /\ <<>> \in Seq(Texts \cup {EndOfLine}) /\ <<>> \in Seq(Texts) /\ <<>> \in Seq(Lines)
        /\ Len(<<>>) = 0 /\ DOMAIN <<>> = {} /\ 0 <= WireSize /\ 0 <= MaxLine
    BY SerialAssumption
  <2>2. QED BY <2>1 DEF Init, SerialInit, SerialTypeOK, ReaderStates
<1>2. SerialTypeOK /\ DialogueTypes /\ Counts => TypeOK
  BY DEF DialogueTypes, Counts, TypeOK
<1>3. QED BY <1>1, <1>2, SerialStep, DialogueAlways, PTL DEF Spec, PictureInv
=============================================================================
