-------------------------- MODULE CaptureFlowProofs --------------------------
(***************************************************************************)
(* What CaptureFlow promises for every number of groups and of faces: the  *)
(* camera is never starved, a group that did not time out is reported once *)
(* and complete, without a timeout only one group is under way, and with   *)
(* timeouts too no face is lost or reported twice.                         *)
(***************************************************************************)
EXTENDS CaptureFlow, TLAPS

-----------------------------------------------------------------------------
(* Types.                                                                  *)

\* The result that handleResult takes.
Handled(g, f) ==
    /\ gpc = "pop" /\ <<g, f>> \in results
    /\ results' = results \ {<<g, f>>}
    /\ \/ /\ received[g] \cup {f} = Faces /\ f \notin received[g]
          /\ gpc' = "report" /\ TakeOut(g, Faces)
       \/ /\ ~(received[g] \cup {f} = Faces /\ f \notin received[g])
          /\ gpc' = "clock"
          /\ received' = [received EXCEPT ![g] = received[g] \cup {f}]
          /\ UNCHANGED <<current, aged>>
    /\ UNCHANGED <<running, qStop, due, allow, recorded, reports, reported, timedOut>>

LEMMA HandledFace ==
  ASSUME HandleResult
  PROVE  \E g \in Groups, f \in Faces : Handled(g, f)
  BY DEF HandleResult, Handled

\* finalizeGroup works on a group of its own, a group at the stage has a number left,
\* and the loop's group is the one numbered last.
TypeInv ==
    /\ TypeOK
    /\ cam = "stage" => seq <= MaxGroup
    /\ cam \in {"shoot", "taken", "advance"} => gid # NoGroup
    /\ gid < seq
    /\ current.id # NoGroup <=> gpc \in {"report", "release"}

LEMMA GroupsAreNumbered == NoGroup \notin Groups /\ 1 \in 1..MaxGroup+1 /\ 0 \in Faces
  BY SizeAssumption DEF SizeAssumption, NoGroup, Groups, Faces

LEMMA TypeInit == Init => TypeInv
<1> SUFFICES ASSUME Init PROVE TypeInv
    OBVIOUS
<1>1. GmTypeOK
  BY DEF Init, GmInit, GmTypeOK, GmStates
<1>2. seq \in 1..MaxGroup+1 /\ face \in Faces /\ frames \subseteq Groups \X Faces
  BY GroupsAreNumbered DEF Init
<1>3. TypeOK
  BY <1>1, <1>2 DEF Init, TypeOK, CamStates
<1>4. gid < seq /\ current.id = NoGroup
  BY DEF Init, GmInit, NoGroup
<1>5. QED BY <1>3, <1>4 DEF Init, GmInit, TypeInv

LEMMA TypeGm == TypeInv /\ GroupManagerStep => TypeInv'
<1> SUFFICES ASSUME TypeInv, GroupManagerStep PROVE TypeInv'
    OBVIOUS
<1> USE GroupsAreNumbered DEF TypeInv, TypeOK, GmTypeOK, camVars, GmStates, TakeOut
<1>1. CASE HandleResult
  <2>1. PICK g \in Groups, f \in Faces : Handled(g, f)
    BY <1>1, HandledFace
  <2>2. QED BY <2>1 DEF GroupManagerStep, Handled
<1>2. CASE PopNothing
  BY <1>2 DEF GroupManagerStep, PopNothing
<1>3. CASE Report
  <2>1. current.id \in Groups /\ current.faces \subseteq Faces
    BY <1>3 DEF Report
  <2>2. /\ reports' \in [Groups -> Nat]
        /\ reported' \in [Groups -> SUBSET Faces]
        /\ recorded' \in [Groups -> SUBSET Faces]
    BY <1>3, <2>1 DEF Report
  <2>3. QED BY <1>3, <2>2 DEF GroupManagerStep, Report
<1>4. CASE Release
  BY <1>4 DEF GroupManagerStep, Release
<1>5. CASE CollectOverdue
  BY <1>5 DEF GroupManagerStep, CollectOverdue
<1>6. CASE FinalizeOverdue
  BY <1>6 DEF GroupManagerStep, FinalizeOverdue
<1>7. CASE CheckedOverdue
  BY <1>7 DEF GroupManagerStep, CheckedOverdue
<1>8. CASE LoopTest
  BY <1>8 DEF GroupManagerStep, LoopTest
<1>9. QED
  BY <1>1, <1>2, <1>3, <1>4, <1>5, <1>6, <1>7, <1>8 DEF GroupManagerStep, GmThread

LEMMA TypeStep == TypeInv /\ [Next]_vars => TypeInv'
<1> SUFFICES ASSUME TypeInv, [Next]_vars PROVE TypeInv'
    OBVIOUS
<1> USE DEF TypeInv, TypeOK, GmTypeOK, gmVars, camVars, CamStates
<1>1. CASE Camera
  <2>1. CASE TakeToken \/ StageFails
    BY <2>1 DEF TakeToken, StageFails
  <2>2. CASE BeginGroup
    <3>1. gid' \in Groups /\ gid' < seq' /\ seq' \in 1..MaxGroup+1 /\ face' \in Faces
      BY <2>2, GroupsAreNumbered, SizeAssumption DEF BeginGroup, SizeAssumption, Groups
    <3>2. QED BY <2>2, <3>1, GroupsAreNumbered DEF BeginGroup
  <2>3. CASE Snap \/ LeaveGroup \/ CamExit
    BY <2>3 DEF Snap, LeaveGroup, CamExit
  <2>4. CASE Push
    BY <2>4 DEF Push
  <2>5. CASE NextFace
    <3>1. face' \in Faces
      BY <2>5, SizeAssumption DEF SizeAssumption, NextFace, LastFace, Faces
    <3>2. QED BY <2>5, <3>1 DEF NextFace
  <2>6. QED BY <1>1, <2>1, <2>2, <2>3, <2>4, <2>5 DEF Camera
<1>2. CASE Detect
  BY <1>2 DEF Detect
<1>3. CASE Clock \/ Stop \/ Joined \/ UNCHANGED vars
  BY <1>3 DEF Clock, Age, Stop, StopCamera, StopGroupManager, StopQueue, Joined, vars
<1>4. QED BY <1>1, <1>2, <1>3, TypeGm DEF Next

LEMMA TypeAlways == Spec => []TypeInv
  BY TypeInit, TypeStep, PTL DEF Spec

\* The program counters, counters and sets keep their ranges.
THEOREM TypeCorrect == Spec => []TypeOK
<1>1. TypeInv => TypeOK
  BY DEF TypeInv
<1>2. QED BY <1>1, TypeAlways, PTL

-----------------------------------------------------------------------------
(* The camera is never starved: while it has no token, and has not just    *)
(* left the stage, something of a group is on its way to finalizeGroup.    *)

Work(g) == InFlight(g) \/ Open(g) \/ Finishing(g)

FedInv ==
    /\ cam \in {"waiting", "advance"} /\ ~allow /\ ~camStop => \E g \in Groups : Work(g)
    /\ qStop => ~running
    /\ ~running => camStop

\* A step that keeps work going for some group, and the camera as it was.
LEMMA FedByWork ==
  ASSUME FedInv, UNCHANGED <<cam, camStop, qStop, running>>, allow => allow',
         (\E g \in Groups : Work(g)) => (\E g \in Groups : Work(g)') \/ allow'
  PROVE  FedInv'
  BY DEF FedInv

LEMMA FedGm == TypeInv /\ FedInv /\ GroupManagerStep => FedInv'
<1> SUFFICES ASSUME TypeInv, FedInv, GroupManagerStep PROVE FedInv'
    OBVIOUS
<1> USE DEF TypeInv, TypeOK, GmTypeOK, camVars, Work, InFlight, Open, Finishing, TakeOut
<1>1. CASE HandleResult
  <2>1. PICK g \in Groups, f \in Faces : Handled(g, f)
    BY <1>1, HandledFace
  <2>2. Work(g)'
    BY <2>1 DEF Handled
  <2>3. QED BY <2>1, <2>2, FedByWork DEF GroupManagerStep, Handled
<1>2. CASE PopNothing \/ CollectOverdue \/ CheckedOverdue \/ LoopTest \/ Report
  <2>1. UNCHANGED <<cam, camStop, qStop, running, allow, frames, results, received, current>>
    BY <1>2 DEF GroupManagerStep, PopNothing, CollectOverdue, CheckedOverdue, LoopTest, Report
  <2>2. QED BY <2>1, FedByWork
<1>3. CASE Release
  BY <1>3 DEF GroupManagerStep, Release, FedInv
<1>4. CASE FinalizeOverdue
  <2>1. PICK g \in due : TakeOut(g, received[g])
    BY <1>4 DEF FinalizeOverdue
  <2>2. g \in Groups /\ Work(g)'
    BY <2>1
  <2>3. QED BY <1>4, <2>2, FedByWork DEF GroupManagerStep, FinalizeOverdue
<1>5. QED BY <1>1, <1>2, <1>3, <1>4 DEF GroupManagerStep, GmThread

LEMMA FedStep == TypeInv /\ FedInv /\ [Next]_vars => FedInv'
<1> SUFFICES ASSUME TypeInv, FedInv, [Next]_vars PROVE FedInv'
    OBVIOUS
<1> USE DEF Work, InFlight, Open, Finishing
<1>1. CASE Push
  <2>1. CASE qStop
    BY <1>1, <2>1 DEF Push, gmVars, FedInv
  <2>2. CASE ~qStop
    <3>1. gid \in Groups /\ face \in Faces /\ <<gid, face>> \in frames'
      BY <1>1, <2>2 DEF Push, TypeInv, TypeOK
    <3>2. QED BY <1>1, <2>2, <3>1 DEF Push, gmVars, FedInv
  <2>3. QED BY <2>1, <2>2
<1>2. CASE TakeToken \/ StageFails \/ BeginGroup \/ Snap \/ NextFace \/ CamExit
  BY <1>2 DEF TakeToken, StageFails, BeginGroup, Snap, NextFace, CamExit, gmVars, FedInv
<1>3. CASE LeaveGroup
  BY <1>3 DEF LeaveGroup, gmVars, FedInv
<1>4. CASE Detect
  <2>1. PICK frame \in frames :
          /\ frames' = frames \ {frame}
          /\ results' = IF qStop THEN results ELSE results \cup {frame}
    BY <1>4 DEF Detect
  <2>2. CASE qStop
    BY <1>4, <2>2 DEF Detect, FedInv
  <2>3. CASE ~qStop
    <3>1. \A pair : pair \in frames \cup results => pair \in frames' \cup results'
      BY <2>1, <2>3
    <3>2. QED BY <1>4, <3>1, FedByWork DEF Detect
  <2>4. QED BY <2>2, <2>3
<1>5. CASE Clock \/ Stop \/ Joined \/ UNCHANGED vars
  BY <1>5 DEF Clock, Age, Stop, StopCamera, StopGroupManager, StopQueue, Joined, vars, gmVars,
     camVars, FedInv
<1>6. QED BY <1>1, <1>2, <1>3, <1>4, <1>5, FedGm DEF Next, Camera

\* A camera that waits for its token always has a group on the way that will give it
\* back, whatever failed at the stage, in a worker or in the save.
THEOREM CameraFed == Spec => []CameraNeverStarved
<1>1. Init => FedInv
  BY DEF Init, GmInit, FedInv
<1>2. FedInv => CameraNeverStarved
  BY DEF FedInv, CameraNeverStarved, Work
<1>3. Spec => []FedInv
  BY <1>1, FedStep, TypeAlways, PTL DEF Spec
<1>4. QED BY <1>2, <1>3, PTL

-----------------------------------------------------------------------------
(* A group that did not time out: every face of it is in one place at most *)
(* and has been captured; it is finalised with all its faces, once.        *)

\* The camera has pushed face f of group g.
Pushed(g, f) ==
    /\ g < seq
    /\ g = gid /\ cam \in {"shoot", "taken"} => f < face
    /\ g = gid /\ cam = "advance" => f <= face

Exact(g) ==
    /\ \A f \in Faces :
          /\ <<g, f>> \in frames \cup results =>
                Pushed(g, f) /\ f \notin received[g] /\ current.id # g /\ reports[g] = 0
          /\ ~(<<g, f>> \in frames /\ <<g, f>> \in results)
          /\ f \in received[g] => Pushed(g, f) /\ current.id # g /\ reports[g] = 0
          /\ current.id = g \/ reports[g] = 1 => Pushed(g, f)
    /\ current.id = g =>
          current.faces = Faces /\ reports[g] = IF gpc = "report" THEN 0 ELSE 1
    /\ \/ reports[g] = 0 /\ reported[g] = {} /\ recorded[g] = {}
       \/ reports[g] = 1 /\ reported[g] = Faces /\ recorded[g] \in {{}, Faces}

ExactInv == \A g \in Groups \ timedOut : Exact(g)

LEMMA ExactInit == Init => ExactInv
  BY GroupsAreNumbered DEF Init, GmInit, ExactInv, Exact

\* Captured faces stay captured.
LEMMA PushedStays ==
  ASSUME NEW g, NEW f, Pushed(g, f), UNCHANGED <<seq, gid, face>>, cam' # "shoot" \/ cam = "shoot",
         cam' # "taken" \/ cam \in {"shoot", "taken"},
         cam' # "advance" \/ cam \in {"taken", "advance"}, f \in Nat, face \in Nat
  PROVE  Pushed(g, f)'
  BY DEF Pushed

LEMMA ExactGm == TypeInv /\ ExactInv /\ GroupManagerStep => ExactInv'
<1> SUFFICES ASSUME TypeInv, ExactInv, GroupManagerStep, NEW g \in Groups, g \notin timedOut'
             PROVE  Exact(g)'
    BY DEF ExactInv
<1>1. g \notin timedOut /\ Exact(g)
  BY DEF ExactInv, GroupManagerStep, GmThread, HandleResult, PopNothing, Report, Release,
     CollectOverdue, FinalizeOverdue, CheckedOverdue, LoopTest
<1> USE <1>1 DEF TypeInv, TypeOK, GmTypeOK, camVars, Exact, Pushed, TakeOut
<1>2. CASE HandleResult
  <2>1. PICK h \in Groups, f \in Faces : Handled(h, f)
    BY <1>2, HandledFace
  <2>2. current.id = NoGroup /\ UNCHANGED <<frames, cam, seq, gid, face, reports, reported, recorded>>
    BY <2>1 DEF GroupManagerStep, Handled
  <2>3. CASE h # g
    BY <2>1, <2>2, <2>3, GroupsAreNumbered DEF Handled
  <2>4. CASE h = g
    <3>1. /\ <<g, f>> \in results /\ f \notin received[g] /\ <<g, f>> \notin frames
          /\ reports[g] = 0 /\ reported[g] = {} /\ recorded[g] = {} /\ Pushed(g, f)
      BY <2>1, <2>4 DEF Handled
    <3>2. \A e \in Faces : <<g, e>> \in frames' \cup results' =>
              e # f /\ e \notin received[g] /\ Pushed(g, e)
      BY <2>1, <2>2, <2>4, <3>1 DEF Handled
    <3>3. CASE received[g] \cup {f} = Faces
      BY <2>1, <2>2, <2>4, <3>1, <3>2, <3>3 DEF Handled
    <3>4. CASE received[g] \cup {f} # Faces
      BY <2>1, <2>2, <2>4, <3>1, <3>2, <3>4, GroupsAreNumbered DEF Handled
    <3>5. QED BY <3>3, <3>4
  <2>5. QED BY <2>3, <2>4
<1>3. CASE PopNothing \/ CollectOverdue \/ CheckedOverdue \/ LoopTest
  <2>1. UNCHANGED <<frames, results, received, current, reports, reported, recorded, cam, seq,
                    gid, face>>
    BY <1>3 DEF GroupManagerStep, PopNothing, CollectOverdue, CheckedOverdue, LoopTest
  <2>2. gpc \notin {"report", "release"}
    BY <1>3 DEF PopNothing, CollectOverdue, CheckedOverdue, LoopTest
  <2>3. QED BY <2>1, <2>2, GroupsAreNumbered
<1>4. CASE Report
  BY <1>4, GroupsAreNumbered DEF GroupManagerStep, Report
<1>5. CASE Release
  BY <1>5, GroupsAreNumbered DEF GroupManagerStep, Release
<1>6. CASE FinalizeOverdue
  <2>1. PICK h \in due : TakeOut(h, received[h]) /\ timedOut' = timedOut \cup {h}
    BY <1>6 DEF FinalizeOverdue
  <2>2. h # g /\ current.id = NoGroup
    BY <1>6, <2>1 DEF FinalizeOverdue
  <2>3. QED BY <1>6, <2>1, <2>2, GroupsAreNumbered DEF GroupManagerStep, FinalizeOverdue
<1>7. QED BY <1>2, <1>3, <1>4, <1>5, <1>6 DEF GroupManagerStep, GmThread

LEMMA ExactStep == TypeInv /\ ExactInv /\ [Next]_vars => ExactInv'
<1> SUFFICES ASSUME TypeInv, ExactInv, [Next]_vars PROVE ExactInv'
    OBVIOUS
<1>1. CASE GroupManagerStep
  BY <1>1, ExactGm
<1>2. CASE ~GroupManagerStep
  <2>1. UNCHANGED <<received, current, gpc, timedOut, reports, reported, recorded>>
    BY <1>2 DEF Next, Camera, TakeToken, StageFails, BeginGroup, Snap, Push, NextFace, LeaveGroup,
       CamExit, Detect, Clock, Age, Stop, StopCamera, StopGroupManager, StopQueue, Joined, vars, gmVars
  <2> SUFFICES ASSUME NEW g \in Groups, g \notin timedOut, Exact(g) PROVE Exact(g)'
      BY <2>1 DEF ExactInv
  <2>2. Faces \subseteq Nat /\ face \in Faces /\ seq \in Nat /\ g \in Nat
    BY SizeAssumption DEF SizeAssumption, TypeInv, TypeOK, Faces, Groups
  <2> USE DEF Exact, Pushed
  <2>3. CASE TakeToken \/ StageFails \/ Snap \/ LeaveGroup \/ CamExit
    BY <2>1, <2>2, <2>3 DEF TakeToken, StageFails, Snap, LeaveGroup, CamExit, gmVars
  <2>4. CASE BeginGroup
    <3>1. \A f : Pushed(g, f) => Pushed(g, f)'
      BY <2>2, <2>4 DEF BeginGroup
    <3>2. UNCHANGED <<frames, results>>
      BY <2>4 DEF BeginGroup, gmVars
    <3> HIDE DEF Pushed
    <3>3. QED BY <2>1, <3>1, <3>2
  <2>5. CASE NextFace
    BY <2>1, <2>2, <2>5 DEF NextFace, gmVars
  <2>6. CASE Push
    <3>1. CASE qStop
      BY <2>1, <2>2, <2>6, <3>1 DEF Push, gmVars
    <3>2. CASE ~qStop
      <4>1. ~Pushed(gid, face)
        BY <2>2, <2>6 DEF Push
      <4>2. \A h, f : Pushed(h, f) /\ f \in Nat => Pushed(h, f)'
        BY <2>2, <2>6, <3>2 DEF Push
      <4>3. \A h, f : h = gid /\ f = face => Pushed(h, f)'
        BY <2>2, <2>6, <3>2 DEF Push, TypeInv
      <4>4. UNCHANGED results /\ frames' = frames \cup {<<gid, face>>}
        BY <2>6, <3>2 DEF Push, gmVars
      <4> HIDE DEF Pushed
      <4>5. \A f \in Faces : Pushed(g, f) => Pushed(g, f)'
        BY <2>2, <4>2
      <4>6. CASE g # gid
        BY <2>1, <4>4, <4>5, <4>6
      <4>7. CASE g = gid
        <5>1. /\ <<g, face>> \notin results /\ face \notin received[g]
              /\ current.id # g /\ reports[g] = 0
          BY <2>2, <4>1, <4>7
        <5>2. \A f \in Faces : <<g, f>> \in frames' => <<g, f>> \in frames \/ f = face
          BY <4>4, <4>7
        <5>3. ASSUME NEW f \in Faces
              PROVE  /\ <<g, f>> \in frames' \cup results =>
                          Pushed(g, f)' /\ f \notin received[g] /\ current.id # g /\ reports[g] = 0
                     /\ ~(<<g, f>> \in frames' /\ <<g, f>> \in results)
          <6>1. CASE f = face
            BY <4>3, <4>4, <4>7, <5>1, <6>1
          <6>2. CASE f # face
            <7>1. <<g, f>> \in frames' => <<g, f>> \in frames
              BY <5>2, <6>2
            <7>2. /\ <<g, f>> \in frames \cup results =>
                        Pushed(g, f)' /\ f \notin received[g] /\ current.id # g /\ reports[g] = 0
                  /\ ~(<<g, f>> \in frames /\ <<g, f>> \in results)
              BY <4>5
            <7> HIDE DEF Exact
            <7>3. QED BY <7>1, <7>2
          <6>3. QED BY <6>1, <6>2
        <5>4. QED BY <2>1, <4>4, <4>5, <5>1, <5>3
      <4>8. QED BY <4>6, <4>7
    <3>3. QED BY <3>1, <3>2
  <2>7. CASE Detect
    <3>1. PICK frame \in frames :
            /\ frames' = frames \ {frame}
            /\ results' = IF qStop THEN results ELSE results \cup {frame}
      BY <2>7 DEF Detect
    <3>2. UNCHANGED <<cam, seq, gid, face>>
      BY <2>7 DEF Detect
    <3>3. QED BY <2>1, <3>1, <3>2
  <2>8. CASE Clock \/ Stop \/ Joined \/ UNCHANGED vars
    BY <2>1, <2>8 DEF Clock, Age, Stop, StopCamera, StopGroupManager, StopQueue, Joined, vars,
       gmVars, camVars
  <2>9. QED BY <1>2, <2>3, <2>4, <2>5, <2>6, <2>7, <2>8 DEF Next, Camera
<1>3. QED BY <1>1, <1>2

LEMMA ExactAlways == Spec => []ExactInv
  BY ExactInit, ExactStep, TypeAlways, PTL DEF Spec

\* A group that did not time out is reported once, with all its faces and with nothing
\* left behind, and is recorded whole or not at all.
THEOREM UntimedExact == Spec => []UntimedGroupExact
<1>1. TypeInv /\ ExactInv => UntimedGroupExact
  <2> SUFFICES ASSUME TypeInv, ExactInv, NEW g \in Groups, g \notin timedOut
               PROVE  /\ reports[g] <= 1
                      /\ reports[g] = 1 => reported[g] = Faces /\ ~InFlight(g) /\ ~Open(g)
                      /\ recorded[g] \in {{}, Faces}
      BY DEF UntimedGroupExact
  <2>1. Exact(g) /\ received[g] \subseteq Faces
    BY DEF ExactInv, TypeInv, TypeOK, GmTypeOK
  <2>2. reports[g] \in {0, 1} /\ recorded[g] \in {{}, Faces}
        /\ (reports[g] = 1 => reported[g] = Faces)
    BY <2>1 DEF Exact
  <2>3. ASSUME reports[g] = 1 PROVE ~InFlight(g) /\ ~Open(g)
    <3>1. reports[g] # 0
      BY <2>3
    <3>2. \A f \in Faces : <<g, f>> \notin frames \cup results /\ f \notin received[g]
      BY <2>1, <3>1 DEF Exact
    <3>3. QED BY <2>1, <3>2 DEF InFlight, Open
  <2>4. QED BY <2>2, <2>3
<1>2. QED BY <1>1, ExactAlways, TypeAlways, PTL

-----------------------------------------------------------------------------
(* The token as back-pressure: as long as no group has timed out, all work *)
(* belongs to the loop's group, and the token is back only when that work  *)
(* is done and the last face was pushed.                                   *)

AllPushed == cam \notin {"shoot", "taken"} /\ (cam = "advance" => face = LastFace)

OneInv ==
    timedOut = {} =>
        /\ \A g \in Groups : Work(g) => g = gid
        /\ allow \/ cam = "stage" => AllPushed /\ \A g \in Groups : ~Work(g)
        /\ cam = "stage" => ~allow

\* Steps after which there is no new work, no token and no other place of the camera.
LEMMA OneQuiet ==
  ASSUME OneInv, timedOut' = {} => timedOut = {}, UNCHANGED <<allow, cam, face, gid>>,
         \A g \in Groups : Work(g)' => Work(g)
  PROVE  OneInv'
  BY DEF OneInv, AllPushed, LastFace

\* The group that Release ends was captured to its last face.
LEMMA FinishedIsPushed ==
  ASSUME TypeInv, ExactInv, OneInv, timedOut = {}, NEW g \in Groups, Finishing(g)
  PROVE  /\ g = gid /\ cam # "stage" /\ AllPushed
         /\ ~InFlight(g) /\ ~Open(g)
<1>1. g = gid /\ cam # "stage"
  BY DEF OneInv, Work
<1>2. Exact(g) /\ current.id = g
  BY DEF ExactInv, Finishing
<1>3. \A f \in Faces : Pushed(g, f)
  BY <1>2 DEF Exact
<1>4. LastFace \in Faces /\ face \in Faces /\ face \in Nat /\ \A f \in Faces : f <= LastFace
  BY SizeAssumption DEF SizeAssumption, Faces, LastFace, TypeInv, TypeOK
<1>5. Pushed(g, LastFace)
  BY <1>3, <1>4
<1>6. AllPushed
  BY <1>1, <1>4, <1>5, SizeAssumption DEF SizeAssumption, Pushed, AllPushed, LastFace
<1>7. received[g] \subseteq Faces
  BY DEF TypeInv, TypeOK, GmTypeOK
<1>8. QED BY <1>1, <1>2, <1>6, <1>7 DEF Exact, InFlight, Open

LEMMA OneGm == TypeInv /\ ExactInv /\ OneInv /\ GroupManagerStep => OneInv'
<1> SUFFICES ASSUME TypeInv, ExactInv, OneInv, GroupManagerStep PROVE OneInv'
    OBVIOUS
<1>1. CASE HandleResult
  <2>1. PICK h \in Groups, f \in Faces : Handled(h, f)
    BY <1>1, HandledFace
  <2>2. Work(h)
    BY <2>1 DEF Handled, Work, InFlight
  <2>3. ASSUME NEW g \in Groups, Work(g)' PROVE Work(g)
    <3>1. CASE g = h
      BY <2>2, <3>1
    <3>2. CASE g # h
      BY <2>1, <2>3, <3>2 DEF Handled, GroupManagerStep, camVars, TakeOut, Work, InFlight, Open,
         Finishing, TypeInv, TypeOK, GmTypeOK
    <3>3. QED BY <3>1, <3>2
  <2>4. QED BY <2>1, <2>3, OneQuiet DEF Handled, GroupManagerStep, camVars
<1>2. CASE PopNothing \/ CollectOverdue \/ CheckedOverdue \/ LoopTest \/ Report
  <2>1. UNCHANGED <<cam, face, gid, allow, timedOut, frames, results, received, current>>
    BY <1>2 DEF GroupManagerStep, camVars, PopNothing, CollectOverdue, CheckedOverdue, LoopTest,
       Report
  <2>2. QED BY <2>1, OneQuiet DEF Work, InFlight, Open, Finishing
<1>3. CASE Release
  <2> SUFFICES ASSUME timedOut = {}
               PROVE  /\ \A g \in Groups : ~Work(g)'
                      /\ AllPushed' /\ cam' # "stage"
      BY <1>3 DEF Release, OneInv
  <2>1. current.id \in Groups /\ Finishing(current.id)
    BY <1>3 DEF Release, TypeInv, TypeOK, GmTypeOK, Finishing
  <2>2. /\ current.id = gid /\ cam # "stage" /\ AllPushed
        /\ ~InFlight(current.id) /\ ~Open(current.id)
    BY <2>1, FinishedIsPushed
  <2>3. AllPushed' /\ cam' # "stage"
    BY <2>2 DEF AllPushed, LastFace, GroupManagerStep, camVars
  <2>4. \A g \in Groups : InFlight(g) \/ Open(g) => g = gid
    BY DEF OneInv, Work
  <2>5. \A g \in Groups : ~InFlight(g) /\ ~Open(g)
    BY <2>2, <2>4
  <2>6. UNCHANGED <<frames, results, received>> /\ current'.id = NoGroup
    BY <1>3 DEF Release, GroupManagerStep, camVars
  <2>7. QED BY <2>3, <2>5, <2>6, GroupsAreNumbered DEF Work, InFlight, Open, Finishing
<1>4. CASE FinalizeOverdue
  BY <1>4 DEF FinalizeOverdue, OneInv
<1>5. QED BY <1>1, <1>2, <1>3, <1>4 DEF GroupManagerStep, GmThread

LEMMA OneStep == TypeInv /\ ExactInv /\ OneInv /\ [Next]_vars => OneInv'
<1> SUFFICES ASSUME TypeInv, ExactInv, OneInv, [Next]_vars PROVE OneInv'
    OBVIOUS
<1>1. CASE GroupManagerStep
  BY <1>1, OneGm
<1>2. CASE TakeToken \/ StageFails \/ BeginGroup \/ Snap \/ NextFace \/ LeaveGroup \/ CamExit
  <2>1. UNCHANGED <<frames, results, received, current, timedOut>>
    BY <1>2 DEF TakeToken, StageFails, BeginGroup, Snap, NextFace, LeaveGroup, CamExit, gmVars
  <2>2. \A g \in Groups : Work(g)' = Work(g)
    BY <2>1 DEF Work, InFlight, Open, Finishing
  <2> HIDE DEF Work
  <2>3. face \in Faces /\ LastFace \in Nat
    BY SizeAssumption DEF SizeAssumption, LastFace, TypeInv, TypeOK
  <2>4. CASE TakeToken \/ StageFails
    BY <2>1, <2>2, <2>4 DEF TakeToken, StageFails, OneInv, AllPushed, LastFace
  <2>5. CASE BeginGroup
    BY <2>1, <2>2, <2>5 DEF BeginGroup, gmVars, OneInv
  <2>6. CASE Snap \/ LeaveGroup \/ CamExit
    BY <2>1, <2>2, <2>6 DEF Snap, LeaveGroup, CamExit, gmVars, OneInv, AllPushed, LastFace
  <2>7. CASE NextFace
    <3>1. timedOut = {} => ~allow
      BY <2>3, <2>7 DEF NextFace, OneInv, AllPushed, Faces
    <3>2. QED BY <2>1, <2>2, <2>7, <3>1 DEF NextFace, gmVars, OneInv
  <2>8. QED BY <1>2, <2>4, <2>5, <2>6, <2>7
<1>3. CASE Push
  <2>1. UNCHANGED <<results, received, current, timedOut, allow, gid, face>> /\ cam = "taken"
    BY <1>3 DEF Push, gmVars
  <2>2. \A g \in Groups : Work(g)' => Work(g) \/ g = gid
    BY <1>3, <2>1 DEF Push, Work, InFlight, Open, Finishing
  <2>3. cam' # "stage" /\ (timedOut = {} => ~allow)
    BY <1>3, <2>1 DEF Push, OneInv, AllPushed
  <2> HIDE DEF Work
  <2>4. QED BY <2>1, <2>2, <2>3 DEF OneInv
<1>4. CASE Detect
  <2>1. PICK frame \in frames :
          /\ frames' = frames \ {frame}
          /\ results' = IF qStop THEN results ELSE results \cup {frame}
    BY <1>4 DEF Detect
  <2>2. \A g \in Groups : Work(g)' => Work(g)
    BY <1>4, <2>1 DEF Detect, Work, InFlight, Open, Finishing
  <2>3. QED BY <1>4, <2>2, OneQuiet DEF Detect
<1>5. CASE Clock \/ Stop \/ Joined \/ UNCHANGED vars
  <2>1. UNCHANGED <<cam, face, gid, allow, timedOut, frames, results, received, current>>
    BY <1>5 DEF Clock, Age, Stop, StopCamera, StopGroupManager, StopQueue, Joined, vars, gmVars,
       camVars
  <2>2. QED BY <2>1, OneQuiet DEF Work, InFlight, Open, Finishing
<1>6. QED BY <1>1, <1>2, <1>3, <1>4, <1>5 DEF Next, Camera

\* As long as nothing times out, the token keeps all of camera, queues, workers and
\* group manager on one group, so what the unbounded queues hold is FaceCount items.
THEOREM OneGroupUnderWay == Spec => []BackPressure
<1>1. Init => OneInv
  BY GroupsAreNumbered DEF Init, GmInit, OneInv, Work, InFlight, Open, Finishing, AllPushed
<1>2. OneInv => BackPressure
  BY DEF OneInv, BackPressure, Outstanding, Capturing, Work
<1>3. Spec => []OneInv
  BY <1>1, OneStep, TypeAlways, ExactAlways, PTL DEF Spec
<1>4. QED BY <1>2, <1>3, PTL

-----------------------------------------------------------------------------
(* Every face, of groups that time out too: from the camera to the report  *)
(* it is in one place, and it leaves its place for the next one only.      *)

Reporting(g) == IF gpc = "report" /\ current.id = g THEN current.faces ELSE {}

\* The faces of a group that are somewhere between the camera and the repository.
Held(g) ==
    {f \in Faces : \/ <<g, f>> \in frames \cup results
                   \/ f \in received[g] \cup Reporting(g) \cup reported[g]}

FaceOnce(g, f) ==
    /\ f \in Held(g) => Pushed(g, f)
    /\ <<g, f>> \in frames =>
          <<g, f>> \notin results /\ f \notin received[g] \cup Reporting(g) \cup reported[g]
    /\ <<g, f>> \in results => f \notin received[g] \cup Reporting(g) \cup reported[g]
    /\ f \in received[g] => f \notin Reporting(g) \cup reported[g]
    /\ f \in Reporting(g) => f \notin reported[g]

\* A captured face is with the workers, in the result queue, with its group or in its
\* report, and in one of them only: a group that is reported again after its timeout
\* (group_manager.cpp:47) is reported with other faces, and the duplicates that
\* handleResult ignores do not come.
EveryFaceOnce == \A g \in Groups, f \in Faces : FaceOnce(g, f)

\* Before the queue is stopped no step of anybody loses a face.
NoFaceLost == [][~qStop => \A g \in Groups : Held(g) \subseteq Held(g)']_vars

LEMMA OnceGm == TypeInv /\ EveryFaceOnce /\ GroupManagerStep => EveryFaceOnce'
<1> SUFFICES ASSUME TypeInv, EveryFaceOnce, GroupManagerStep, NEW g \in Groups, NEW f \in Faces
             PROVE  FaceOnce(g, f)'
    BY DEF EveryFaceOnce
<1> USE DEF TypeInv, TypeOK, GmTypeOK, camVars, TakeOut, Held, Reporting
<1>1. FaceOnce(g, f)
  BY DEF EveryFaceOnce
<1>2. UNCHANGED <<frames, cam, seq, gid, face>> /\ (Pushed(g, f) => Pushed(g, f)')
  BY DEF GroupManagerStep, Pushed
<1>3. CASE HandleResult
  <2>1. PICK h \in Groups, e \in Faces : Handled(h, e)
    BY <1>3, HandledFace
  <2>2. UNCHANGED reported /\ gpc = "pop"
    BY <2>1 DEF Handled
  <2>3. CASE h # g
    BY <1>1, <1>2, <2>1, <2>2, <2>3 DEF Handled, FaceOnce
  <2>4. CASE h = g
    <3>1. FaceOnce(g, e)
      BY DEF EveryFaceOnce
    <3>2. <<g, e>> \in results /\ results' = results \ {<<g, e>>}
      BY <2>1, <2>4 DEF Handled
    <3>3. CASE received[g] \cup {e} = Faces /\ e \notin received[g]
      <4>1. Reporting(g)' = received[g] \cup {e} /\ received'[g] = {}
        BY <2>1, <2>4, <3>3 DEF Handled
      <4>2. QED BY <1>1, <1>2, <2>2, <3>1, <3>2, <4>1 DEF FaceOnce
    <3>4. CASE ~(received[g] \cup {e} = Faces /\ e \notin received[g])
      <4>1. Reporting(g)' = {} /\ received'[g] = received[g] \cup {e}
        BY <2>1, <2>4, <3>4 DEF Handled
      <4>2. QED BY <1>1, <1>2, <2>2, <3>1, <3>2, <4>1 DEF FaceOnce
    <3>5. QED BY <3>3, <3>4
  <2>5. QED BY <2>3, <2>4
<1>4. CASE PopNothing \/ CollectOverdue \/ CheckedOverdue \/ LoopTest \/ Release
  <2>1. UNCHANGED <<results, received, reported>> /\ Reporting(g) = {} /\ Reporting(g)' = {}
    BY <1>4 DEF PopNothing, CollectOverdue, CheckedOverdue, LoopTest, Release
  <2>2. QED BY <1>1, <1>2, <2>1 DEF FaceOnce
<1>5. CASE Report
  <2>1. UNCHANGED <<results, received>> /\ Reporting(g)' = {}
    BY <1>5 DEF Report
  <2>2. reported'[g] = reported[g] \cup Reporting(g)
    BY <1>5 DEF Report
  <2>3. QED BY <1>1, <1>2, <2>1, <2>2 DEF FaceOnce
<1>6. CASE FinalizeOverdue
  <2>1. PICK h \in due : TakeOut(h, received[h])
    BY <1>6 DEF FinalizeOverdue
  <2>2. UNCHANGED <<results, reported>> /\ Reporting(g) = {} /\ h \in Groups
    BY <1>6, <2>1 DEF FinalizeOverdue
  <2>3. \/ UNCHANGED received[g] /\ Reporting(g)' = {}
        \/ received'[g] = {} /\ Reporting(g)' = received[g]
    BY <1>6, <2>1, <2>2 DEF FinalizeOverdue
  <2>4. QED BY <1>1, <1>2, <2>2, <2>3 DEF FaceOnce
<1>7. QED BY <1>3, <1>4, <1>5, <1>6 DEF GroupManagerStep, GmThread

LEMMA OnceStep == TypeInv /\ EveryFaceOnce /\ [Next]_vars => EveryFaceOnce'
<1> SUFFICES ASSUME TypeInv, EveryFaceOnce, [Next]_vars, ~GroupManagerStep,
                    NEW g \in Groups, NEW f \in Faces
             PROVE  FaceOnce(g, f)'
    BY OnceGm DEF EveryFaceOnce
<1>1. FaceOnce(g, f)
  BY DEF EveryFaceOnce
<1>2. UNCHANGED <<received, current, gpc, reported>> /\ UNCHANGED Reporting(g)
  BY DEF Next, Camera, TakeToken, StageFails, BeginGroup, Snap, Push, NextFace, LeaveGroup,
     CamExit, Detect, Clock, Age, Stop, StopCamera, StopGroupManager, StopQueue, Joined, vars,
     gmVars, Reporting
<1>3. Faces \subseteq Nat /\ face \in Faces /\ seq \in Nat /\ g \in Nat
  BY SizeAssumption DEF SizeAssumption, TypeInv, TypeOK, Faces, Groups
<1>4. CASE TakeToken \/ StageFails \/ BeginGroup \/ Snap \/ LeaveGroup \/ CamExit \/ NextFace
  <2>1. UNCHANGED <<frames, results>>
    BY <1>4 DEF TakeToken, StageFails, BeginGroup, Snap, LeaveGroup, CamExit, NextFace, gmVars
  <2>2. Pushed(g, f) => Pushed(g, f)'
    BY <1>3, <1>4 DEF TakeToken, StageFails, BeginGroup, Snap, LeaveGroup, CamExit, NextFace, Pushed
  <2>3. QED BY <1>1, <1>2, <2>1, <2>2 DEF FaceOnce, Held
<1>5. CASE Push
  <2>1. UNCHANGED results
    BY <1>5 DEF Push, gmVars
  <2>2. Pushed(g, f) => Pushed(g, f)'
    BY <1>3, <1>5 DEF Push, Pushed
  <2>3. CASE g = gid /\ f = face /\ ~qStop
    <3>1. ~Pushed(g, f) /\ Pushed(g, f)'
      BY <1>3, <1>5, <2>3 DEF Push, Pushed, TypeInv
    <3>2. QED BY <1>1, <1>2, <2>1, <3>1 DEF FaceOnce, Held
  <2>4. CASE ~(g = gid /\ f = face /\ ~qStop)
    <3>1. <<g, f>> \in frames' <=> <<g, f>> \in frames
      BY <1>5, <2>4 DEF Push
    <3>2. QED BY <1>1, <1>2, <2>1, <2>2, <3>1 DEF FaceOnce, Held
  <2>5. QED BY <2>3, <2>4
<1>6. CASE Detect
  <2>1. PICK frame \in frames :
          /\ frames' = frames \ {frame}
          /\ results' = IF qStop THEN results ELSE results \cup {frame}
    BY <1>6 DEF Detect
  <2>2. Pushed(g, f) => Pushed(g, f)'
    BY <1>6 DEF Detect, Pushed
  <2>3. QED BY <1>1, <1>2, <2>1, <2>2 DEF FaceOnce, Held
<1>7. CASE Clock \/ Stop \/ Joined \/ UNCHANGED vars
  <2>1. UNCHANGED <<frames, results, cam, seq, gid, face>>
    BY <1>7 DEF Clock, Age, Stop, StopCamera, StopGroupManager, StopQueue, Joined, vars, gmVars,
       camVars
  <2>2. QED BY <1>1, <1>2, <2>1 DEF FaceOnce, Held, Pushed
<1>8. QED BY <1>4, <1>5, <1>6, <1>7 DEF Next, Camera

\* No face is at two places or reported twice, whatever times out and whenever the
\* results come.
THEOREM FacesOnce == Spec => []EveryFaceOnce
<1>1. Init => EveryFaceOnce
  BY DEF Init, GmInit, EveryFaceOnce, FaceOnce, Held, Reporting
<1>2. QED BY <1>1, OnceStep, TypeAlways, PTL DEF Spec

\* While the queue is open, what the camera has pushed stays on its way or is reported.
THEOREM FacesKept == Spec => NoFaceLost
<1>1. ASSUME TypeInv, [Next]_vars, ~qStop, NEW g \in Groups, NEW f \in Held(g)
      PROVE  f \in Held(g)'
  <2> USE DEF Held, Reporting
  <2> f \in Faces
    BY <1>1
  <2>1. CASE GroupManagerStep
    <3> USE <1>1 DEF TypeInv, TypeOK, GmTypeOK, camVars, TakeOut
    <3>1. CASE HandleResult
      <4>1. PICK h \in Groups, e \in Faces : Handled(h, e)
        BY <3>1, HandledFace
      <4>2. QED BY <2>1, <4>1 DEF GroupManagerStep, Handled
    <3>2. CASE PopNothing \/ CollectOverdue \/ CheckedOverdue \/ LoopTest \/ Release
      BY <2>1, <3>2 DEF GroupManagerStep, PopNothing, CollectOverdue, CheckedOverdue, LoopTest,
         Release
    <3>3. CASE Report
      BY <2>1, <3>3 DEF GroupManagerStep, Report
    <3>4. CASE FinalizeOverdue
      BY <2>1, <3>4 DEF GroupManagerStep, FinalizeOverdue
    <3>5. QED BY <2>1, <3>1, <3>2, <3>3, <3>4 DEF GroupManagerStep, GmThread
  <2>2. CASE Detect
    BY <1>1, <2>2 DEF Detect
  <2>3. CASE Push
    BY <1>1, <2>3 DEF Push, gmVars
  <2>4. CASE TakeToken \/ StageFails \/ BeginGroup \/ Snap \/ LeaveGroup \/ CamExit \/ NextFace
    BY <1>1, <2>4 DEF TakeToken, StageFails, BeginGroup, Snap, LeaveGroup, CamExit, NextFace, gmVars
  <2>5. CASE Clock \/ Stop \/ Joined \/ UNCHANGED vars
    BY <1>1, <2>5 DEF Clock, Age, Stop, StopCamera, StopGroupManager, StopQueue, Joined, vars,
       gmVars, camVars
  <2>6. QED BY <1>1, <2>1, <2>2, <2>3, <2>4, <2>5 DEF Next, Camera
<1>2. TypeInv /\ [Next]_vars => [~qStop => \A g \in Groups : Held(g) \subseteq Held(g)']_vars
  BY <1>1
<1>3. QED BY <1>2, TypeAlways, PTL DEF Spec, NoFaceLost
=============================================================================
