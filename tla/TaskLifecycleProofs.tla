------------------------ MODULE TaskLifecycleProofs -------------------------
(***************************************************************************)
(* What TaskLifecycle promises for every number of detection threads and   *)
(* of workpieces: acquisition waits for the models, a request leaves       *)
(* nothing half done, and a camera object never numbers two groups alike.  *)
(***************************************************************************)
EXTENDS TaskLifecycle, FiniteSetTheorems, TLAPS

AllSet == \A w \in Workers : worker[w] = "ready"

\* What holds at each step of a request.
Steps ==
    /\ hpc = "spawn" =>
        worker = NoWorkers /\ camera \in {"none", "idle"} /\ ~running /\ hasTask
    /\ hpc = "await" => camera = "idle" /\ ~running /\ ~halted /\ hasTask
    /\ hpc = "device" => AllSet /\ camera = "idle" /\ ~running /\ ~halted /\ hasTask
    /\ hpc \in {"stop", "join"} => camera \in {"idle", "task"}
    /\ hpc \in {"stop", "join"} => (hasTask <=> next = "spawn")
    /\ hpc = "capture" =>
        worker = NoWorkers /\ camera = "temporary" /\ ~running /\ ~hasTask

\* A camera at work for a task has all its workers, until the stop sends them off.
AtWork ==
    camera = "task" => hpc \in {"idle", "stop", "join"} /\ (hpc # "join" => AllSet /\ ~halted)

\* The object's next number is fresh in this run, unless an earlier object used it.
Numbering ==
    /\ sequence <= piece + 1
    /\ ~released => \A id \in Pieces : id >= sequence => rows[id] = {}
    /\ ~released => \A id \in Pieces : rows[id] = {} \/ \E p \in Pieces : rows[id] = {p}

Inv == TypeOK /\ Steps /\ AtRest /\ AtWork /\ Numbering

States == TypeOK /\ Steps /\ AtRest /\ AtWork

-----------------------------------------------------------------------------
\* The invariant holds when the program starts.
LEMMA InvInit == Init => Inv
<1> SUFFICES ASSUME Init PROVE Inv
    OBVIOUS
<1>1. TypeOK
    <2>1. 1 \in 1..MaxPieces+1 /\ 0 \in 0..MaxPieces
        BY CountAssumption DEF CountAssumption
    <2>2. worker \in [Workers -> WorkerStates] /\ rows \in [Pieces -> SUBSET Pieces]
        BY DEF Init, NoWorkers, WorkerStates
    <2> QED BY <2>1, <2>2, Zenon DEF Init, TypeOK, CameraStates, HttpStates
<1>2. Steps BY DEF Init, Steps
<1>3. AtRest BY DEF Init, AtRest
<1>4. AtWork BY DEF Init, AtWork
<1>5. Numbering BY CountAssumption DEF CountAssumption, Init, Numbering, Pieces
<1> QED BY <1>1, <1>2, <1>3, <1>4, <1>5 DEF Inv

\* No request of a client breaks the part of it that is not about numbers.
LEMMA StatesRequest == Inv /\ Request => States'
<1> SUFFICES ASSUME Inv, Request PROVE States'
    OBVIOUS
<1> USE DEF Inv, States, TypeOK, Steps, AtRest, AtWork, AllSet, CameraStates,
            HttpStates, Http, DestroyCamera
<1> USE CountAssumption DEF CountAssumption
<1>1. CASE ControlAdd BY <1>1 DEF ControlAdd
<1>2. CASE ControlCancel BY <1>2 DEF ControlCancel
<1>3. CASE SingleStarts BY <1>3 DEF SingleStarts
<1>4. CASE SingleStartFails BY <1>4 DEF SingleStartFails
<1>5. CASE CameraStop BY <1>5 DEF CameraStop
<1> QED BY <1>1, <1>2, <1>3, <1>4, <1>5 DEF Request

\* Nor does a step the HTTP thread takes on its own.
LEMMA StatesProceed == Inv /\ Proceed => States'
<1> SUFFICES ASSUME Inv, Proceed PROVE States'
    OBVIOUS
<1> USE DEF Inv, States, TypeOK, Steps, AtRest, AtWork, AllSet, CameraStates,
            HttpStates, WorkerStates, Http, NoWorkers
<1> USE CountAssumption DEF CountAssumption
<1>1. CASE Spawn BY <1>1 DEF Spawn
<1>2. CASE AllReady BY <1>2 DEF AllReady
<1>3. CASE SomeFailed BY <1>3 DEF SomeFailed
<1>4. CASE DeviceStarts BY <1>4 DEF DeviceStarts
<1>5. CASE DeviceFails BY <1>5 DEF DeviceFails
<1>6. CASE Halt BY <1>6 DEF Halt
<1>7. CASE Join BY <1>7 DEF Join
<1>8. CASE SingleEnds BY <1>8 DEF SingleEnds, DestroyCamera
<1> QED BY <1>1, <1>2, <1>3, <1>4, <1>5, <1>6, <1>7, <1>8 DEF Proceed

\* Nor do the other threads.
LEMMA StatesThreads ==
    Inv /\ (Inspect \/ \E w \in Workers : Configure(w) \/ EndWorker(w)) => States'
<1> SUFFICES ASSUME Inv, Inspect \/ \E w \in Workers : Configure(w) \/ EndWorker(w)
             PROVE States'
    OBVIOUS
<1> USE DEF Inv, States, TypeOK, Steps, AtRest, AtWork, AllSet, WorkerStates, NoWorkers
<1>1. CASE Inspect BY <1>1, CountAssumption DEF CountAssumption, Inspect, Numbering, Pieces
<1>2. ASSUME NEW w \in Workers, Configure(w) PROVE States' BY <1>2 DEF Configure
<1>3. ASSUME NEW w \in Workers, EndWorker(w) PROVE States' BY <1>3 DEF EndWorker
<1> QED BY <1>1, <1>2, <1>3

\* Only Inspect writes a row, under a number it then leaves behind; only the end
\* of a camera object turns the numbers back, and it is remembered.
LEMMA NumberingStep == Inv /\ Next => Numbering'
<1> SUFFICES ASSUME Inv, Next PROVE Numbering'
    OBVIOUS
<1> USE DEF Inv, TypeOK, Numbering
<1>1. CASE UNCHANGED <<sequence, piece, rows, released>> BY <1>1
<1>2. CASE DestroyCamera /\ UNCHANGED <<piece, rows>>
    <2>1. sequence' = 1 /\ sequence' <= piece' + 1 BY <1>2 DEF DestroyCamera
    <2>2. ASSUME ~released' PROVE ~released /\ sequence = 1
        <3>1. ~released /\ ~(sequence > 1) BY <1>2, <2>2, Zenon DEF DestroyCamera
        <3> QED BY <3>1
    <2>3. rows' = rows BY <1>2
    <2> QED BY <2>1, <2>2, <2>3
<1>3. CASE Inspect
    <2> USE <1>3, CountAssumption DEF CountAssumption, Inspect
    <2>1. sequence \in Pieces /\ piece + 1 \in Pieces BY DEF Pieces
    <2>2. ASSUME NEW id \in Pieces, ~released
          PROVE /\ id >= sequence' => rows'[id] = {}
                /\ rows'[id] = {} \/ \E p \in Pieces : rows'[id] = {p}
        <3>1. CASE id = sequence
            <4>1. rows'[id] = {piece + 1} BY <2>1, <2>2, <3>1
            <4> QED BY <2>1, <3>1, <4>1 DEF Pieces
        <3>2. CASE id # sequence
            <4>1. rows'[id] = rows[id] BY <2>1, <2>2, <3>2
            <4> QED BY <2>1, <2>2, <3>2, <4>1 DEF Pieces
        <3> QED BY <3>1, <3>2
    <2>3. released' = released /\ sequence' <= piece' + 1 OBVIOUS
    <2> QED BY <2>2, <2>3
<1>4. ASSUME Request PROVE Numbering'
    BY <1>1, <1>2, <1>4 DEF Request, ControlAdd, ControlCancel, SingleStarts,
        SingleStartFails, CameraStop
<1>5. ASSUME Proceed PROVE Numbering'
    BY <1>1, <1>2, <1>5 DEF Proceed, Spawn, AllReady, SomeFailed, DeviceStarts,
        DeviceFails, Halt, Join, SingleEnds
<1>6. ASSUME NEW w \in Workers, Configure(w) \/ EndWorker(w) PROVE Numbering'
    BY <1>1, <1>6 DEF Configure, EndWorker
<1> QED BY <1>3, <1>4, <1>5, <1>6 DEF Next

\* Inv is an invariant of the specification.
LEMMA Invariance == Spec => []Inv
<1>1. Inv /\ [Next]_vars => Inv'
    <2> SUFFICES ASSUME Inv, [Next]_vars PROVE Inv'
        OBVIOUS
    <2>1. CASE Next
        <3>1. States' BY <2>1, StatesRequest, StatesProceed, StatesThreads DEF Next
        <3>2. Numbering' BY <2>1, NumberingStep
        <3> QED BY <3>1, <3>2 DEF States, Inv
    <2>2. CASE UNCHANGED vars
        BY <2>2 DEF vars, Inv, TypeOK, Steps, AtRest, AtWork, AllSet, Numbering
    <2> QED BY <2>1, <2>2
<1> QED BY <1>1, InvInit, PTL DEF Spec

-----------------------------------------------------------------------------
\* The states of the request, the camera and the workers are the declared ones, and
\* the rows of a run stay within its pieces, for every number of both.
THEOREM TypeCorrect == Spec => []TypeOK
<1>1. Inv => TypeOK BY DEF Inv
<1> QED BY <1>1, Invariance, PTL

\* No camera works for a task before every model is loaded: Scheduler.cpp:65-73
\* comes before 96-106 on every path, restarts included.
THEOREM ModelsFirst == Spec => []ReadyBeforeAcquisition
<1>1. Inv => ReadyBeforeAcquisition BY DEF Inv, AtWork, AllSet, ReadyBeforeAcquisition
<1> QED BY <1>1, Invariance, PTL

\* A request leaves a complete task or nothing: the rollback of a failed start
\* and the release of a borrowed camera reach every path.
THEOREM NothingHalfDone == Spec => []AtRest
<1>1. Inv => AtRest BY DEF Inv
<1> QED BY <1>1, Invariance, PTL

\* As long as no camera object that numbered groups is destroyed, a run's rows
\* hold one workpiece each, over any number of tasks.
THEOREM RowsKept == Spec => []KeptCameraKeepsRows
<1>1. Inv => KeptCameraKeepsRows
    <2> SUFFICES ASSUME Inv, ~released, NEW id \in Pieces
                 PROVE Cardinality(rows[id]) <= 1
        BY DEF KeptCameraKeepsRows
    <2>1. CASE rows[id] = {} BY <2>1, FS_EmptySet
    <2>2. ASSUME NEW p \in Pieces, rows[id] = {p} PROVE Cardinality(rows[id]) <= 1
        <3>1. Cardinality({p}) = 1 BY FS_Singleton
        <3> QED BY <2>2, <3>1
    <2> QED BY <2>1, <2>2 DEF Inv, Numbering
<1> QED BY <1>1, Invariance, PTL
=============================================================================
