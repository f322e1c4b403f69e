------------------------- MODULE InspectionRecords -------------------------
(***************************************************************************)
(* What README.md:479 promises of the repository: a workpiece's group,     *)
(* faces and defects are written transactionally.  A reader of the         *)
(* database finds, for each group of each run, no record or a whole one,   *)
(* and only a save changes it, in one step.                                *)
(***************************************************************************)
EXTENDS Naturals

CONSTANTS
    Runs, Groups,   \* run_id, group_id
    FaceCount,      \* kQuadImageCount
    Defects         \* what a detection may be

Keys  == Runs \X Groups
Faces == 0..FaceCount-1

\* A QuadFrameResult: whether each face was processed, and its detections.
Results == [Faces -> [ok : BOOLEAN, found : SUBSET Defects]]

VARIABLE records

NoRecord == [saved |-> FALSE, good |-> FALSE, faces |-> [f \in Faces |-> {}]]

\* GOOD needs four faces that were processed and are free of defects.
Whole(result) ==
    [saved |-> TRUE,
     good  |-> \A f \in Faces : result[f].ok /\ result[f].found = {},
     faces |-> [f \in Faces |-> result[f].found]]

Init == records = [k \in Keys |-> NoRecord]

Save(k, result) == records' = [records EXCEPT ![k] = Whole(result)]

Next == \E k \in Keys, result \in Results : Save(k, result)

Spec == Init /\ [][Next]_records
=============================================================================
