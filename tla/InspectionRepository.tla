------------------------ MODULE InspectionRepository ------------------------
(***************************************************************************)
(* Core/inspection_repository.cpp on Core/sqlite_helper.cpp: how a group   *)
(* result becomes rows of three tables, statement by statement, with       *)
(* statements that fail and a process that dies between them.              *)
(*                                                                         *)
(* SQLite is modelled from its use: a transaction works on a copy of the   *)
(* tables, which COMMIT puts in place of the committed ones at once and    *)
(* which is gone when the connection is closed, or the process dies, first.*)
(* Paths, sizes and time stamps of the rows are left out.                  *)
(***************************************************************************)
EXTENDS Naturals

CONSTANTS
    Runs, Groups,   \* run_id, group_id
    FaceCount,      \* kQuadImageCount
    Defects         \* what a detection may be

ASSUME FaceCountAssumption == FaceCount \in Nat \ {0}

Keys  == Runs \X Groups     \* UNIQUE(run_id, group_id)
Faces == 0..FaceCount-1

Results == [Faces -> [ok : BOOLEAN, found : SUBSET Defects]]

VARIABLES
    disk,       \* the committed tables
    work,       \* the tables as the connection sees them
    run,        \* RuntimeState::run_id
    pc,         \* where the group manager's thread is in save
    key,        \* the group to save: run and group id
    result,     \* group_result
    face,       \* i of the loop over the faces
    row,        \* face_id
    todo,       \* detections of this face still to be inserted
    answer      \* what the last save returned

vars == <<disk, work, run, pc, key, result, face, row, todo, answer>>

Statuses == {"none", "GOOD", "NG"}
SaveStates == {"down", "idle", "group", "face", "clear", "defects"}

\* runs: inspection_runs; status: inspection_groups, "none" when there is no row;
\* faceId: the face_id of the row in inspection_faces, 0 when there is none;
\* defects: pairs <<face_id, detection>>; next: the AUTOINCREMENT of face_id.
Databases ==
    [runs : SUBSET Runs, status : [Keys -> Statuses],
     faceId : [Keys -> [Faces -> Nat]], defects : SUBSET (Nat \X Defects),
     next : Nat \ {0}]

TypeOK ==
    /\ disk \in Databases /\ work \in Databases
    /\ run \in Runs
    /\ pc \in SaveStates
    /\ key \in Keys
    /\ result \in Results
    /\ face \in 0..FaceCount
    /\ row \in Nat
    /\ todo \subseteq Defects
    /\ answer \in BOOLEAN

EmptyTables ==
    [runs |-> {}, status |-> [k \in Keys |-> "none"],
     faceId |-> [k \in Keys |-> [f \in Faces |-> 0]], defects |-> {}, next |-> 1]

Init ==
    /\ disk = EmptyTables /\ work = EmptyTables
    /\ run \in Runs
    /\ pc = "down"
    /\ key \in Keys
    /\ result = [f \in Faces |-> [ok |-> FALSE, found |-> {}]]
    /\ face = 0 /\ row = 0 /\ todo = {}
    /\ answer = FALSE

-----------------------------------------------------------------------------
\* save: is_ng, then the status it stands for.
StatusIgnoresFailed(r) ==   \* mutant: a face that was not processed is no NG
    IF \E f \in Faces : r[f].found # {} THEN "NG" ELSE "GOOD"

StatusMisspelt(r) ==        \* mutant: a status that is none of the CHECK
    IF \E f \in Faces : ~r[f].ok \/ r[f].found # {} THEN "BAD" ELSE "GOOD"

StatusOf(r) ==
    IF \E f \in Faces : ~r[f].ok \/ r[f].found # {} THEN "NG" ELSE "GOOD"

\* main: the tables are there (CREATE IF NOT EXISTS), the run is registered.  Its
\* name is the local time in seconds, so it may be one that was used before.
Boot ==
    /\ pc = "down" /\ pc' = "idle"
    /\ run' \in Runs
    /\ disk' = [disk EXCEPT !.runs = @ \cup {run'}]
    /\ work' = disk'
    /\ UNCHANGED <<key, result, face, row, todo, answer>>

\* A connection of its own for each save, and BEGIN.
Begin(g, r) ==
    /\ pc = "idle" /\ pc' = "group"
    /\ key' = <<run, g>>
    /\ result' = r
    /\ answer' = FALSE
    /\ UNCHANGED <<disk, work, run, face, row, todo>>

\* The foreign key on run_id is enforced.
UpsertGroup ==
    /\ pc = "group" /\ pc' = "face"
    /\ key[1] \in work.runs
    /\ work' = [work EXCEPT !.status[key] = StatusOf(result)]
    /\ face' = 0
    /\ UNCHANGED <<disk, run, key, result, row, todo, answer>>

NewRow == work.faceId[key][face] = 0

UpsertFaceLastId ==     \* mutant: last_insert_rowid instead of the SELECT
    /\ pc = "face" /\ face < FaceCount /\ pc' = "clear"
    /\ work' = IF NewRow
               THEN [work EXCEPT !.faceId[key][face] = work.next, !.next = @ + 1]
               ELSE work
    /\ row' = work'.next - 1
    /\ UNCHANGED <<disk, run, key, result, face, todo, answer>>

\* An updated row keeps its face_id, and the SELECT after the upsert reads it.
UpsertFace ==
    /\ pc = "face" /\ face < FaceCount /\ pc' = "clear"
    /\ work' = IF NewRow
               THEN [work EXCEPT !.faceId[key][face] = work.next, !.next = @ + 1]
               ELSE work
    /\ row' = work'.faceId[key][face]
    /\ UNCHANGED <<disk, run, key, result, face, todo, answer>>

\* replaceDefects: DELETE ...
ClearDefects ==
    /\ pc = "clear" /\ pc' = "defects"
    /\ work' = [work EXCEPT !.defects = {d \in @ : d[1] # row}]
    /\ todo' = result[face].found
    /\ UNCHANGED <<disk, run, key, result, face, row, answer>>

\* ... and an INSERT for each detection.
InsertDefect ==
    /\ pc = "defects"
    /\ \E d \in todo :
        /\ work' = [work EXCEPT !.defects = @ \cup {<<row, d>>}]
        /\ todo' = todo \ {d}
    /\ UNCHANGED <<disk, run, pc, key, result, face, row, answer>>

NextFace ==
    /\ pc = "defects" /\ todo = {} /\ pc' = "face"
    /\ face' = face + 1
    /\ UNCHANGED <<disk, work, run, key, result, row, todo, answer>>

Commit ==
    /\ pc = "face" /\ face = FaceCount /\ pc' = "idle"
    /\ disk' = work
    /\ answer' = TRUE
    /\ UNCHANGED <<work, run, key, result, face, row, todo>>

FailCommitting ==       \* mutant: the exception handler commits what there is
    /\ pc \notin {"down", "idle"} /\ pc' = "idle"
    /\ disk' = work
    /\ todo' = {}
    /\ UNCHANGED <<work, run, key, result, face, row, answer>>

\* Any of the calls throws; the SQLiteHelper closes its connection on the way to
\* the handler, which returns false.  A refused COMMIT ends here too, and so would
\* a face_id that is not positive, with a ROLLBACK of its own.
Fail ==
    /\ pc \notin {"down", "idle"} /\ pc' = "idle"
    /\ work' = disk
    /\ todo' = {}
    /\ UNCHANGED <<disk, run, key, result, face, row, answer>>

\* The process ends, between any two statements.
Crash ==
    /\ pc # "down" /\ pc' = "down"
    /\ work' = disk
    /\ todo' = {}
    /\ UNCHANGED <<disk, run, key, result, face, row, answer>>

Save ==
    \/ \E g \in Groups, r \in Results : Begin(g, r)
    \/ UpsertGroup \/ UpsertFace \/ ClearDefects \/ InsertDefect \/ NextFace
    \/ Commit \/ Fail

Next == Boot \/ Save \/ Crash

Spec == Init /\ [][Next]_vars

-----------------------------------------------------------------------------
(* Properties.                                                             *)

DefectsOf(db, id) == {d \in Defects : <<id, d>> \in db.defects}

\* What a reader of the tables finds under a run and a group id.
RecordIn(db, k) ==
    [saved |-> db.status[k] # "none",
     good  |-> db.status[k] = "GOOD",
     faces |-> [f \in Faces |-> DefectsOf(db, db.faceId[k][f])]]

Records == INSTANCE InspectionRecords
           WITH records <- [k \in Keys |-> RecordIn(disk, k)]

\* README.md:479, "commits group, surface, and defect records transactionally":
\* to a reader a save is one step, whatever fails or dies on the way.
SavesAtomically == Records!Spec

\* When save returned true the database holds exactly the group's result
\* (inspection_repository.cpp:152-158), also when it replaced an earlier record.
AnswerTrue == pc = "idle" /\ answer => RecordIn(disk, key) = Records!Whole(result)

\* The committed tables fit together (the foreign keys and UNIQUE of db_utils.cpp
\* and face_id from the SELECT): a group's row has all its face rows, no two faces
\* share a face_id, and no defect is without its face.
RowsLinked ==
    /\ \A k \in Keys : disk.status[k] # "none" =>
        k[1] \in disk.runs /\ \A f \in Faces : disk.faceId[k][f] # 0
    /\ \A k, l \in Keys : \A f, h \in Faces :
        disk.faceId[k][f] = disk.faceId[l][h] /\ disk.faceId[k][f] # 0 => k = l /\ f = h
    /\ \A d \in disk.defects : \E k \in Keys : \E f \in Faces : disk.faceId[k][f] = d[1]
=============================================================================
