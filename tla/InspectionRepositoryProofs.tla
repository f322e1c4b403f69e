--------------------- MODULE InspectionRepositoryProofs ---------------------
(***************************************************************************)
(* What InspectionRepository promises for all sets of runs, groups and     *)
(* detections and every number of faces, with statements that fail and     *)
(* processes that die: that it implements InspectionRecords.               *)
(***************************************************************************)
EXTENDS InspectionRepository, TLAPS

\* Ids are handed out in order, to one face each; a defect has the id of a face.
Tables(db) ==
    /\ \A k \in Keys : \A f \in Faces : db.faceId[k][f] < db.next
    /\ \A k, l \in Keys : \A f, h \in Faces :
        db.faceId[k][f] = db.faceId[l][h] /\ db.faceId[k][f] # 0 => k = l /\ f = h
    /\ \A d \in db.defects : \E k \in Keys : \E f \in Faces : db.faceId[k][f] = d[1]
    /\ \A d \in db.defects : d[1] # 0

HasRows(db, k) ==
    db.status[k] # "none" => k[1] \in db.runs /\ \A f \in Faces : db.faceId[k][f] # 0

\* A save touches the rows of its own group only.
SameElsewhere ==
    /\ work.runs = disk.runs
    /\ \A k \in Keys \ {key} :
        /\ work.status[k] = disk.status[k]
        /\ work.faceId[k] = disk.faceId[k]
        /\ \A f \in Faces :
            DefectsOf(work, work.faceId[k][f]) = DefectsOf(disk, disk.faceId[k][f])

\* What the transaction has written so far: the group's row and the faces below
\* `face`; and of this face its row, and the detections no longer in `todo`.
Written ==
    pc \in {"face", "clear", "defects"} =>
        /\ work.status[key] = StatusOf(result) /\ key[1] \in work.runs
        /\ \A f \in Faces : f < face =>
            /\ work.faceId[key][f] # 0
            /\ DefectsOf(work, work.faceId[key][f]) = result[f].found

ThisFace ==
    /\ pc \in {"clear", "defects"} =>
        face < FaceCount /\ row = work.faceId[key][face] /\ row # 0
    /\ pc = "defects" =>
        todo \subseteq result[face].found
        /\ DefectsOf(work, row) = result[face].found \ todo

\* AnswerTrue, over a restart too.
AnswerKept ==
    answer => pc \in {"down", "idle"} /\ RecordIn(disk, key) = Records!Whole(result)

Inv ==
    /\ TypeOK
    /\ Tables(disk) /\ Tables(work)
    /\ \A k \in Keys : HasRows(disk, k)
    /\ pc \in {"down", "idle"} => work = disk
    /\ SameElsewhere
    /\ Written
    /\ ThisFace
    /\ AnswerKept

USE FaceCountAssumption DEF FaceCountAssumption

-----------------------------------------------------------------------------
\* The invariant holds on a new database.
LEMMA InvInit == Init => Inv
<1> SUFFICES ASSUME Init PROVE Inv
  OBVIOUS
<1>1. EmptyTables \in Databases
  BY DEF EmptyTables, Databases, Statuses
<1>2. TypeOK
  <2>1. result \in Results
    BY DEF Init, Results
  <2>2. 0 \in 0..FaceCount
    OBVIOUS
  <2> QED BY <1>1, <2>1, <2>2 DEF Init, TypeOK, SaveStates
<1>3. Tables(EmptyTables)
  BY DEF Tables, EmptyTables
<1>4. \A k \in Keys : HasRows(EmptyTables, k)
  BY DEF HasRows, EmptyTables
<1> QED
  BY <1>2, <1>3, <1>4 DEF Init, Inv, SameElsewhere, Written, ThisFace, AnswerKept

\* The ends of a save that leave the committed tables alone, and its beginning.
LEMMA InvRest ==
  ASSUME Inv, Fail \/ Crash \/ \E g \in Groups, r \in Results : Begin(g, r)
  PROVE  Inv'
<1> USE DEF Inv, TypeOK
<1>1. CASE Fail \/ Crash
  <2>1. UNCHANGED <<disk, run, key, result, face, row, answer>> /\ work' = disk
    BY <1>1 DEF Fail, Crash
  <2>2. pc' \in {"down", "idle"} /\ todo' = {}
    BY <1>1 DEF Fail, Crash
  <2>3. TypeOK'
    BY <2>1, <2>2 DEF SaveStates
  <2>4. Tables(disk)' /\ Tables(work)' /\ SameElsewhere'
    BY <2>1 DEF Tables, SameElsewhere
  <2>5. (\A k \in Keys : HasRows(disk, k))' /\ AnswerKept'
    BY <2>1, <2>2 DEF HasRows, AnswerKept, RecordIn, DefectsOf
  <2> QED BY <2>1, <2>2, <2>3, <2>4, <2>5 DEF Written, ThisFace
<1>2. CASE \E g \in Groups, r \in Results : Begin(g, r)
  <2>1. PICK g \in Groups, r \in Results : Begin(g, r)
    BY <1>2
  <2>2. key' \in Keys
    BY <2>1 DEF Begin, Keys
  <2>3. UNCHANGED <<disk, work, run, face, row, todo>> /\ work = disk
    BY <2>1 DEF Begin
  <2>4. TypeOK'
    BY <2>1, <2>2, <2>3 DEF Begin, SaveStates
  <2>5. Tables(disk)' /\ Tables(work)' /\ (\A k \in Keys : HasRows(disk, k))'
    BY <2>3 DEF Tables, HasRows
  <2>6. SameElsewhere'
    BY <2>3 DEF SameElsewhere, DefectsOf
  <2> QED BY <2>1, <2>3, <2>4, <2>5, <2>6 DEF Begin, Written, ThisFace, AnswerKept
<1> QED BY <1>1, <1>2

LEMMA InvBoot == ASSUME Inv, Boot PROVE Inv'
<1> USE DEF Inv, TypeOK
<1>1. disk' \in Databases
  BY DEF Boot, Databases
<1>2. /\ disk'.status = disk.status /\ disk'.faceId = disk.faceId
      /\ disk'.defects = disk.defects /\ disk'.next = disk.next
      /\ disk.runs \subseteq disk'.runs
  BY DEF Boot, Databases
<1>3. TypeOK'
  BY <1>1 DEF Boot, SaveStates
<1>4. Tables(disk)' /\ work' = disk'
  BY <1>2 DEF Tables, Boot
<1>5. \A k \in Keys : HasRows(disk, k)'
  BY <1>2 DEF HasRows
<1>6. AnswerKept'
  <2>1. RecordIn(disk, key)' = RecordIn(disk, key)
    BY <1>2 DEF Boot, RecordIn, DefectsOf
  <2> QED BY <2>1 DEF Boot, AnswerKept, Records!Whole, Records!Faces, Faces
<1>7. pc' = "idle"
  BY DEF Boot
<1> QED BY <1>3, <1>4, <1>5, <1>6, <1>7 DEF Tables, SameElsewhere, Written, ThisFace

-----------------------------------------------------------------------------
\* The statements inside the transaction.
LEMMA InvUpsertGroup == ASSUME Inv, UpsertGroup PROVE Inv'
<1> USE DEF Inv, TypeOK
<1>1. /\ work'.faceId = work.faceId /\ work'.defects = work.defects
      /\ work'.next = work.next /\ work'.runs = work.runs
      /\ work'.status = [work.status EXCEPT ![key] = StatusOf(result)]
  BY DEF UpsertGroup, Databases
<1>2. work' \in Databases
  BY DEF UpsertGroup, Databases, StatusOf, Statuses
<1>3. TypeOK'
  BY <1>2 DEF UpsertGroup, SaveStates
<1>4. Tables(disk)' /\ Tables(work)' /\ (\A k \in Keys : HasRows(disk, k))'
  BY <1>1 DEF UpsertGroup, Tables, HasRows
<1>5. SameElsewhere'
  BY <1>1 DEF UpsertGroup, SameElsewhere, DefectsOf, Databases
<1>6. Written'
  BY <1>1 DEF UpsertGroup, Written, Databases, Faces, StatusOf
<1> QED BY <1>3, <1>4, <1>5, <1>6 DEF UpsertGroup, ThisFace, AnswerKept

LEMMA InvUpsertFace == ASSUME Inv, UpsertFace PROVE Inv'
<1> USE DEF Inv, TypeOK
<1>1. face \in Faces
  BY DEF UpsertFace, Faces
<1>2. /\ work'.defects = work.defects /\ work'.runs = work.runs
      /\ work'.status = work.status /\ row' = work'.faceId[key][face]
  BY DEF UpsertFace, Databases
<1>3. CASE NewRow
  <2>1. /\ work'.next = work.next + 1
        /\ work'.faceId = [work.faceId EXCEPT ![key] = [@ EXCEPT ![face] = work.next]]
    BY <1>3 DEF UpsertFace, Databases
  <2>2. work' \in Databases
    <3>1. [work.faceId[key] EXCEPT ![face] = work.next] \in [Faces -> Nat]
      BY DEF Databases
    <3>2. work'.faceId \in [Keys -> [Faces -> Nat]] /\ work'.next \in Nat \ {0}
      BY <2>1, <3>1 DEF Databases
    <3>3. work' = [work EXCEPT !.faceId = work'.faceId, !.next = work'.next]
      BY <1>3 DEF UpsertFace, Databases
    <3> QED BY <3>2, <3>3 DEF Databases
  <2>3. /\ work'.faceId[key][face] = work.next /\ work.next \in Nat \ {0}
        /\ \A f \in Faces \ {face} : work'.faceId[key][f] = work.faceId[key][f]
        /\ \A k \in Keys \ {key} : work'.faceId[k] = work.faceId[k]
    BY <2>1, <1>1 DEF Databases
  <2>4. Tables(work)'
    <3>1. \A k \in Keys, f \in Faces : k # key \/ f # face =>
            work'.faceId[k][f] = work.faceId[k][f] /\ work.faceId[k][f] \in Nat
      BY <2>3 DEF Databases
    <3>2. \A k \in Keys, f \in Faces : work.faceId[k][f] < work.next
      BY DEF Tables
    <3>3. \A k \in Keys, f \in Faces : work'.faceId[k][f] < work'.next
      BY <2>1, <2>3, <3>1, <3>2
    <3>4. \A k, l \in Keys, f, h \in Faces :
            work'.faceId[k][f] = work'.faceId[l][h] /\ work'.faceId[k][f] # 0
              => k = l /\ f = h
      BY <2>3, <3>1, <3>2 DEF Tables
    <3>5. \A d \in work'.defects :
            d[1] # 0 /\ \E k \in Keys : \E f \in Faces : work'.faceId[k][f] = d[1]
      <4> SUFFICES ASSUME NEW d \in work.defects
                   PROVE  d[1] # 0 /\ \E k \in Keys : \E f \in Faces : work'.faceId[k][f] = d[1]
        BY <1>2
      <4>1. PICK k \in Keys, f \in Faces : work.faceId[k][f] = d[1] /\ d[1] # 0
        BY DEF Tables
      <4>2. k # key \/ f # face
        BY <4>1, <1>3 DEF NewRow
      <4> QED BY <4>1, <4>2, <3>1
    <3> QED BY <3>3, <3>4, <3>5 DEF Tables
  <2>5. row' \in Nat \ {0}
    BY <1>2, <2>3
  <2>6. SameElsewhere'
    BY <1>2, <2>3 DEF UpsertFace, SameElsewhere, DefectsOf
  <2>7. Written'
    BY <1>1, <1>2, <2>3 DEF UpsertFace, Written, DefectsOf, StatusOf, Faces
  <2> QED BY <1>2, <2>2, <2>4, <2>5, <2>6, <2>7
          DEF UpsertFace, SaveStates, Tables, HasRows, ThisFace, AnswerKept
<1>4. CASE ~NewRow
  <2>1. work' = work
    BY <1>4 DEF UpsertFace
  <2>2. row' \in Nat \ {0}
    BY <1>1, <1>4, <2>1 DEF UpsertFace, NewRow, Databases
  <2>3. SameElsewhere' /\ Written'
    BY <2>1 DEF UpsertFace, SameElsewhere, Written, DefectsOf, StatusOf
  <2>4. TypeOK'
    BY <2>1, <2>2 DEF UpsertFace, SaveStates
  <2>5. Tables(disk)' /\ Tables(work)' /\ (\A k \in Keys : HasRows(disk, k))'
    <3>1. disk' = disk
      BY DEF UpsertFace
    <3> QED BY <2>1, <3>1 DEF Tables, HasRows
  <2>6. ThisFace' /\ AnswerKept'
    BY <1>1, <2>1, <2>2 DEF UpsertFace, ThisFace, AnswerKept
  <2>7. pc' = "clear"
    BY DEF UpsertFace
  <2> QED BY <2>3, <2>4, <2>5, <2>6, <2>7
<1> QED BY <1>3, <1>4

LEMMA InvClearDefects == ASSUME Inv, ClearDefects PROVE Inv'
<1> USE DEF Inv, TypeOK
<1>1. face \in Faces /\ row = work.faceId[key][face] /\ row # 0
  BY DEF ClearDefects, ThisFace, Faces
<1>2. /\ work'.faceId = work.faceId /\ work'.next = work.next
      /\ work'.runs = work.runs /\ work'.status = work.status
      /\ work'.defects = {d \in work.defects : d[1] # row}
  BY DEF ClearDefects, Databases
<1>3. work' \in Databases /\ todo' \subseteq Defects
  BY <1>1 DEF ClearDefects, Databases, Results
<1>4. TypeOK'
  BY <1>3 DEF ClearDefects, SaveStates
<1>5. Tables(disk)' /\ Tables(work)' /\ (\A k \in Keys : HasRows(disk, k))'
  BY <1>2 DEF ClearDefects, Tables, HasRows
<1>6. DefectsOf(work, row)' = {}
  BY <1>2 DEF ClearDefects, DefectsOf
<1>7. \A id \in Nat \ {row} : DefectsOf(work', id) = DefectsOf(work, id)
  BY <1>2 DEF DefectsOf
<1>8. \A k \in Keys, f \in Faces : work.faceId[k][f] \in Nat /\
        (k # key \/ f # face => work.faceId[k][f] # row)
  BY <1>1 DEF Tables, Databases
<1>9. SameElsewhere'
  BY <1>2, <1>7, <1>8 DEF ClearDefects, SameElsewhere
<1>10. Written'
  BY <1>2, <1>7, <1>8 DEF ClearDefects, Written, StatusOf, Faces
<1>11. ThisFace'
  BY <1>1, <1>2, <1>6 DEF ClearDefects, ThisFace, Faces
<1> QED BY <1>4, <1>5, <1>9, <1>10, <1>11 DEF ClearDefects, AnswerKept

LEMMA InvInsertDefect == ASSUME Inv, InsertDefect PROVE Inv'
<1> USE DEF Inv, TypeOK
<1>1. face \in Faces /\ row = work.faceId[key][face] /\ row # 0
  BY DEF InsertDefect, ThisFace, Faces
<1>2. PICK d \in todo : /\ work' = [work EXCEPT !.defects = @ \cup {<<row, d>>}]
                        /\ todo' = todo \ {d}
  BY DEF InsertDefect
<1>3. /\ work'.faceId = work.faceId /\ work'.next = work.next
      /\ work'.runs = work.runs /\ work'.status = work.status
      /\ work'.defects = work.defects \cup {<<row, d>>}
  BY <1>2 DEF Databases
<1>4. work' \in Databases
  <2>1. <<row, d>> \in Nat \X Defects
    BY <1>2
  <2>2. work'.defects \subseteq Nat \X Defects
    BY <1>3, <2>1 DEF Databases
  <2> QED BY <1>2, <2>2 DEF Databases
<1>0. UNCHANGED <<disk, run, pc, key, result, face, row, answer>> /\ pc = "defects"
  BY DEF InsertDefect
<1>5. TypeOK'
  BY <1>0, <1>2, <1>4
<1>6. Tables(disk)' /\ Tables(work)' /\ (\A k \in Keys : HasRows(disk, k))'
  BY <1>0, <1>1, <1>3 DEF Tables, HasRows
<1>7. DefectsOf(work', row) = DefectsOf(work, row) \cup {d}
  BY <1>2, <1>3 DEF DefectsOf
<1>8. \A id \in Nat \ {row} : DefectsOf(work', id) = DefectsOf(work, id)
  BY <1>3 DEF DefectsOf
<1>9. \A k \in Keys, f \in Faces : work.faceId[k][f] \in Nat /\
        (k # key \/ f # face => work.faceId[k][f] # row)
  BY <1>1 DEF Tables, Databases
<1>10. SameElsewhere'
  BY <1>0, <1>3, <1>8, <1>9 DEF SameElsewhere
<1>11. Written'
  BY <1>0, <1>3, <1>8, <1>9 DEF Written, StatusOf, Faces
<1>12. ThisFace'
  BY <1>0, <1>1, <1>2, <1>3, <1>7 DEF ThisFace
<1> QED BY <1>0, <1>5, <1>6, <1>10, <1>11, <1>12 DEF AnswerKept

LEMMA InvNextFace == ASSUME Inv, NextFace PROVE Inv'
<1> USE DEF Inv, TypeOK
<1>1. face \in Faces /\ row = work.faceId[key][face] /\ row # 0
      /\ DefectsOf(work, row) = result[face].found
  BY DEF NextFace, ThisFace, Faces
<1>2. UNCHANGED <<disk, work, run, key, result, row, todo, answer>>
      /\ pc' = "face" /\ face' = face + 1 /\ face' \in 0..FaceCount
  BY <1>1 DEF NextFace, Faces
<1>3. TypeOK'
  BY <1>2 DEF SaveStates
<1>4. SameElsewhere'
  BY <1>2 DEF SameElsewhere, DefectsOf
<1>5. Written'
  <2>1. \A f \in Faces : f < face' => f < face \/ f = face
    BY <1>2 DEF Faces
  <2> QED BY <1>1, <1>2, <2>1 DEF NextFace, Written, DefectsOf, StatusOf
<1> QED BY <1>2, <1>3, <1>4, <1>5 DEF NextFace, Tables, HasRows, ThisFace, AnswerKept

\* COMMIT: the tables a reader sees change, to those of the transaction.
LEMMA AtCommit ==
  ASSUME Inv, Commit
  PROVE  /\ RecordIn(disk, key)' = Records!Whole(result)
         /\ \A k \in Keys \ {key} : RecordIn(disk', k) = RecordIn(disk, k)
         /\ \A k \in Keys : HasRows(disk', k)
<1> USE DEF Inv, TypeOK
<1>1. disk' = work /\ key' = key /\ pc = "face" /\ face = FaceCount
  BY DEF Commit
<1>2. work.status[key] = StatusOf(result) /\ key[1] \in work.runs
  BY <1>1 DEF Written
<1>3. \A f \in Faces : /\ work.faceId[key][f] # 0
                       /\ DefectsOf(work, work.faceId[key][f]) = result[f].found
  BY <1>1 DEF Written, Faces
<1>4. RecordIn(disk, key)' = Records!Whole(result)
  <2>1. StatusOf(result) # "none"
    BY DEF StatusOf
  <2>2. StatusOf(result) = "GOOD" <=>
          \A f \in Faces : result[f].ok /\ result[f].found = {}
    BY DEF StatusOf
  <2>3. [f \in Faces |-> DefectsOf(work, work.faceId[key][f])]
          = [f \in Faces |-> result[f].found]
    BY <1>3
  <2>4. RecordIn(work, key) = Records!Whole(result)
    BY <1>2, <2>1, <2>2, <2>3 DEF RecordIn, Records!Whole, Records!Faces, Faces
  <2>5. RecordIn(disk, key)' = RecordIn(work, key)
    BY <1>1 DEF RecordIn, DefectsOf
  <2> QED BY <2>4, <2>5
<1>5. ASSUME NEW k \in Keys \ {key}
      PROVE  RecordIn(disk', k) = RecordIn(disk, k)
  <2>1. [f \in Faces |-> DefectsOf(work, work.faceId[k][f])]
          = [f \in Faces |-> DefectsOf(disk, disk.faceId[k][f])]
    BY DEF SameElsewhere
  <2>2. work.status[k] = disk.status[k]
    BY DEF SameElsewhere
  <2> QED BY <1>1, <2>1, <2>2 DEF RecordIn
<1>6. ASSUME NEW k \in Keys PROVE HasRows(disk', k)
  <2>1. CASE k = key
    BY <1>1, <1>2, <1>3, <2>1 DEF HasRows
  <2>2. CASE k # key
    BY <1>1, <2>2 DEF HasRows, SameElsewhere
  <2> QED BY <2>1, <2>2
<1> QED BY <1>4, <1>5, <1>6

LEMMA InvCommit == ASSUME Inv, Commit PROVE Inv'
<1> USE DEF Inv, TypeOK
<1>1. disk' = work /\ UNCHANGED <<work, run, key, result, face, row, todo>>
      /\ pc' = "idle" /\ answer' = TRUE
  BY DEF Commit
<1>2. TypeOK'
  BY <1>1 DEF SaveStates
<1>3. Tables(disk)' /\ Tables(work)' /\ SameElsewhere'
  BY <1>1 DEF Tables, SameElsewhere
<1>4. (\A k \in Keys : HasRows(disk, k))'
  BY <1>1, AtCommit
<1>5. AnswerKept'
  BY <1>1, AtCommit DEF AnswerKept, Records!Whole, Records!Faces
<1> QED BY <1>1, <1>2, <1>3, <1>4, <1>5 DEF Written, ThisFace

LEMMA InvStep == Inv /\ [Next]_vars => Inv'
<1>1. ASSUME Inv, UNCHANGED vars PROVE Inv'
  BY <1>1 DEF vars, Inv, TypeOK, Tables, HasRows, SameElsewhere, Written, ThisFace,
              AnswerKept, RecordIn, DefectsOf, Records!Whole, Records!Faces, StatusOf
<1> QED BY <1>1, InvRest, InvBoot, InvUpsertGroup, InvUpsertFace, InvClearDefects,
           InvInsertDefect, InvNextFace, InvCommit DEF Next, Save

LEMMA Invariance == Spec => []Inv
<1> QED BY InvInit, InvStep, PTL DEF Spec

-----------------------------------------------------------------------------
\* Every variable of a save keeps its type, for any sets of runs and groups.
THEOREM TypeCorrect == Spec => []TypeOK
<1>1. Inv => TypeOK
  BY DEF Inv
<1> QED BY Invariance, <1>1, PTL

\* A save that returned true has its record in the database, whole, until the
\* next save begins, and after a restart too (inspection_repository.cpp:152-158).
THEOREM AnswersTrue == Spec => []AnswerTrue
<1>1. Inv => AnswerTrue
  BY DEF Inv, AnswerKept, AnswerTrue
<1> QED BY Invariance, <1>1, PTL

\* The committed rows fit together whatever failed or died: no group without its
\* faces, no face_id used twice, no defect without a face (db_utils.cpp:23-75).
THEOREM RowsAlwaysLinked == Spec => []RowsLinked
<1>1. Inv => RowsLinked
  BY DEF Inv, Tables, HasRows, RowsLinked
<1> QED BY Invariance, <1>1, PTL

\* The statement-by-statement save implements the atomic one: to a reader of the
\* database a workpiece's record appears, or is replaced, whole and in one step.
THEOREM SavesAreAtomic == Spec => SavesAtomically
<1> DEFINE View(db) == [k \in Keys |-> RecordIn(db, k)]
<1>1. Init => Records!Init
  <2> SUFFICES ASSUME Init, NEW k \in Keys PROVE RecordIn(disk, k) = Records!NoRecord
    BY DEF Records!Init, Records!Keys, Keys
  <2>1. EmptyTables.status[k] = "none" /\ EmptyTables.defects = {}
    BY DEF EmptyTables
  <2>2. [f \in Faces |-> DefectsOf(disk, disk.faceId[k][f])] = [f \in Faces |-> {}]
    BY <2>1 DEF Init, DefectsOf
  <2> QED BY <2>1, <2>2 DEF Init, RecordIn, Records!NoRecord, Records!Faces, Faces
<1>2. ASSUME Inv, Commit PROVE Records!Save(key, result)
  <2>1. View(disk)' = [View(disk) EXCEPT ![key] = Records!Whole(result)]
    BY <1>2, AtCommit DEF Commit
  <2> QED BY <2>1 DEF Records!Save
<1>3. ASSUME Inv, [Next]_vars, ~Commit PROVE UNCHANGED View(disk)
  <2>1. /\ disk'.status = disk.status /\ disk'.faceId = disk.faceId
        /\ disk'.defects = disk.defects
    BY <1>3 DEF Inv, TypeOK, Databases, Next, Save, vars, Boot, Begin, UpsertGroup,
                UpsertFace, ClearDefects, InsertDefect, NextFace, Fail, Crash
  <2> QED BY <2>1 DEF RecordIn, DefectsOf
<1>4. Inv /\ [Next]_vars => [Records!Next]_(View(disk))
  BY <1>2, <1>3 DEF Records!Next, Records!Keys, Records!Results, Records!Faces,
                    Inv, TypeOK, Keys, Results, Faces
<1> QED BY Invariance, <1>1, <1>4, PTL DEF Spec, SavesAtomically, Records!Spec
=============================================================================
