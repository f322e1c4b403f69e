---------------------------- MODULE GroupManager ----------------------------
(***************************************************************************)
(* Core/group_manager.{hpp,cpp}: the thread that collects the per-face     *)
(* results of the workers into groups, reports a group when it is complete *)
(* or has timed out, and then lets the camera take the next one.           *)
(*                                                                         *)
(* One thread owns mGroups, so its steps are the ones other threads can    *)
(* interleave with: popping a result, calling mOnComplete, calling         *)
(* allow_next_group, looking at the clock.  The images, detections and     *)
(* messages inside a result are abstracted away.                           *)
(***************************************************************************)
EXTENDS Naturals, FiniteSets

CONSTANTS
    MaxGroup,       \* bound: groups the camera may start
    FaceCount       \* kQuadImageCount

ASSUME SizeAssumption == MaxGroup \in Nat \ {0} /\ FaceCount \in Nat \ {0}

Groups  == 1..MaxGroup
Faces   == 0..FaceCount-1
NoGroup == 0    \* GroupState::group_id before its first result

VARIABLES
    results,    \* the result queue: pairs <<group, face>>
    received,   \* mGroups: the faces received per group, {} when there is no entry
    aged,       \* groups of mGroups whose first result is mGroupTimeoutMs old
    running,    \* mRunning
    qStop,      \* QueueManager::mStopped
    gpc,        \* where the thread is
    current,    \* the group finalizeGroup has moved out of mGroups: id and faces
    due,        \* timed_out_groups still to be finalised
    allow,      \* CameraThread::mAllowNextGroup
    recorded,   \* per group, the faces the repository holds results for
    reports,    \* history: calls of mOnComplete per group
    reported,   \* history: per group, the faces whose results were reported
    timedOut    \* history: groups that checkTimeouts has finalised

gmVars == <<results, received, aged, running, qStop, gpc, current, due, allow,
            recorded, reports, reported, timedOut>>

\* "loop": while (mRunning); "pop": popResultBlocking; "report", "release": inside
\* finalizeGroup, before the callback and before allow_next_group; "clock":
\* before checkTimeouts.
GmStates == {"loop", "pop", "report", "release", "clock", "overdue", "done"}

GmTypeOK ==
    /\ results \subseteq Groups \X Faces
    /\ received \in [Groups -> SUBSET Faces]
    /\ aged \subseteq Groups
    /\ running \in BOOLEAN /\ qStop \in BOOLEAN
    /\ gpc \in GmStates
    /\ current \in [id : Groups \cup {NoGroup}, faces : SUBSET Faces]
    /\ due \subseteq Groups
    /\ allow \in BOOLEAN
    /\ recorded \in [Groups -> SUBSET Faces]
    /\ reports \in [Groups -> Nat]
    /\ reported \in [Groups -> SUBSET Faces]
    /\ timedOut \subseteq Groups

GmInit ==
    /\ results = {}
    /\ received = [g \in Groups |-> {}]
    /\ aged = {}
    /\ running = TRUE /\ qStop = FALSE
    /\ gpc = "loop"
    /\ current = [id |-> NoGroup, faces |-> {}]
    /\ due = {}
    /\ allow = TRUE                     \* CameraThread::start
    /\ recorded = [g \in Groups |-> {}]
    /\ reports = [g \in Groups |-> 0]
    /\ reported = [g \in Groups |-> {}]
    /\ timedOut = {}

-----------------------------------------------------------------------------
\* mGroups.find(id) succeeds.
Open(g) == received[g] # {}

\* finalizeGroup's first half: the entry leaves mGroups, its clock with it.
TakeOut(g, faces) ==
    /\ current' = [id |-> g, faces |-> faces]
    /\ received' = [received EXCEPT ![g] = {}]
    /\ aged' = aged \ {g}

HandleResultEarly ==    \* mutant: a group is complete one face too soon
    /\ gpc = "pop"
    /\ \E g \in Groups, f \in Faces :
        /\ <<g, f>> \in results
        /\ results' = results \ {<<g, f>>}
        /\ LET faces == received[g] \cup {f}
           IN  IF Cardinality(faces) >= FaceCount - 1
               THEN gpc' = "report" /\ TakeOut(g, faces)
               ELSE /\ gpc' = "clock"
                    /\ received' = [received EXCEPT ![g] = faces]
                    /\ UNCHANGED <<current, aged>>
    /\ UNCHANGED <<running, qStop, due, allow, recorded, reports, reported, timedOut>>

\* handleResult: a result opens its group or joins it; a second result for the
\* same face is ignored.  TRUE (finalise now) when it is the last face missing.
\* The test reads the received flags, so a duplicate never completes a group.
HandleResult ==
    /\ gpc = "pop"
    /\ \E g \in Groups, f \in Faces :
        /\ <<g, f>> \in results
        /\ results' = results \ {<<g, f>>}
        /\ LET faces == received[g] \cup {f}
           IN  IF faces = Faces /\ f \notin received[g]
               THEN gpc' = "report" /\ TakeOut(g, faces)
               ELSE /\ gpc' = "clock"
                    /\ received' = [received EXCEPT ![g] = faces]
                    /\ UNCHANGED <<current, aged>>
    /\ UNCHANGED <<running, qStop, due, allow, recorded, reports, reported, timedOut>>

\* The pop timed out: straight to checkTimeouts, unless the queue was stopped.
PopNothing ==
    /\ gpc = "pop" /\ results = {}
    /\ gpc' = IF qStop THEN "done" ELSE "clock"
    /\ UNCHANGED <<results, received, aged, running, qStop, current, due, allow,
                   recorded, reports, reported, timedOut>>

\* mOnComplete: the repository saves the four faces, the missing ones as failed
\* and without detections.  If it throws, or returns false, the save is lost
\* but the thread goes on.
Report ==
    /\ gpc = "report"
    /\ gpc' = "release"
    /\ reports' = [reports EXCEPT ![current.id] = @ + 1]
    /\ reported' = [reported EXCEPT ![current.id] = @ \cup current.faces]
    /\ \/ recorded' = [recorded EXCEPT ![current.id] = current.faces]
       \/ UNCHANGED recorded
    /\ UNCHANGED <<results, received, aged, running, qStop, current, due, allow, timedOut>>

ReleaseUnlessTimedOut ==    \* mutant: only a complete group lets the camera go on
    /\ gpc = "release"
    /\ gpc' = IF current.id \in due THEN "overdue" ELSE "clock"
    /\ due' = due \ {current.id}
    /\ allow' = (allow \/ current.id \notin timedOut)
    /\ current' = [id |-> NoGroup, faces |-> {}]
    /\ UNCHANGED <<results, received, aged, running, qStop, recorded, reports, reported, timedOut>>

\* Back to run() after a complete group, or to the loop over timed_out_groups.
Release ==
    /\ gpc = "release"
    /\ gpc' = IF current.id \in due THEN "overdue" ELSE "clock"
    /\ due' = due \ {current.id}
    /\ allow' = TRUE
    /\ current' = [id |-> NoGroup, faces |-> {}]
    /\ UNCHANGED <<results, received, aged, running, qStop, recorded, reports, reported, timedOut>>

CollectNothing ==   \* mutant: the 0 that mGroupTimeoutMs starts with is never replaced
    /\ gpc = "clock"
    /\ gpc' = "overdue"
    /\ due' = {}
    /\ UNCHANGED <<results, received, aged, running, qStop, current, allow,
                   recorded, reports, reported, timedOut>>

\* checkTimeouts: the groups to finalise are collected first, then finalised one
\* by one.
CollectOverdue ==
    /\ gpc = "clock"
    /\ gpc' = "overdue"
    /\ due' = aged
    /\ UNCHANGED <<results, received, aged, running, qStop, current, allow,
                   recorded, reports, reported, timedOut>>

FinalizeOverdue ==
    /\ gpc = "overdue"
    /\ \E g \in due : TakeOut(g, received[g]) /\ timedOut' = timedOut \cup {g}
    /\ gpc' = "report"
    /\ UNCHANGED <<results, running, qStop, due, allow, recorded, reports, reported>>

CheckedOverdue ==
    /\ gpc = "overdue" /\ due = {}
    /\ gpc' = "loop"
    /\ UNCHANGED <<results, received, aged, running, qStop, current, due, allow,
                   recorded, reports, reported, timedOut>>

\* while (mRunning); at the end the groups still in mGroups are dropped.
LoopTest ==
    /\ gpc = "loop"
    /\ gpc' = IF running THEN "pop" ELSE "done"
    /\ UNCHANGED <<results, received, aged, running, qStop, current, due, allow,
                   recorded, reports, reported, timedOut>>

GmThread ==
    \/ HandleResult \/ PopNothing \/ Report \/ Release
    \/ CollectOverdue \/ FinalizeOverdue \/ CheckedOverdue \/ LoopTest

\* The steady clock: mGroupTimeoutMs have passed since a group's first result.
Age(g) ==
    /\ Open(g) /\ g \notin aged
    /\ aged' = aged \cup {g}
    /\ UNCHANGED <<results, received, running, qStop, gpc, current, due, allow,
                   recorded, reports, reported, timedOut>>
=============================================================================
