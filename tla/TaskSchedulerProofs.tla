------------------------- MODULE TaskSchedulerProofs -------------------------
(* The invariants of TaskScheduler hold for any tasks, groups and dependency  *)
(* graph.  SchedulerInv is inductive; the proof goes action by action.        *)
EXTENDS TaskScheduler, TLAPS

\* setStatus(Failed) leaves every task of T failed, and changes no status but
\* to Failed (Task::setStatus).
LEMMA FailAllLemma ==
    ASSUME TypeOK, NEW T \in SUBSET Task
    PROVE  /\ FailAll(T) \in [Task -> Status]
           /\ \A t \in T : FailAll(T)[t] = "Failed"
           /\ \A t \in Task : FailAll(T)[t] = status[t] \/ FailAll(T)[t] = "Failed"
  <1>1. \A t \in T : status[t] # "Failed" => t \in Cascade(T)
    BY DEF Cascade
  <1>2. Cascade(T) \subseteq Task
    BY DEF Cascade
  <1> HIDE DEF Cascade
  <1>3. QED
    BY <1>1, <1>2 DEF FailAll, TypeOK, Status

\* Task::setStatus: a task turns to s or to Failed, or keeps its status.
LEMMA SetStatusLemma ==
    ASSUME TypeOK, NEW t \in Task, NEW s \in Status, SetStatus(t, s)
    PROVE  /\ status' \in [Task -> Status]
           /\ \A u \in Task \ {t} : status'[u] \in {status[u], "Failed"}
           /\ status'[t] = s
  <1>1. CASE s = "Failed"
    <2>1. status' = FailAll({t})
      BY <1>1 DEF SetStatus
    <2>2. QED
      BY <2>1, <1>1, FailAllLemma
  <1>2. CASE s # "Failed"
    BY <1>2 DEF SetStatus, TypeOK
  <1>3. QED
    BY <1>1, <1>2

\* A step that wakes nobody has changed no task of a listed group.
LEMMA DispatchLemma ==
    ASSUME TypeOK, DispatchIfChanged(timer)
    PROVE  /\ timer' \in BOOLEAN
           /\ ~timer' => /\ ~timer
                         /\ \A t \in Task : where[t] \in Listed => status'[t] = status[t]
  BY DEF DispatchIfChanged, TypeOK

\* The parts of SchedulerInv about groups survive a step that changes only
\* statuses, if it announces the change and starts nothing in a failed group.
LEMMA StatusStepLemma ==
    ASSUME SchedulerInv, DispatchIfChanged(timer),
           status' \in [Task -> Status],
           \A t \in Task : status'[t] = "Active" =>
               status[t] = "Active" \/ where[t] \notin Group \/ gstatus[where[t]] # "Failed",
           UNCHANGED <<where, groupVars>>
    PROVE  /\ FailedGroupRunsNothing'
           /\ turn' = turn => VisitedGroupsAgree'
           /\ UNCHANGED <<busy, passing>> => BusyIsAccurate'
  <1> USE DEF groupVars
  <1>1. Listed' = Listed /\ \A g \in Group : Members(g)' = Members(g)
    BY DEF Listed, Members
  <1>2. FailedGroupRunsNothing'
    BY DEF SchedulerInv, FailedGroupRunsNothing, Members
  <1>3. ASSUME ~timer' PROVE ~timer /\ \A g \in Listed : \A t \in Members(g) : status'[t] = status[t]
    BY <1>3, DispatchLemma DEF SchedulerInv, Members
  <1>4. ASSUME ~timer', turn' = turn PROVE \A g \in Listed' \ turn' : Agrees(g)'
    <2>1. \A g \in Listed \ turn : Agrees(g)
      BY <1>3, <1>4 DEF SchedulerInv, VisitedGroupsAgree
    <2>2. TAKE g \in Listed' \ turn'
    <2>3. g \in Listed \ turn /\ g \in Group
      BY <1>1, <1>4 DEF Listed
    <2>4. QED
      BY <1>1, <1>3, <1>4, <2>1, <2>3 DEF Agrees, AnyFailed, AllFinished
  <1>5. ASSUME ~timer', UNCHANGED <<busy, passing>>, ~passing' PROVE (busy <=> AnyActive)'
    <2>1. AnyActive' <=> AnyActive
      BY <1>1, <1>3, <1>5 DEF AnyActive, Listed
    <2>2. QED
      BY <1>3, <1>5, <2>1 DEF SchedulerInv, BusyIsAccurate, Quiescent
  <1>6. QED
    BY <1>2, <1>4, <1>5 DEF VisitedGroupsAgree, BusyIsAccurate, Quiescent

-----------------------------------------------------------------------------
LEMMA InitInv == Init => SchedulerInv
  <1> SUFFICES ASSUME Init PROVE SchedulerInv
    OBVIOUS
  <1>1. TypeOK
    BY DEF Init, TypeOK, Status
  <1>2. Listed = {} /\ ~AnyActive
    BY DEF Init, Listed, AnyActive
  <1>3. QED
    BY <1>1, <1>2 DEF Init, SchedulerInv, FailedGroupRunsNothing, SnapshotsOnlyInPass,
       SnapshotIsAlive, NewTasksAreIdle, VisitedGroupsAgree, BusyIsAccurate

\* Steps that move tasks between groups, or groups in and out of the dispatcher:
\* a task that gains a group is idle, and a step that touches a listed group
\* asks for a pass.
LEMMA MoveStepLemma ==
    ASSUME SchedulerInv,
           where' \in [Task -> Group \cup {"new", "gone"}],
           stage' \in [Group -> {"new", "listed", "gone"}],
           timer' \in BOOLEAN, pending' \in SUBSET Task,
           UNCHANGED <<status, gstatus, passVars>>,
           \A t \in Task : where'[t] = "new" => where[t] = "new",
           \A t \in Task : where'[t] \in Group /\ where'[t] # where[t] => where[t] = "new",
           todo # {} => \A t \in Task : where[t] \in Group => where'[t] = where[t],
           ~timer' => /\ ~timer
                      /\ stage' = stage
                      /\ \A t \in Task : where'[t] = where[t] \/
                             (where[t] \notin Listed /\ where'[t] \notin Listed)
    PROVE  SchedulerInv'
  <1> USE DEF SchedulerInv, passVars
  <1>1. TypeOK'
    BY DEF TypeOK
  <1>2. FailedGroupRunsNothing'
    BY DEF FailedGroupRunsNothing, Members, NewTasksAreIdle, TypeOK
  <1>3. SnapshotsOnlyInPass' /\ NewTasksAreIdle'
    BY DEF SnapshotsOnlyInPass, NewTasksAreIdle
  <1>4. SnapshotIsAlive'
    BY DEF SnapshotIsAlive, TypeOK
  <1>5. ASSUME ~timer' PROVE Listed' = Listed /\ \A g \in Listed : Members(g)' = Members(g)
    BY <1>5 DEF Listed, Members
  <1>6. VisitedGroupsAgree'
    <2> SUFFICES ASSUME ~timer', NEW g \in Listed' \ turn' PROVE Agrees(g)'
      BY DEF VisitedGroupsAgree
    <2>1. g \in Listed \ turn /\ Members(g)' = Members(g)
      BY <1>5
    <2>2. Agrees(g)
      BY <2>1 DEF VisitedGroupsAgree
    <2>3. QED
      BY <2>1, <2>2 DEF Agrees, AnyFailed, AllFinished
  <1>7. BusyIsAccurate'
    <2>1. ASSUME ~timer' PROVE AnyActive' <=> AnyActive
      BY <1>5, <2>1 DEF AnyActive
    <2>2. QED
      BY <2>1 DEF BusyIsAccurate, Quiescent
  <1>8. QED
    BY <1>1, <1>2, <1>3, <1>4, <1>6, <1>7

LEMMA ClientInv ==
    ASSUME SchedulerInv, Client PROVE SchedulerInv'
  <1> USE GroupAssumption DEF SchedulerInv, taskVars, groupVars
  <1>1. ASSUME NEW t \in Task, NEW g \in Group, AddTask(t, g) PROVE SchedulerInv'
    <2>1. where' = [where EXCEPT ![t] = g] /\ where[t] = "new"
      BY <1>1 DEF AddTask
    <2>2. ~timer' => ~timer /\ g \notin Listed
      BY <1>1 DEF AddTask, Listed, TypeOK
    <2>3. QED
      BY <1>1, <2>1, <2>2, MoveStepLemma DEF AddTask, Listed, TypeOK
  <1>2. ASSUME NEW g \in Group, AddGroup(g) PROVE SchedulerInv'
    BY <1>2, MoveStepLemma DEF AddGroup, TypeOK
  <1>3. ASSUME NEW g \in Group, DestroyGroup(g) PROVE SchedulerInv'
    <2>1. todo = {}
      BY <1>3 DEF DestroyGroup, SnapshotsOnlyInPass
    <2>2. QED
      BY <1>3, <2>1, MoveStepLemma DEF DestroyGroup, TypeOK
  <1>4. ASSUME NEW t \in Task, DestroyTask(t) PROVE SchedulerInv'
    <2>1. todo = {}
      BY <1>4 DEF DestroyTask, SnapshotsOnlyInPass
    <2>2. ~timer' => ~timer /\ where[t] \notin Listed
      BY <1>4 DEF DestroyTask, TypeOK
    <2>3. QED
      BY <1>4, <2>1, <2>2, MoveStepLemma DEF DestroyTask, TypeOK, Listed
  <1>5. QED
    BY <1>1, <1>2, <1>3, <1>4 DEF Client

LEMMA PeriodicDispatchInv ==
    ASSUME SchedulerInv, PeriodicDispatch PROVE SchedulerInv'
  BY MoveStepLemma DEF PeriodicDispatch, SchedulerInv, TypeOK, taskVars, groupVars
-----------------------------------------------------------------------------
\* A late answer can wake a task of a failed group, but never make it run.
LEMMA CallbackInv ==
    ASSUME SchedulerInv, NEW t \in Task, Callback(t) PROVE SchedulerInv'
  <1> USE DEF SchedulerInv
  <1>1. /\ status' \in [Task -> Status]
        /\ \A u \in Task : status'[u] = "Active" => status[u] = "Active"
    <2>1. CASE UNCHANGED status
      BY <2>1 DEF TypeOK
    <2>2. ASSUME NEW s \in {"Ready", "Finished", "Failed"}, SetStatus(t, s)
          PROVE  /\ status' \in [Task -> Status]
                 /\ \A u \in Task : status'[u] = "Active" => status[u] = "Active"
      <3>1. s \in Status
        BY DEF Status
      <3>2. QED
        BY <2>2, <3>1, SetStatusLemma
    <2>3. QED
      BY <2>1, <2>2 DEF Callback
  <1>2. /\ UNCHANGED <<where, groupVars, passVars>>
        /\ DispatchIfChanged(timer)
        /\ pending' \in SUBSET Task
    BY DEF Callback, TypeOK
  <1>3. TypeOK'
    BY <1>1, <1>2, DispatchLemma DEF TypeOK, groupVars, passVars
  <1>4. FailedGroupRunsNothing' /\ VisitedGroupsAgree' /\ BusyIsAccurate'
    BY <1>1, <1>2, StatusStepLemma DEF passVars
  <1>5. SnapshotsOnlyInPass' /\ SnapshotIsAlive' /\ NewTasksAreIdle'
    BY <1>1, <1>2 DEF SnapshotsOnlyInPass, SnapshotIsAlive, NewTasksAreIdle, groupVars, passVars
  <1>6. QED
    BY <1>3, <1>4, <1>5

LEMMA TimerEventInv ==
    ASSUME SchedulerInv, TimerEvent PROVE SchedulerInv'
  <1> USE DEF SchedulerInv, TimerEvent, taskVars, groupVars
  <1>1. Listed \subseteq Group /\ Listed' = Listed
    BY DEF Listed
  <1>2. TypeOK'
    BY <1>1 DEF TypeOK
  <1>3. FailedGroupRunsNothing'
    BY DEF FailedGroupRunsNothing, Members
  <1>4. SnapshotsOnlyInPass' /\ SnapshotIsAlive' /\ NewTasksAreIdle'
    BY DEF SnapshotsOnlyInPass, SnapshotIsAlive, NewTasksAreIdle
  <1>5. VisitedGroupsAgree' /\ BusyIsAccurate'
    BY <1>1 DEF VisitedGroupsAgree, BusyIsAccurate, Quiescent
  <1>6. QED
    BY <1>2, <1>3, <1>4, <1>5

LEMMA EndPassInv ==
    ASSUME SchedulerInv, EndPass PROVE SchedulerInv'
  <1> USE DEF SchedulerInv, EndPass, taskVars, groupVars
  <1>1. Listed' = Listed /\ (AnyActive' <=> AnyActive) /\ AnyActive \in BOOLEAN
    BY DEF Listed, AnyActive, Members
  <1>2. TypeOK'
    BY <1>1 DEF TypeOK
  <1>3. FailedGroupRunsNothing'
    BY DEF FailedGroupRunsNothing, Members
  <1>4. SnapshotsOnlyInPass' /\ SnapshotIsAlive' /\ NewTasksAreIdle'
    BY DEF SnapshotsOnlyInPass, SnapshotIsAlive, NewTasksAreIdle
  <1>5. VisitedGroupsAgree'
    BY <1>1 DEF VisitedGroupsAgree, Agrees, AnyFailed, AllFinished, Members
  <1>6. BusyIsAccurate'
    BY <1>1 DEF BusyIsAccurate
  <1>7. QED
    BY <1>2, <1>3, <1>4, <1>5, <1>6

LEMMA TaskUpdateInv ==
    ASSUME SchedulerInv, NEW t \in Task, TaskUpdate(t) PROVE SchedulerInv'
  <1> USE DEF SchedulerInv
  <1>1. /\ passing /\ t \in todo
        /\ todo' = todo \ {t}
        /\ DispatchIfChanged(timer)
        /\ UNCHANGED <<where, groupVars, busy, passing, turn>>
        /\ pending' \in SUBSET Task
    BY DEF TaskUpdate, TypeOK
  <1>2. where[t] \in Group /\ gstatus[where[t]] # "Failed"
    BY <1>1 DEF SnapshotIsAlive
  <1>3. /\ status' \in [Task -> Status]
        /\ \A u \in Task \ {t} : status'[u] \in {status[u], "Failed"}
    <2>1. CASE UNCHANGED status
      BY <2>1 DEF TypeOK
    <2>2. ASSUME NEW s \in {"Active", "Finished"}, SetStatus(t, s)
          PROVE  /\ status' \in [Task -> Status]
                 /\ \A u \in Task \ {t} : status'[u] \in {status[u], "Failed"}
      <3>1. s \in Status
        BY DEF Status
      <3>2. QED
        BY <2>2, <3>1, SetStatusLemma
    <2>3. QED
      BY <2>1, <2>2 DEF TaskUpdate
  <1>4. TypeOK'
    BY <1>1, <1>3, DispatchLemma DEF TypeOK, groupVars
  <1>5. FailedGroupRunsNothing' /\ VisitedGroupsAgree' /\ BusyIsAccurate'
    <2>1. \A u \in Task : status'[u] = "Active" =>
             status[u] = "Active" \/ where[u] \notin Group \/ gstatus[where[u]] # "Failed"
      BY <1>2, <1>3 DEF TypeOK
    <2>2. QED
      BY <1>1, <1>3, <2>1, StatusStepLemma
  <1>6. SnapshotsOnlyInPass' /\ SnapshotIsAlive'
    BY <1>1 DEF SnapshotsOnlyInPass, SnapshotIsAlive, groupVars
  <1>7. NewTasksAreIdle'
    BY <1>1, <1>2, <1>3, GroupAssumption DEF NewTasksAreIdle
  <1>8. QED
    BY <1>4, <1>5, <1>6, <1>7

LEMMA UpdateGroupInv ==
    ASSUME SchedulerInv, NEW g \in Group, UpdateGroup(g) PROVE SchedulerInv'
  <1> USE DEF SchedulerInv
  <1>1. /\ passing /\ todo = {} /\ g \in turn
        /\ turn' = turn \ {g}
        /\ UNCHANGED <<where, pending, stage, busy, passing>>
    BY DEF UpdateGroup
  <1>2. Listed' = Listed /\ Listed \subseteq Group /\ \A h \in Group : Members(h)' = Members(h)
    BY <1>1 DEF Listed, Members
  <1>3. BusyIsAccurate'
    BY <1>1 DEF BusyIsAccurate, Quiescent
  <1>4. SnapshotsOnlyInPass'
    BY <1>1 DEF SnapshotsOnlyInPass
  <1>5. ASSUME UNCHANGED <<status, timer>>,
               gstatus' \in [Group -> Status],
               \A h \in Group \ {g} : gstatus'[h] = gstatus[h],
               gstatus'[g] = "Failed" => gstatus[g] = "Failed",
               Agrees(g)',
               todo' \in SUBSET Task, SnapshotIsAlive'
        PROVE  SchedulerInv'
    <2>1. TypeOK'
      BY <1>1, <1>5 DEF TypeOK
    <2>2. FailedGroupRunsNothing'
      BY <1>2, <1>5 DEF FailedGroupRunsNothing
    <2>3. NewTasksAreIdle'
      BY <1>1, <1>5 DEF NewTasksAreIdle
    <2>4. VisitedGroupsAgree'
      <3> SUFFICES ASSUME ~timer', NEW h \in Listed \ turn' PROVE Agrees(h)'
        BY <1>2 DEF VisitedGroupsAgree
      <3>1. CASE h = g
        BY <3>1, <1>5
      <3>2. CASE h # g
        <4>1. h \in Listed \ turn /\ h \in Group
          BY <3>2, <1>1, <1>2
        <4>2. Agrees(h)
          BY <4>1, <1>5 DEF VisitedGroupsAgree
        <4>3. QED
          BY <4>1, <4>2, <3>2, <1>2, <1>5 DEF Agrees, AnyFailed, AllFinished
      <3>3. QED
        BY <3>1, <3>2
    <2>5. QED
      BY <2>1, <2>2, <2>3, <2>4, <1>3, <1>4, <1>5
  <1>6. CASE GivenUp(g) /\ UNCHANGED <<status, gstatus, timer, todo>>
    <2>1. Agrees(g)'
      BY <1>2, <1>6 DEF GivenUp, Agrees, AnyFailed, AllFinished, FailedGroupRunsNothing
    <2>2. SnapshotIsAlive'
      BY <1>1, <1>6 DEF SnapshotIsAlive
    <2>3. QED
      BY <2>1, <2>2, <1>5, <1>6 DEF TypeOK
  <1>7. CASE /\ ~GivenUp(g) /\ AllFinished(g)
             /\ gstatus' = [gstatus EXCEPT ![g] = "Finished"]
             /\ UNCHANGED <<status, timer, todo>>
    <2>1. /\ gstatus' \in [Group -> Status]
          /\ gstatus'[g] = "Finished"
          /\ \A h \in Group \ {g} : gstatus'[h] = gstatus[h]
      BY <1>7 DEF TypeOK, Status
    <2>2. Agrees(g)'
      BY <1>2, <1>7, <2>1 DEF Agrees, AnyFailed, AllFinished
    <2>3. SnapshotIsAlive'
      BY <1>1, <1>7 DEF SnapshotIsAlive
    <2>4. QED
      BY <2>1, <2>2, <2>3, <1>5, <1>7 DEF TypeOK
  <1>8. CASE /\ ~GivenUp(g) /\ AnyFailed(g)
             /\ status' = FailAll(Members(g))
             /\ gstatus' = [gstatus EXCEPT ![g] = "Failed"]
             /\ DispatchIfChanged(timer)
             /\ UNCHANGED todo
    <2>1. /\ status' \in [Task -> Status]
          /\ \A t \in Members(g) : status'[t] = "Failed"
          /\ \A t \in Task : status'[t] = status[t] \/ status'[t] = "Failed"
      BY <1>8, FailAllLemma DEF Members
    <2>2. /\ gstatus' \in [Group -> Status]
          /\ gstatus'[g] = "Failed"
          /\ \A h \in Group \ {g} : gstatus'[h] = gstatus[h]
      BY <1>8 DEF TypeOK, Status
    <2>3. TypeOK'
      BY <1>1, <1>8, <2>1, <2>2, DispatchLemma DEF TypeOK
    <2>4. FailedGroupRunsNothing'
      BY <1>2, <2>1, <2>2 DEF FailedGroupRunsNothing, Members
    <2>5. SnapshotIsAlive' /\ NewTasksAreIdle'
      BY <1>1, <1>8, <2>1 DEF SnapshotIsAlive, NewTasksAreIdle
    <2>6. VisitedGroupsAgree'
      <3> SUFFICES ASSUME ~timer', NEW h \in Listed \ turn' PROVE Agrees(h)'
        BY <1>2 DEF VisitedGroupsAgree
      <3>1. ~timer /\ \A t \in Members(h) : status'[t] = status[t]
        BY <1>8, DispatchLemma DEF Members
      <3>2. CASE h = g
        <4>1. Members(g) # {}
          BY <1>8 DEF AnyFailed
        <4>2. QED
          BY <3>2, <4>1, <1>2, <2>1, <2>2 DEF Agrees, AnyFailed, AllFinished
      <3>3. CASE h # g
        <4>1. h \in Listed \ turn /\ h \in Group
          BY <3>3, <1>1, <1>2
        <4>2. Agrees(h)
          BY <4>1, <3>1 DEF VisitedGroupsAgree
        <4>3. QED
          BY <4>1, <4>2, <3>1, <3>3, <1>2, <2>2 DEF Agrees, AnyFailed, AllFinished
      <3>4. QED
        BY <3>2, <3>3
    <2>7. QED
      BY <2>3, <2>4, <2>5, <2>6, <1>3, <1>4
  <1>9. CASE /\ ~GivenUp(g) /\ ~AllFinished(g) /\ ~AnyFailed(g)
             /\ gstatus' = IF \E t \in Members(g) : status[t] = "Active"
                           THEN [gstatus EXCEPT ![g] = "Active"]
                           ELSE gstatus
             /\ todo' = Members(g)
             /\ UNCHANGED <<status, timer>>
    <2>1. /\ gstatus' \in [Group -> Status]
          /\ gstatus'[g] # "Failed"
          /\ (\E t \in Members(g) : status[t] = "Active") => gstatus'[g] = "Active"
          /\ \A h \in Group \ {g} : gstatus'[h] = gstatus[h]
      BY <1>9 DEF TypeOK, Status, GivenUp
    <2>2. Agrees(g)'
      BY <1>2, <1>9, <2>1 DEF Agrees, AnyFailed, AllFinished
    <2>3. SnapshotIsAlive'
      BY <1>1, <1>9, <2>1 DEF SnapshotIsAlive, Members
    <2>4. todo' \in SUBSET Task
      BY <1>9 DEF Members
    <2>5. QED
      BY <2>1, <2>2, <2>3, <2>4, <1>5, <1>9
  <1>10. QED
    BY <1>6, <1>7, <1>8, <1>9 DEF UpdateGroup

LEMMA NextInv == SchedulerInv /\ [Next]_vars => SchedulerInv'
  <1> SUFFICES ASSUME SchedulerInv, [Next]_vars PROVE SchedulerInv'
    OBVIOUS
  <1>1. CASE UNCHANGED vars
    BY <1>1 DEF vars, taskVars, groupVars, passVars, SchedulerInv, TypeOK,
       FailedGroupRunsNothing, SnapshotsOnlyInPass, SnapshotIsAlive, NewTasksAreIdle,
       VisitedGroupsAgree, BusyIsAccurate, Quiescent, AnyActive, Agrees, AnyFailed,
       AllFinished, Listed, Members
  <1>2. CASE Pass
    BY <1>2, TimerEventInv, UpdateGroupInv, TaskUpdateInv, EndPassInv DEF Pass
  <1>3. QED
    BY <1>1, <1>2, ClientInv, PeriodicDispatchInv, CallbackInv DEF Next

-----------------------------------------------------------------------------
\* The inductive invariant holds of every behaviour of the scheduler
\* (TaskGroup::update, Task::setStatus, TaskDispatcher::timerEvent).
THEOREM SchedulerInvariant == Spec => []SchedulerInv
  BY InitInv, NextInv, PTL DEF Spec

\* Every field keeps its type.
THEOREM TypeCorrect == Spec => []TypeOK
  <1>1. SchedulerInv => TypeOK
    BY DEF SchedulerInv
  <1>2. QED
    BY <1>1, SchedulerInvariant, PTL

\* A failed group runs nothing, whatever answers come late.
THEOREM FailedGroupIsDead == Spec => []FailedGroupRunsNothing
  <1>1. SchedulerInv => FailedGroupRunsNothing
    BY DEF SchedulerInv
  <1>2. QED
    BY <1>1, SchedulerInvariant, PTL

\* Whenever no pass is due, the groups' statuses agree with their tasks'.
THEOREM NoChangeIsMissed == Spec => []GroupsAgreeWithTasks
  <1>1. SchedulerInv => GroupsAgreeWithTasks
    BY DEF SchedulerInv, GroupsAgreeWithTasks, SnapshotsOnlyInPass, VisitedGroupsAgree, Quiescent
  <1>2. QED
    BY <1>1, SchedulerInvariant, PTL

\* Whenever no pass is due, the busy flag is right.
THEOREM BusyFlagIsRight == Spec => []BusyIsAccurate
  <1>1. SchedulerInv => BusyIsAccurate
    BY DEF SchedulerInv
  <1>2. QED
    BY <1>1, SchedulerInvariant, PTL
=============================================================================
