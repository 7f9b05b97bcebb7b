---------------------------- MODULE TaskScheduler ----------------------------
(***************************************************************************)
(* Task, TaskGroup and TaskDispatcher of src/src/task.cpp: the scheduler    *)
(* every wallet operation goes through.  A task is a node of a dependency   *)
(* graph (m_inputs, m_outputs) and a member of a group; a dispatcher owns   *)
(* groups and, whenever its zero timer fires, walks over them: it settles   *)
(* the status of each group and calls update() on the tasks that may run.   *)
(*                                                                          *)
(* Everything runs on the event loop, so a dispatcher pass is never         *)
(* interleaved with an answer of a worker; the signal handlers a pass fires *)
(* may however add tasks and groups in the middle of it.  What a subclass   *)
(* of Task does in update() and when its worker answers is left open here   *)
(* (TaskUpdate, Callback): GdkTasks gives it for the classes of the wallet  *)
(* and is shown to implement this module.                                   *)
(***************************************************************************)
EXTENDS FiniteSets

CONSTANTS Task,    \* task objects
          Group,   \* task groups
          Needs    \* Needs[t]: the tasks of t's m_inputs

ASSUME NeedsAssumption == Needs \in [Task -> SUBSET Task]
ASSUME GroupAssumption == {"new", "gone"} \cap Group = {}

Status == {"Ready", "Active", "Finished", "Failed"}

VARIABLES
    status,   \* status[t]: Task::m_status
    where,    \* where[t]: m_group, "new" before it joins one, "gone" after
    gstatus,  \* gstatus[g]: TaskGroup::m_status
    stage,    \* stage[g]: "new", "listed" in m_groups, or "gone"
    timer,    \* m_dispatch_timer # 0
    busy,     \* TaskDispatcher::m_busy
    passing,  \* TaskDispatcher::timerEvent is on the stack
    turn,     \* groups the running TaskDispatcher::update has yet to visit
    todo,     \* tasks the running TaskGroup::update has yet to visit
    pending   \* tasks with an answer of a worker, timer or device to come

taskVars == <<status, where, pending>>
groupVars == <<gstatus, stage>>
passVars == <<busy, passing, turn, todo>>
vars == <<taskVars, groupVars, timer, passVars>>

Members(g) == {t \in Task : where[t] = g}
Listed == {g \in Group : stage[g] = "listed"}
InputsFinished(t) == \A u \in Needs[t] : status[u] = "Finished"
AnyActive == \E g \in Listed : \E t \in Members(g) : status[t] = "Active"

-----------------------------------------------------------------------------
(* Status changes. *)

\* S holds every task that fails because one of S fails: setStatus(Failed)
\* recurses into m_outputs and stops at a task that has already failed.
ClosedUnderFailure(S) ==
    \A u \in Task : Needs[u] \cap S # {} /\ status[u] # "Failed" => u \in S

\* A variant that fails the given tasks only.
NoCascade(T) == T

\* The tasks that setStatus(Failed) on every task of T turns to Failed.
Cascade(T) ==
    LET seeds == {t \in T : status[t] # "Failed"}
    IN  {u \in Task : \A S \in SUBSET Task :
                          seeds \subseteq S /\ ClosedUnderFailure(S) => u \in S}

FailAll(T) == [u \in Task |-> IF u \in Cascade(T) THEN "Failed" ELSE status[u]]

\* Task::setStatus on t, with the cascade of a failure.
SetStatus(t, s) ==
    status' = IF s = "Failed" THEN FailAll({t}) ELSE [status EXCEPT ![t] = s]

\* A variant in which a change of status wakes nobody.
NoDispatch(timer0) == timer' = timer0

\* Every task whose status changes asks its dispatcher for a pass; `timer0`
\* is the timer before that.
DispatchIfChanged(timer0) ==
    timer' = (timer0 \/ \E t \in Task : /\ status'[t] # status[t]
                                        /\ where[t] \in Listed)

-----------------------------------------------------------------------------
(* Clients: controllers, signal handlers and destructors. *)

\* TaskGroup::add.
AddTask(t, g) ==
    /\ where[t] = "new"
    /\ stage[g] # "gone"
    /\ where' = [where EXCEPT ![t] = g]
    /\ timer' = (timer \/ stage[g] = "listed")
    /\ UNCHANGED <<status, pending, groupVars, passVars>>

\* TaskDispatcher::add(group).
AddGroup(g) ==
    /\ stage[g] = "new"
    /\ stage' = [stage EXCEPT ![g] = "listed"]
    /\ timer' = TRUE
    /\ UNCHANGED <<taskVars, gstatus, passVars>>

\* Variants of ~TaskGroup: its tasks keep a dangling m_group; the dispatcher is
\* not told.
DestroyGroupDangling(g) ==
    /\ ~passing /\ stage[g] = "listed"
    /\ stage' = [stage EXCEPT ![g] = "gone"]
    /\ where' = [t \in Task |-> IF where[t] = g THEN "dangling" ELSE where[t]]
    /\ timer' = TRUE
    /\ UNCHANGED <<status, pending, gstatus, passVars>>

DestroyGroupSilently(g) ==
    /\ ~passing /\ stage[g] = "listed"
    /\ stage' = [stage EXCEPT ![g] = "gone"]
    /\ where' = [t \in Task |-> IF where[t] = g THEN "gone" ELSE where[t]]
    /\ UNCHANGED <<status, pending, gstatus, timer, passVars>>

\* ~TaskGroup, from the event loop when the owning controller goes: the group
\* leaves the dispatcher and its tasks lose their group, whatever they do.
DestroyGroup(g) ==
    /\ ~passing
    /\ stage[g] = "listed"
    /\ stage' = [stage EXCEPT ![g] = "gone"]
    /\ where' = [t \in Task |-> IF where[t] = g THEN "gone" ELSE where[t]]
    /\ timer' = TRUE
    /\ UNCHANGED <<status, pending, gstatus, passVars>>

\* ~Task, deferred to the event loop by deleteLater: only tasks nothing
\* depends on are deleted, and answers to a deleted object are dropped.
DestroyTask(t) ==
    /\ ~passing
    /\ where[t] \in Group
    /\ \A u \in Task : t \notin Needs[u]
    /\ where' = [where EXCEPT ![t] = "gone"]
    /\ pending' = pending \ {t}
    /\ timer' = (timer \/ where[t] \in Listed)
    /\ UNCHANGED <<status, groupVars, passVars>>

\* A variant without the repeating timer.
NoPeriodicDispatch == FALSE /\ UNCHANGED vars

\* The repeating one second timer of the dispatcher.
PeriodicDispatch ==
    /\ ~passing
    /\ ~timer
    /\ timer' = TRUE
    /\ UNCHANGED <<taskVars, groupVars, passVars>>

\* An answer reaches the event loop; setStatus is called whatever the status
\* of the task has become meanwhile.
Callback(t) ==
    /\ ~passing
    /\ t \in pending
    /\ \/ UNCHANGED status
       \/ \E s \in {"Ready", "Finished", "Failed"} : SetStatus(t, s)
    /\ pending' \in {pending, pending \ {t}}
    /\ DispatchIfChanged(timer)
    /\ UNCHANGED <<where, groupVars, passVars>>

-----------------------------------------------------------------------------
(* One dispatcher pass. *)

\* TaskDispatcher::timerEvent: the zero timer is consumed first, then update()
\* walks over a copy of m_groups.
TimerEvent ==
    /\ ~passing
    /\ timer
    /\ timer' = FALSE
    /\ passing' = TRUE
    /\ turn' = Listed
    /\ UNCHANGED <<taskVars, groupVars, busy, todo>>

\* A variant that reports a failure only once nothing is left to do.
AnyFailedAtRest(g) ==
    /\ \E t \in Members(g) : status[t] = "Failed"
    /\ \A t \in Members(g) : status[t] \in {"Finished", "Failed"}

\* What the scan of TaskGroup::update finds in g.
AnyFailed(g) == \E t \in Members(g) : status[t] = "Failed"
AllFinished(g) == \A t \in Members(g) : status[t] = "Finished"

\* A variant that goes on with a failed group.
NeverGivenUp(g) == FALSE

\* A group that failed is left alone.
GivenUp(g) == gstatus[g] = "Failed"

\* The scan of TaskGroup::update that settles the status of g, up to the loop
\* over a copy of its tasks.
UpdateGroup(g) ==
    /\ passing /\ todo = {} /\ g \in turn
    /\ turn' = turn \ {g}
    /\ \/ /\ GivenUp(g)
          /\ UNCHANGED <<status, gstatus, timer, todo>>
       \/ /\ ~GivenUp(g) /\ AllFinished(g)
          /\ gstatus' = [gstatus EXCEPT ![g] = "Finished"]
          /\ UNCHANGED <<status, timer, todo>>
       \/ /\ ~GivenUp(g) /\ AnyFailed(g)
          /\ status' = FailAll(Members(g))
          /\ gstatus' = [gstatus EXCEPT ![g] = "Failed"]
          /\ DispatchIfChanged(timer)
          /\ UNCHANGED todo
       \/ /\ ~GivenUp(g) /\ ~AllFinished(g) /\ ~AnyFailed(g)
          /\ gstatus' = IF \E t \in Members(g) : status[t] = "Active"
                        THEN [gstatus EXCEPT ![g] = "Active"]
                        ELSE gstatus
          /\ todo' = Members(g)
          /\ UNCHANGED <<status, timer>>
    /\ UNCHANGED <<where, pending, stage, busy, passing>>

Runnable(t) == status[t] \in {"Ready", "Active"} /\ InputsFinished(t)

\* The loop of TaskGroup::update comes to t.  A subclass may start work that
\* answers later, finish at once, or leave things as they are.
TaskUpdate(t) ==
    /\ passing /\ t \in todo
    /\ todo' = todo \ {t}
    /\ \/ UNCHANGED <<status, pending>>
       \/ /\ Runnable(t)
          /\ \E s \in {"Active", "Finished"} : SetStatus(t, s)
          /\ pending' \in {pending, pending \cup {t}}
    /\ DispatchIfChanged(timer)
    /\ UNCHANGED <<where, groupVars, busy, passing, turn>>

\* TaskDispatcher::updateBusy, the end of timerEvent.
EndPass ==
    /\ passing /\ turn = {} /\ todo = {}
    /\ passing' = FALSE
    /\ busy' = AnyActive
    /\ UNCHANGED <<taskVars, groupVars, timer, turn, todo>>

-----------------------------------------------------------------------------
Init ==
    /\ status = [t \in Task |-> "Ready"]
    /\ where = [t \in Task |-> "new"]
    /\ gstatus = [g \in Group |-> "Ready"]
    /\ stage = [g \in Group |-> "new"]
    /\ timer = FALSE
    /\ busy = FALSE
    /\ passing = FALSE
    /\ turn = {}
    /\ todo = {}
    /\ pending = {}

Client ==
    \/ \E t \in Task, g \in Group : AddTask(t, g)
    \/ \E g \in Group : AddGroup(g) \/ DestroyGroup(g)
    \/ \E t \in Task : DestroyTask(t)

Pass ==
    \/ TimerEvent
    \/ \E g \in Group : UpdateGroup(g)
    \/ \E t \in Task : TaskUpdate(t)
    \/ EndPass

Next ==
    \/ Client
    \/ Pass
    \/ PeriodicDispatch
    \/ \E t \in Task : Callback(t)

Spec == Init /\ [][Next]_vars

-----------------------------------------------------------------------------
(* Properties. *)

\* Type invariant of the scheduler's fields.
TypeOK ==
    /\ status \in [Task -> Status]
    /\ where \in [Task -> Group \cup {"new", "gone"}]
    /\ gstatus \in [Group -> Status]
    /\ stage \in [Group -> {"new", "listed", "gone"}]
    /\ timer \in BOOLEAN /\ busy \in BOOLEAN /\ passing \in BOOLEAN
    /\ turn \in SUBSET Group
    /\ todo \in SUBSET Task
    /\ pending \in SUBSET Task

\* No pass is due or running: the dispatcher has seen every change.
Quiescent == ~passing /\ ~timer

\* A group that failed runs nothing any more, even when answers arrive late and
\* tasks are added to it (TaskGroup::update returns at once when Failed).
FailedGroupRunsNothing ==
    \A g \in Group : gstatus[g] = "Failed" =>
        \A t \in Members(g) : status[t] # "Active"

\* The status of g tells the truth about its tasks.
Agrees(g) ==
    /\ AnyFailed(g) => gstatus[g] = "Failed"
    /\ (\E t \in Members(g) : status[t] = "Active") => gstatus[g] = "Active"
    /\ AllFinished(g) => gstatus[g] \in {"Finished", "Failed"}

\* When the dispatcher rests, each listed group tells the truth about its tasks:
\* no change of a task is missed between two passes (Task::setStatus calls
\* dispatch, and timerEvent consumes the timer before it looks).
GroupsAgreeWithTasks == Quiescent => \A g \in Listed : Agrees(g)

\* When the dispatcher rests, the busy flag shown to the user is right.
BusyIsAccurate == Quiescent => (busy <=> AnyActive)

\* What makes these invariants inductive.  Snapshots live only during a pass, a
\* task in the snapshot belongs to a group that has not failed, a task no group
\* has yet is not running, and a group the running pass has been through agrees
\* with its tasks unless a new pass is due.
SnapshotsOnlyInPass == ~passing => turn = {} /\ todo = {}
SnapshotIsAlive ==
    \A t \in todo : where[t] \in Group /\ gstatus[where[t]] # "Failed"
NewTasksAreIdle ==
    \A t \in Task : where[t] = "new" => status[t] # "Active"
VisitedGroupsAgree == ~timer => \A g \in Listed \ turn : Agrees(g)

SchedulerInv ==
    /\ TypeOK
    /\ FailedGroupRunsNothing
    /\ SnapshotsOnlyInPass
    /\ SnapshotIsAlive
    /\ NewTasksAreIdle
    /\ VisitedGroupsAgree
    /\ BusyIsAccurate

\* A task that fails takes its group down, unless the task recovers by a late
\* answer or is removed first (TaskDispatcher::timerEvent is always re-armed).
FailureReachesGroup ==
    \A t \in Task, g \in Group :
        (where[t] = g /\ stage[g] = "listed" /\ status[t] = "Failed")
            ~> (gstatus[g] = "Failed" \/ where[t] # g \/ status[t] # "Failed")
=============================================================================
