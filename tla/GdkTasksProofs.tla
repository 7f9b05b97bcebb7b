---------------------------- MODULE GdkTasksProofs ----------------------------
(* The task classes on a GDK session implement the scheduler, so that what      *)
(* TaskSchedulerProofs proves holds of them, for any tasks, sessions and        *)
(* answers of GDK; and what they promise besides.                               *)
EXTENDS GdkTasks, TaskSchedulerProofs

GdkTypes ==
    /\ connected \in [Session -> BOOLEAN] /\ ready \in [Session -> BOOLEAN]
    /\ synced \in [Session -> BOOLEAN]
    /\ link \in [Session -> {"none", "dialled", "linked"}]
    /\ tor \in BOOLEAN
    /\ work \in [Task -> Work] /\ alarm \in [Task -> BOOLEAN]
    /\ drops \in 0..MaxDrops /\ rounds \in [Task -> 0..MaxNext]

\* The part of the invariant that holds whatever the sessions of the tasks are.
BaseInv == GdkTypes /\ PendingIsRight /\ WorkSuitsKind

LEMMA SessType == \A t \in Task : Sess(t) \in Session /\ Kind[t] \in Kinds
  BY KindAssumption DEF Sess

-----------------------------------------------------------------------------
(* What a step does to the worker of a task. *)

\* Two states of a task's answers that differ for t only.
OnlyWorkOf(t) ==
    /\ \A u \in Task \ {t} : work'[u] = work[u] /\ alarm'[u] = alarm[u]

\* The pass comes to t.
LEMMA UpdateFacts ==
    ASSUME BaseInv, NEW t \in Task, Runnable(t), Update(t)
    PROVE  /\ GdkTypes' /\ WorkSuitsKind' /\ OnlyWorkOf(t) /\ ready' = ready
           /\ \/ status' = status /\ UNCHANGED workVars
              \/ /\ SetStatus(t, "Active") /\ work' = [work EXCEPT ![t] = "start"]
                 /\ status[t] = "Ready" /\ (alarm[t] => alarm'[t])
                 /\ Kind[t] = "login" => ~ready[Sess(t)]
              \/ /\ SetStatus(t, "Finished") /\ UNCHANGED workVars
                 /\ \/ status[t] = "Ready" \/ Kind[t] \in {"connect", "sync"}
                    \/ Kind[t] = "login" /\ ready[Sess(t)]
              \/ SetStatus(t, "Active") /\ UNCHANGED workVars /\ Kind[t] = "sync"
  <1> USE SessType
  <1>1. CASE status' = status /\ UNCHANGED <<workVars, sessionVars>>
    BY <1>1 DEF BaseInv, GdkTypes, WorkSuitsKind, OnlyWorkOf, workVars, sessionVars, IsAuth
  <1>2. CASE /\ SetStatus(t, "Finished") /\ UNCHANGED <<workVars, sessionVars>>
             /\ \/ status[t] = "Ready" \/ Kind[t] \in {"connect", "sync"}
                \/ Kind[t] = "login" /\ ready[Sess(t)]
    BY <1>2 DEF BaseInv, GdkTypes, WorkSuitsKind, OnlyWorkOf, workVars, sessionVars, IsAuth
  <1>3. CASE /\ SetStatus(t, "Active") /\ UNCHANGED <<workVars, sessionVars>>
             /\ Kind[t] = "sync"
    BY <1>3 DEF BaseInv, GdkTypes, WorkSuitsKind, OnlyWorkOf, workVars, sessionVars, IsAuth
  <1>4. CASE /\ StartWorker(t) /\ status[t] = "Ready" /\ Kind[t] # "sync"
             /\ Kind[t] = "login" => ~ready[Sess(t)]
    <2>1. /\ SetStatus(t, "Active") /\ work' = [work EXCEPT ![t] = "start"]
          /\ UNCHANGED <<alarm, rounds, sessionVars>>
      BY <1>4 DEF StartWorker
    <2>2. GdkTypes' /\ ready' = ready
      BY <2>1 DEF BaseInv, GdkTypes, sessionVars, Work, Worker
    <2>3. WorkSuitsKind' /\ OnlyWorkOf(t)
      BY <1>4, <2>1 DEF BaseInv, GdkTypes, WorkSuitsKind, OnlyWorkOf, IsAuth
    <2>4. QED
      BY <1>4, <2>1, <2>2, <2>3
  <1>5. CASE Kind[t] = "connect"
    <2>1. ConnectUpdate(t)
      BY <1>5 DEF Update
    <2>2. CASE Leave
      BY <2>2, <1>1 DEF Leave
    <2>3. CASE FinishAtOnce(t)
      BY <2>3, <1>2, <1>5 DEF FinishAtOnce
    <2>4. CASE /\ SetStatus(t, "Active") /\ status[t] = "Ready"
               /\ work' = [work EXCEPT ![t] = "start"] /\ alarm' = [alarm EXCEPT ![t] = TRUE]
               /\ link' = [link EXCEPT ![Sess(t)] = IF @ = "none" THEN "dialled" ELSE @]
               /\ UNCHANGED <<rounds, connected, ready, synced, tor, drops>>
      <3>1. GdkTypes'
        BY <2>4 DEF BaseInv, GdkTypes, Work, Worker
      <3>2. WorkSuitsKind' /\ OnlyWorkOf(t) /\ (alarm[t] => alarm'[t])
        BY <1>5, <2>4 DEF BaseInv, GdkTypes, WorkSuitsKind, OnlyWorkOf, IsAuth
      <3>3. QED
        BY <1>5, <2>4, <3>1, <3>2
    <2>5. QED
      BY <2>1, <2>2, <2>3, <2>4 DEF ConnectUpdate
  <1>6. CASE Kind[t] = "login"
    <2>1. LoginUpdate(t)
      BY <1>6 DEF Update
    <2>2. QED
      BY <2>1, <1>1, <1>2, <1>4, <1>6 DEF LoginUpdate, AuthUpdate, FinishAtOnce, Leave
  <1>7. CASE Kind[t] \in {"auth", "session"}
    <2>1. AuthUpdate(t)
      BY <1>7 DEF Update
    <2>2. QED
      BY <2>1, <1>1, <1>4, <1>7 DEF AuthUpdate, Leave
  <1>8. CASE Kind[t] \in {"load", "assets"}
    <2>1. LoaderUpdate(t)
      BY <1>8 DEF Update
    <2>2. QED
      BY <2>1, <1>1, <1>2, <1>4, <1>8 DEF LoaderUpdate, FinishAtOnce, Leave
  <1>9. CASE Kind[t] = "sync"
    <2>1. SyncUpdate(t)
      BY <1>9 DEF Update
    <2>2. QED
      BY <2>1, <1>2, <1>3, <1>9 DEF SyncUpdate
  <1>10. QED
    BY <1>5, <1>6, <1>7, <1>8, <1>9 DEF Kinds

\* An answer to t comes to a task that waits for one, and changes no other task's.
LEMMA AnswerFacts ==
    ASSUME BaseInv, NEW t \in Task, Answer(t) \/ UserAnswer(t)
    PROVE  /\ GdkTypes' /\ WorkSuitsKind' /\ OnlyWorkOf(t) /\ Answered(t)
           /\ work[t] # "none" \/ alarm[t]
           /\ work'[t] # "none" => work[t] # "none"
           /\ alarm'[t] => alarm[t]
           /\ \/ status' = status
              \/ SetStatus(t, "Finished") /\ work'[t] = "none" /\ work[t] # "none"
              \/ SetStatus(t, "Failed")
              \/ SetStatus(t, "Ready") /\ work'[t] = "none" /\ work[t] # "none" /\ IsAuth(t)
           /\ Kind[t] = "connect" => status' = status \/ status[t] = "Active"
           /\ \/ ready' = ready
              \/ /\ Kind[t] = "login" /\ ready' = [ready EXCEPT ![Sess(t)] = TRUE]
                 /\ SetStatus(t, "Finished") /\ work'[t] = "none" /\ work[t] # "none"
  <1> USE SessType DEF BaseInv
  <1>1. CASE ConnectAnswer(t)
    <2>1. GdkTypes'
      BY <1>1 DEF ConnectAnswer, GdkTypes, Work, Worker
    <2>2. WorkSuitsKind' /\ OnlyWorkOf(t)
      BY <1>1 DEF ConnectAnswer, GdkTypes, WorkSuitsKind, OnlyWorkOf, IsAuth
    <2>3. QED
      BY <1>1, <2>1, <2>2 DEF ConnectAnswer, GdkTypes
  <1>2. CASE ConnectTimeout(t)
    <2>1. GdkTypes'
      BY <1>2 DEF ConnectTimeout, GdkTypes, sessionVars
    <2>2. WorkSuitsKind' /\ OnlyWorkOf(t)
      BY <1>2 DEF ConnectTimeout, GdkTypes, WorkSuitsKind, OnlyWorkOf, IsAuth
    <2>3. QED
      BY <1>2, <2>1, <2>2 DEF ConnectTimeout, GdkTypes, sessionVars
  <1>3. CASE LoaderAnswer(t)
    <2>1. GdkTypes'
      BY <1>3 DEF LoaderAnswer, GdkTypes, sessionVars, Work, Worker
    <2>2. WorkSuitsKind' /\ OnlyWorkOf(t)
      BY <1>3 DEF LoaderAnswer, GdkTypes, WorkSuitsKind, OnlyWorkOf, IsAuth
    <2>3. QED
      BY <1>3, <2>1, <2>2 DEF LoaderAnswer, GdkTypes, sessionVars
  <1>4. CASE AuthAnswer(t)
    <2>1. IsAuth(t) /\ work[t] # "none" /\ alarm' = alarm /\ Answered(t)
      BY <1>4 DEF AuthAnswer, Worker
    <2>2. CASE /\ rounds' = [rounds EXCEPT ![t] = IF @ < MaxNext THEN @ + 1 ELSE @]
               /\ HandleDone(t)
      <3>1. GdkTypes'
        BY <2>1, <2>2, KindAssumption DEF HandleDone, GdkTypes, Work
      <3>2. WorkSuitsKind' /\ OnlyWorkOf(t)
        BY <2>1, <2>2 DEF HandleDone, GdkTypes, WorkSuitsKind, OnlyWorkOf, IsAuth
      <3>3. SetStatus(t, "Finished") /\ work'[t] = "none"
        BY <2>2 DEF HandleDone, GdkTypes
      <3>4. \/ ready' = ready
            \/ Kind[t] = "login" /\ ready' = [ready EXCEPT ![Sess(t)] = TRUE]
        BY <2>2 DEF HandleDone
      <3>5. Kind[t] # "connect" /\ (alarm'[t] => alarm[t])
        BY <2>1 DEF IsAuth
      <3>6. QED
        BY <2>1, <3>1, <3>2, <3>3, <3>4, <3>5
    <2>3. CASE /\ rounds' = [rounds EXCEPT ![t] = IF @ < MaxNext THEN @ + 1 ELSE @]
               /\ HandleError(t)
      <3>1. GdkTypes'
        <4>1. rounds' \in [Task -> 0..MaxNext]
          BY <2>3, KindAssumption DEF GdkTypes
        <4>2. drops' \in 0..MaxDrops /\ connected' \in [Session -> BOOLEAN]
          <5>1. \/ drops' = drops /\ connected' = connected
                \/ /\ drops < MaxDrops /\ drops' = drops + 1
                   /\ connected' = [connected EXCEPT ![Sess(t)] = FALSE]
            BY <2>3 DEF HandleError
          <5>2. drops \in 0..MaxDrops /\ connected \in [Session -> BOOLEAN]
            BY DEF GdkTypes
          <5>3. drops' \in 0..MaxDrops
            BY ONLY <5>1, <5>2, KindAssumption
          <5>4. connected' \in [Session -> BOOLEAN]
            BY ONLY <5>1, <5>2
          <5>5. QED
            BY <5>3, <5>4
        <4>3. work' \in [Task -> Work]
          BY <2>3 DEF HandleError, GdkTypes, Work
        <4>4. QED
          BY <2>1, <2>3, <4>1, <4>2, <4>3 DEF HandleError, GdkTypes
      <3>2. WorkSuitsKind' /\ OnlyWorkOf(t)
        BY <2>1, <2>3 DEF HandleError, GdkTypes, WorkSuitsKind, OnlyWorkOf, IsAuth
      <3>3. QED
        BY <2>1, <2>3, <3>1, <3>2 DEF HandleError, GdkTypes, IsAuth
    <2>4. CASE /\ rounds' = [rounds EXCEPT ![t] = IF @ < MaxNext THEN @ + 1 ELSE @]
               /\ HandleMore(t)
      <3>1. PICK w \in {"step", "code", "prompt", "device", "resolver"} :
                work' = [work EXCEPT ![t] = w]
        BY <2>4 DEF HandleMore
      <3>2. UNCHANGED <<status, sessionVars>>
        BY <2>4 DEF HandleMore
      <3>3. GdkTypes'
        BY <2>1, <2>4, <3>1, <3>2, KindAssumption DEF GdkTypes, Work, Worker, sessionVars
      <3>4. WorkSuitsKind' /\ OnlyWorkOf(t)
        BY <2>1, <3>1 DEF GdkTypes, WorkSuitsKind, OnlyWorkOf, IsAuth
      <3>5. QED
        BY <2>1, <3>1, <3>2, <3>3, <3>4 DEF GdkTypes, IsAuth, sessionVars
    <2>5. CASE /\ work' = [work EXCEPT ![t] = "none"]
               /\ SetStatus(t, "Failed") \/ SetStatus(t, "Ready")
               /\ UNCHANGED <<rounds, sessionVars>>
      <3>1. GdkTypes'
        BY <2>1, <2>5 DEF GdkTypes, Work, sessionVars
      <3>2. WorkSuitsKind' /\ OnlyWorkOf(t)
        BY <2>1, <2>5 DEF GdkTypes, WorkSuitsKind, OnlyWorkOf, IsAuth
      <3>3. QED
        BY <2>1, <2>5, <3>1, <3>2 DEF GdkTypes, IsAuth, sessionVars
    <2>6. QED
      BY <1>4, <2>2, <2>3, <2>4, <2>5 DEF AuthAnswer, NextStep
  <1>5. CASE ResolverAnswer(t)
    <2>1. GdkTypes'
      BY <1>5 DEF ResolverAnswer, GdkTypes, sessionVars, Work, Worker
    <2>2. WorkSuitsKind' /\ OnlyWorkOf(t) /\ IsAuth(t)
      BY <1>5 DEF ResolverAnswer, GdkTypes, WorkSuitsKind, OnlyWorkOf, IsAuth
    <2>3. QED
      BY <1>5, <2>1, <2>2 DEF ResolverAnswer, GdkTypes, sessionVars, IsAuth
  <1>6. CASE UserAnswer(t)
    <2>1. GdkTypes'
      BY <1>6 DEF UserAnswer, GdkTypes, sessionVars, Work, Worker
    <2>2. WorkSuitsKind' /\ OnlyWorkOf(t)
      BY <1>6 DEF UserAnswer, GdkTypes, WorkSuitsKind, OnlyWorkOf, IsAuth
    <2>3. QED
      BY <1>6, <2>1, <2>2 DEF UserAnswer, GdkTypes, sessionVars
  <1>7. QED
    BY <1>1, <1>2, <1>3, <1>4, <1>5, <1>6 DEF Answer

-----------------------------------------------------------------------------
(* Every step is one of the scheduler's, or leaves its state alone. *)

\* TrackPending tells the scheduler about t only.
LEMMA PendingFacts ==
    ASSUME PendingIsRight, NEW t \in Task, OnlyWorkOf(t), TrackPending
    PROVE  /\ PendingIsRight'
           /\ pending' = IF work'[t] # "none" \/ alarm'[t] THEN pending \cup {t}
                         ELSE pending \ {t}
           /\ t \in pending <=> work[t] # "none" \/ alarm[t]
  BY DEF PendingIsRight, OnlyWorkOf, TrackPending

\* update() of a task class is what TaskUpdate allows.
LEMMA UpdateRefines ==
    ASSUME BaseInv, NEW t \in Task, UpdateTask(t)
    PROVE  TaskUpdate(t) /\ BaseInv'
  <1>1. CASE ~Runnable(t)
    <2>1. UNCHANGED <<status, workVars, sessionVars>> /\ TrackPending
      BY <1>1 DEF UpdateTask, Leave
    <2>2. BaseInv' /\ pending' = pending
      BY <2>1 DEF BaseInv, GdkTypes, WorkSuitsKind, IsAuth, PendingIsRight, TrackPending,
                  workVars, sessionVars
    <2>3. QED
      BY <2>1, <2>2 DEF UpdateTask, TaskUpdate
  <1>2. CASE Runnable(t)
    <2>1. Update(t) /\ TrackPending
      BY <1>2 DEF UpdateTask
    <2>2. /\ GdkTypes' /\ WorkSuitsKind' /\ OnlyWorkOf(t)
          /\ \/ status' = status /\ UNCHANGED workVars
             \/ SetStatus(t, "Active") /\ work' = [work EXCEPT ![t] = "start"]
             \/ SetStatus(t, "Finished") /\ UNCHANGED workVars
             \/ SetStatus(t, "Active") /\ UNCHANGED workVars
      BY <1>2, <2>1, UpdateFacts
    <2>3. PendingIsRight' /\ (UNCHANGED workVars => pending' = pending)
      BY <2>1, <2>2, PendingFacts DEF BaseInv, PendingIsRight, TrackPending, workVars
    <2>4. work' = [work EXCEPT ![t] = "start"] => pending' = pending \cup {t}
      BY <2>1, <2>2, PendingFacts DEF BaseInv, GdkTypes
    <2>5. \/ UNCHANGED <<status, pending>>
          \/ /\ \E s \in {"Active", "Finished"} : SetStatus(t, s)
             /\ pending' \in {pending, pending \cup {t}}
      BY <2>2, <2>3, <2>4
    <2>6. QED
      BY <1>2, <2>2, <2>3, <2>5 DEF UpdateTask, TaskUpdate, BaseInv
  <1>3. QED
    BY <1>1, <1>2

\* The answers of workers, timers, users and devices are what Callback allows.
LEMMA AnswerRefines ==
    ASSUME BaseInv, NEW t \in Task, Answer(t) \/ UserAnswer(t)
    PROVE  Callback(t) /\ BaseInv'
  <1>1. /\ GdkTypes' /\ WorkSuitsKind' /\ OnlyWorkOf(t) /\ Answered(t)
        /\ work[t] # "none" \/ alarm[t]
        /\ status' = status \/ \E s \in {"Ready", "Finished", "Failed"} : SetStatus(t, s)
    BY AnswerFacts
  <1>2. PendingIsRight' /\ t \in pending /\ pending' \in {pending, pending \ {t}}
    BY <1>1, PendingFacts DEF BaseInv, Answered
  <1>3. QED
    BY <1>1, <1>2 DEF Callback, Answered, BaseInv

\* A task that is deleted takes its answers with it.
LEMMA DeleteRefines ==
    ASSUME BaseInv, NEW t \in Task, DeleteTask(t)
    PROVE  DestroyTask(t) /\ BaseInv'
  <1>1. /\ pending' = pending \ {t} /\ work' = [work EXCEPT ![t] = "none"]
        /\ alarm' = [alarm EXCEPT ![t] = FALSE] /\ UNCHANGED <<rounds, sessionVars>>
    BY DEF DeleteTask, DestroyTask
  <1>2. GdkTypes'
    BY <1>1 DEF BaseInv, GdkTypes, sessionVars, Work
  <1>3. PendingIsRight' /\ WorkSuitsKind'
    BY <1>1 DEF BaseInv, GdkTypes, PendingIsRight, WorkSuitsKind, IsAuth
  <1>4. QED
    BY <1>2, <1>3 DEF DeleteTask, BaseInv

\* What happens to a session does not concern the scheduler.
LEMMA SessionRefines ==
    ASSUME BaseInv,
           TorDone \/ \E s \in Session : NetworkUp(s) \/ NetworkDown(s) \/ AccountsSynced(s)
    PROVE  /\ UNCHANGED vars /\ UNCHANGED workVars /\ BaseInv' /\ ready' = ready
  <1>1. UNCHANGED vars /\ UNCHANGED workVars /\ ready' = ready
    BY DEF TorDone, NetworkUp, NetworkDown, AccountsSynced, SessionEvent
  <1>2. drops' \in 0..MaxDrops
    <2>1. drops' = drops \/ (drops < MaxDrops /\ drops' = drops + 1)
      BY DEF TorDone, NetworkUp, NetworkDown, AccountsSynced
    <2>2. drops \in 0..MaxDrops
      BY DEF BaseInv, GdkTypes
    <2>3. QED
      BY ONLY <2>1, <2>2, KindAssumption
  <1>3. /\ connected' \in [Session -> BOOLEAN] /\ synced' \in [Session -> BOOLEAN]
        /\ link' \in [Session -> {"none", "dialled", "linked"}] /\ tor' \in BOOLEAN
    BY DEF TorDone, NetworkUp, NetworkDown, AccountsSynced, BaseInv, GdkTypes
  <1>4. GdkTypes'
    BY <1>1, <1>2, <1>3 DEF BaseInv, GdkTypes, workVars
  <1>5. PendingIsRight' /\ WorkSuitsKind'
    BY <1>1 DEF BaseInv, PendingIsRight, WorkSuitsKind, IsAuth, vars, taskVars, workVars
  <1>6. QED
    BY <1>1, <1>4, <1>5 DEF BaseInv

LEMMA SchedulerStepRefines ==
    ASSUME BaseInv, SchedulerStep
    PROVE  Next /\ BaseInv' /\ ready' = ready /\ work' = work /\ pending' = pending
  <1>1. UNCHANGED <<sessionVars, workVars>>
    BY DEF SchedulerStep
  <1>2. pending' = pending
    BY DEF SchedulerStep, AddTask, AddGroup, DestroyGroup, UpdateGroup, TimerEvent, EndPass,
           PeriodicDispatch, taskVars
  <1>3. BaseInv' /\ ready' = ready /\ work' = work
    BY <1>1, <1>2 DEF BaseInv, GdkTypes, PendingIsRight, WorkSuitsKind, IsAuth, workVars, sessionVars
  <1>4. Next
    BY DEF SchedulerStep, Next, Client, Pass
  <1>5. QED
    BY <1>2, <1>3, <1>4

LEMMA StepRefines == BaseInv /\ [GdkNext]_gdkVars => BaseInv' /\ [Next]_vars
  <1> SUFFICES ASSUME BaseInv, [GdkNext]_gdkVars PROVE BaseInv' /\ [Next]_vars
    OBVIOUS
  <1>1. CASE UNCHANGED gdkVars
    BY <1>1 DEF gdkVars, BaseInv, GdkTypes, PendingIsRight, WorkSuitsKind, IsAuth, vars,
                taskVars, workVars, sessionVars
  <1>2. CASE SchedulerStep
    BY <1>2, SchedulerStepRefines
  <1>3. CASE \E t \in Task : DeleteTask(t)
    BY <1>3, DeleteRefines DEF Next, Client
  <1>4. CASE \E t \in Task : UpdateTask(t)
    BY <1>4, UpdateRefines DEF Next, Pass
  <1>5. CASE \E t \in Task : Answer(t) \/ UserAnswer(t)
    BY <1>5, AnswerRefines DEF Next
  <1>6. CASE TorDone \/ \E s \in Session : NetworkUp(s) \/ NetworkDown(s) \/ AccountsSynced(s)
    BY <1>6, SessionRefines
  <1>7. QED
    BY <1>1, <1>2, <1>3, <1>4, <1>5, <1>6 DEF GdkNext

LEMMA GdkInitBase == GdkInit => Init /\ BaseInv
  <1> SUFFICES ASSUME GdkInit PROVE Init /\ BaseInv
    OBVIOUS
  <1>1. 0 \in 0..MaxDrops /\ 0 \in 0..MaxNext
    BY KindAssumption
  <1>2. GdkTypes
    BY <1>1 DEF GdkInit, GdkTypes, Work
  <1>3. PendingIsRight /\ WorkSuitsKind
    BY DEF GdkInit, Init, PendingIsRight, WorkSuitsKind
  <1>4. QED
    BY <1>2, <1>3 DEF GdkInit, BaseInv

\* The tasks of a GDK session implement the scheduler: what their update() does and
\* what the answers to them do is what TaskUpdate and Callback allow.
THEOREM GdkImplementsScheduler == GdkSpec => Spec
  BY GdkInitBase, StepRefines, PTL DEF GdkSpec, Spec

\* So a failed group runs none of them, however late GDK answers.
THEOREM FailedGroupsRunNoGdkTask == GdkSpec => []FailedGroupRunsNothing
  BY GdkImplementsScheduler, FailedGroupIsDead, PTL

-----------------------------------------------------------------------------
(* Running tasks and their inputs. *)

\* A failure reaches every task that depends on one that fails.
LEMMA FailAllKeepsInputs ==
    ASSUME TypeOK, RunningInputsFinished, NEW T \in SUBSET Task, status' = FailAll(T)
    PROVE  RunningInputsFinished'
  <1> SUFFICES ASSUME NEW t \in Task, status'[t] = "Active", NEW u \in Needs[t]
               PROVE  status'[u] = "Finished"
    BY DEF RunningInputsFinished, InputsFinished
  <1>1. u \in Task
    BY NeedsAssumption
  <1>2. t \notin Cascade(T) /\ status[t] = "Active"
    BY DEF FailAll
  <1>3. status[u] = "Finished"
    BY <1>2 DEF RunningInputsFinished, InputsFinished
  <1>4. u \notin Cascade(T)
    <2> SUFFICES ASSUME u \in Cascade(T) PROVE t \in Cascade(T)
      BY <1>2
    <2> DEFINE seeds == {v \in T : status[v] # "Failed"}
    <2>1. \A S \in SUBSET Task : seeds \subseteq S /\ ClosedUnderFailure(S) => u \in S
      BY DEF Cascade
    <2> HIDE DEF seeds
    <2>2. \A S \in SUBSET Task : seeds \subseteq S /\ ClosedUnderFailure(S) => t \in S
      BY <1>1, <1>2, <2>1 DEF ClosedUnderFailure
    <2>3. QED
      BY <2>2 DEF Cascade, seeds
  <1>5. QED
    BY <1>1, <1>3, <1>4 DEF FailAll

\* A task that turns to s keeps the tasks that rely on it running only if it is
\* Finished or was not.
LEMMA SetStatusKeepsInputs ==
    ASSUME TypeOK, RunningInputsFinished, NEW t \in Task, NEW s \in Status, SetStatus(t, s),
           s \in {"Ready", "Active"} => status[t] # "Finished",
           s = "Active" => InputsFinished(t)
    PROVE  RunningInputsFinished'
  <1>1. CASE s = "Failed"
    BY <1>1, FailAllKeepsInputs DEF SetStatus
  <1>2. CASE s # "Failed"
    <2>1. status' = [status EXCEPT ![t] = s]
      BY <1>2 DEF SetStatus
    <2>2. SUFFICES ASSUME NEW u \in Task, status'[u] = "Active", NEW v \in Needs[u]
                   PROVE  status'[v] = "Finished"
      BY DEF RunningInputsFinished, InputsFinished
    <2>3. v \in Task
      BY NeedsAssumption
    <2>4. status[v] = "Finished"
      <3>1. CASE u = t
        BY <3>1, <2>1, <2>2 DEF TypeOK, InputsFinished
      <3>2. CASE u # t
        BY <3>2, <2>1, <2>2 DEF TypeOK, RunningInputsFinished, InputsFinished
      <3>3. QED
        BY <3>1, <3>2
    <2>5. QED
      BY <1>2, <2>1, <2>3, <2>4 DEF TypeOK, Status
  <1>3. QED
    BY <1>1, <1>2

LoginInv == WorkingIsUnfinished /\ LoggedInIsDone /\ RunningInputsFinished

\* Failures that reach tasks from elsewhere, and tasks that lose their answers.
LEMMA FailuresKeepLoginInv ==
    ASSUME LoginInv, ready' = ready, RunningInputsFinished',
           \A t \in Task : status'[t] \in {status[t], "Failed"},
           \A t \in Task : work'[t] \in {work[t], "none"}
    PROVE  LoginInv'
  BY DEF LoginInv, WorkingIsUnfinished, LoggedInIsDone

\* update() starts a worker only for a task that has none.
LEMMA UpdateLoginInv ==
    ASSUME TypeOK, BaseInv, LoginInv, NEW t \in Task, UpdateTask(t)
    PROVE  LoginInv'
  <1>1. CASE ~Runnable(t)
    <2>1. UNCHANGED <<status, workVars, sessionVars>>
      BY <1>1 DEF UpdateTask, Leave
    <2>2. QED
      BY <2>1 DEF LoginInv, WorkingIsUnfinished, LoggedInIsDone, RunningInputsFinished,
                  InputsFinished, workVars, sessionVars
  <1>2. CASE Runnable(t)
    <2>1. /\ OnlyWorkOf(t) /\ ready' = ready
          /\ \/ status' = status /\ UNCHANGED workVars
             \/ /\ SetStatus(t, "Active") /\ work' = [work EXCEPT ![t] = "start"]
                /\ status[t] = "Ready"
                /\ Kind[t] = "login" => ~ready[Sess(t)]
             \/ /\ SetStatus(t, "Finished") /\ UNCHANGED workVars
                /\ \/ status[t] = "Ready" \/ Kind[t] \in {"connect", "sync"}
                   \/ Kind[t] = "login" /\ ready[Sess(t)]
             \/ SetStatus(t, "Active") /\ UNCHANGED workVars /\ Kind[t] = "sync"
      BY <1>2, UpdateFacts DEF UpdateTask
    <2>2. status[t] \in {"Ready", "Active"} /\ InputsFinished(t)
      BY <1>2 DEF Runnable
    <2>3. ~(Kind[t] = "login" /\ ready[Sess(t)])
      BY <2>2 DEF LoginInv, LoggedInIsDone
    <2>4. Kind[t] = "sync" => work[t] = "none"
      BY DEF BaseInv, WorkSuitsKind, IsAuth
    <2>5. CASE status' = status /\ UNCHANGED workVars
      BY <2>1, <2>5 DEF LoginInv, WorkingIsUnfinished, LoggedInIsDone, RunningInputsFinished,
                        InputsFinished, workVars
    <2>6. CASE \E s \in {"Active", "Finished"} : SetStatus(t, s)
      <3>1. PICK s \in {"Active", "Finished"} : SetStatus(t, s)
        BY <2>6
      <3>2. /\ \A u \in Task \ {t} : status'[u] \in {status[u], "Failed"}
            /\ status'[t] = s
        BY <3>1, SetStatusLemma DEF Status
      <3>3. RunningInputsFinished'
        BY <2>2, <3>1, SetStatusKeepsInputs DEF LoginInv, Status
      <3>4. \A u \in Task \ {t} : work'[u] = work[u]
        BY <2>1 DEF OnlyWorkOf
      <3>5. work'[t] # "none" /\ Kind[t] # "connect" => status'[t] = "Active"
        <4>1. CASE s = "Active"
          BY <3>2, <4>1
        <4>2. CASE s = "Finished"
          <5>1. UNCHANGED workVars /\ (status[t] = "Ready" \/ Kind[t] \in {"connect", "sync"})
            <6>1. status' # status
              BY <2>2, <3>2, <4>2
            <6>2. ~SetStatus(t, "Active")
              BY <3>2, <4>2, SetStatusLemma DEF Status
            <6>3. QED
              BY <2>1, <2>3, <6>1, <6>2
          <5>2. QED
            BY <2>4, <5>1 DEF LoginInv, WorkingIsUnfinished, workVars
        <4>3. QED
          BY <4>1, <4>2
      <3>6. WorkingIsUnfinished'
        BY <3>2, <3>4, <3>5 DEF LoginInv, WorkingIsUnfinished
      <3>7. LoggedInIsDone'
        BY <2>1, <2>3, <3>2, <3>4 DEF LoginInv, LoggedInIsDone
      <3>8. QED
        BY <3>3, <3>6, <3>7 DEF LoginInv
    <2>7. QED
      BY <2>1, <2>5, <2>6
  <1>3. QED
    BY <1>1, <1>2

\* An answer comes to a task that has not finished.
LEMMA AnswerLoginInv ==
    ASSUME LoginsApart, TypeOK, BaseInv, LoginInv, NEW t \in Task, Answer(t) \/ UserAnswer(t)
    PROVE  LoginInv'
  <1>1. /\ OnlyWorkOf(t)
        /\ work'[t] # "none" => work[t] # "none"
        /\ \/ status' = status
           \/ SetStatus(t, "Finished") /\ work'[t] = "none" /\ work[t] # "none"
           \/ SetStatus(t, "Failed")
           \/ SetStatus(t, "Ready") /\ work'[t] = "none" /\ work[t] # "none" /\ IsAuth(t)
        /\ \/ ready' = ready
           \/ /\ Kind[t] = "login" /\ ready' = [ready EXCEPT ![Sess(t)] = TRUE]
              /\ SetStatus(t, "Finished") /\ work'[t] = "none" /\ work[t] # "none"
    BY AnswerFacts
  <1>2. \A u \in Task \ {t} : work'[u] = work[u]
    BY <1>1 DEF OnlyWorkOf
  <1>3. CASE status' = status /\ ready' = ready
    <2>1. RunningInputsFinished'
      BY <1>3 DEF LoginInv, RunningInputsFinished, InputsFinished
    <2>2. WorkingIsUnfinished'
      BY <1>1, <1>2, <1>3 DEF LoginInv, WorkingIsUnfinished
    <2>3. LoggedInIsDone'
      BY <1>1, <1>2, <1>3 DEF LoginInv, LoggedInIsDone
    <2>4. QED
      BY <2>1, <2>2, <2>3 DEF LoginInv
  <1>4. CASE SetStatus(t, "Failed") /\ ready' = ready
    <2>1. /\ \A u \in Task \ {t} : status'[u] \in {status[u], "Failed"}
          /\ status'[t] = "Failed"
      BY <1>4, SetStatusLemma DEF Status
    <2>2. RunningInputsFinished'
      BY <1>4, SetStatusKeepsInputs DEF LoginInv, Status
    <2>3. WorkingIsUnfinished' /\ LoggedInIsDone'
      BY <1>1, <1>2, <1>4, <2>1 DEF LoginInv, WorkingIsUnfinished, LoggedInIsDone
    <2>4. QED
      BY <2>2, <2>3 DEF LoginInv
  <1>5. ASSUME NEW s \in {"Ready", "Finished"}, SetStatus(t, s), work'[t] = "none",
               work[t] # "none", s = "Ready" => IsAuth(t) /\ ready' = ready
        PROVE  LoginInv'
    <2>1. /\ \A u \in Task \ {t} : status'[u] \in {status[u], "Failed"}
          /\ status'[t] = s
      BY <1>5, SetStatusLemma DEF Status
    <2>2. s = "Ready" => status[t] # "Finished"
      BY <1>5 DEF LoginInv, WorkingIsUnfinished, IsAuth
    <2>3. RunningInputsFinished'
      BY <1>5, <2>2, SetStatusKeepsInputs DEF LoginInv, Status
    <2>4. WorkingIsUnfinished'
      BY <1>2, <1>5, <2>1 DEF LoginInv, WorkingIsUnfinished
    <2>5. LoggedInIsDone'
      <3>1. CASE ready' = ready
        <4>1. ~(Kind[t] = "login" /\ ready[Sess(t)])
          BY <1>5 DEF LoginInv, LoggedInIsDone
        <4>2. QED
          BY <1>2, <2>1, <3>1, <4>1 DEF LoginInv, LoggedInIsDone
      <3>2. CASE /\ Kind[t] = "login" /\ ready' = [ready EXCEPT ![Sess(t)] = TRUE]
                 /\ s = "Finished"
        <4>1. \A u \in Task \ {t} : Kind[u] = "login" /\ ready'[Sess(u)] => ready[Sess(u)]
          BY <3>2, SessType DEF LoginsApart, BaseInv, GdkTypes
        <4>2. QED
          BY <1>2, <1>5, <2>1, <3>2, <4>1 DEF LoginInv, LoggedInIsDone
      <3>3. QED
        BY <1>1, <1>5, <2>1, <3>1, <3>2
    <2>6. QED
      BY <2>3, <2>4, <2>5 DEF LoginInv
  <1>6. QED
    <2>1. CASE ready' = ready
      BY <2>1, <1>1, <1>3, <1>4, <1>5
    <2>2. CASE ready' # ready
      BY <1>1, <1>5, <2>2
    <2>3. QED
      BY <2>1, <2>2

\* The scheduler's own steps, deletions and what happens to sessions.
LEMMA OtherLoginInv ==
    ASSUME TypeOK, BaseInv, LoginInv,
           \/ SchedulerStep
           \/ \E t \in Task : DeleteTask(t)
           \/ TorDone
           \/ \E s \in Session : NetworkUp(s) \/ NetworkDown(s) \/ AccountsSynced(s)
    PROVE  LoginInv'
  <1>1. CASE status' = status /\ ready' = ready /\ \A t \in Task : work'[t] \in {work[t], "none"}
    <2>1. RunningInputsFinished'
      BY <1>1 DEF LoginInv, RunningInputsFinished, InputsFinished
    <2>2. QED
      BY <1>1, <2>1, FailuresKeepLoginInv
  <1>2. CASE SchedulerStep
    <2>1. ready' = ready /\ work' = work
      BY <1>2, SchedulerStepRefines
    <2>2. ASSUME NEW g \in Group, status' = FailAll(Members(g)) PROVE LoginInv'
      <3>1. Members(g) \in SUBSET Task
        BY DEF Members
      <3>2. RunningInputsFinished'
        BY <2>2, <3>1, FailAllKeepsInputs DEF LoginInv
      <3>3. \A t \in Task : status'[t] \in {status[t], "Failed"}
        BY <2>2, <3>1, FailAllLemma
      <3>4. QED
        BY <2>1, <3>2, <3>3, FailuresKeepLoginInv
    <2>3. status' = status \/ \E g \in Group : status' = FailAll(Members(g))
      BY <1>2 DEF SchedulerStep, AddTask, AddGroup, DestroyGroup, UpdateGroup, TimerEvent,
                  EndPass, PeriodicDispatch, taskVars
    <2>4. QED
      BY <1>1, <2>1, <2>2, <2>3
  <1>3. CASE \E t \in Task : DeleteTask(t)
    <2>1. PICK t \in Task : DeleteTask(t)
      BY <1>3
    <2>2. status' = status /\ ready' = ready /\ work' = [work EXCEPT ![t] = "none"]
      BY <2>1 DEF DeleteTask, DestroyTask, sessionVars
    <2>3. \A u \in Task : work'[u] \in {work[u], "none"}
      BY <2>2 DEF BaseInv, GdkTypes
    <2>4. QED
      BY <1>1, <2>2, <2>3
  <1>4. CASE TorDone \/ \E s \in Session : NetworkUp(s) \/ NetworkDown(s) \/ AccountsSynced(s)
    BY <1>1, <1>4, SessionRefines DEF vars, taskVars, workVars
  <1>5. QED
    BY <1>2, <1>3, <1>4

\* GdkInv with the scheduler's invariant, which gives the types of its fields.
GdkIInv == SchedulerInv /\ BaseInv /\ (LoginsApart => LoginInv)

LEMMA GdkNextInv == GdkIInv /\ [GdkNext]_gdkVars => GdkIInv'
  <1> SUFFICES ASSUME GdkIInv, [GdkNext]_gdkVars PROVE GdkIInv'
    OBVIOUS
  <1> USE DEF GdkIInv
  <1>1. SchedulerInv' /\ BaseInv'
    BY StepRefines, NextInv
  <1>2. TypeOK
    BY DEF SchedulerInv
  <1>3. ASSUME LoginsApart PROVE LoginInv'
    <2>1. LoginInv
      BY <1>3
    <2>2. CASE UNCHANGED gdkVars
      BY <2>1, <2>2 DEF LoginInv, WorkingIsUnfinished, LoggedInIsDone, RunningInputsFinished,
                        InputsFinished, gdkVars, vars, taskVars, workVars, sessionVars
    <2>3. CASE GdkNext
      BY <1>2, <1>3, <2>1, <2>3, UpdateLoginInv, AnswerLoginInv, OtherLoginInv DEF GdkNext
    <2>4. QED
      BY <2>2, <2>3
  <1>4. LoginsApart' = LoginsApart
    BY DEF LoginsApart
  <1>5. QED
    BY <1>1, <1>3, <1>4

LEMMA GdkInitInv == GdkInit => GdkIInv
  <1> SUFFICES ASSUME GdkInit PROVE GdkIInv
    OBVIOUS
  <1>1. Init /\ BaseInv
    BY GdkInitBase
  <1>2. SchedulerInv
    BY <1>1, InitInv
  <1>3. LoginInv
    BY SessType, <1>1 DEF GdkInit, Init, LoginInv, WorkingIsUnfinished, LoggedInIsDone, RunningInputsFinished
  <1>4. QED
    BY <1>1, <1>2, <1>3 DEF GdkIInv

LEMMA GdkInvariant == GdkSpec => []GdkIInv
  BY GdkInitInv, GdkNextInv, PTL DEF GdkSpec

\* The invariant that TLC checks holds for any tasks and sessions (task.cpp).
THEOREM GdkCorrect == GdkSpec => []GdkInv
  <1>1. GdkIInv => GdkInv
    BY DEF GdkIInv, SchedulerInv, BaseInv, GdkTypes, GdkInv, GdkTypeOK, LoginInv
  <1>2. QED
    BY <1>1, GdkInvariant, PTL

\* Where no session has two LoginTasks, a task runs only while all that it needs is
\* Finished: no late answer takes back what it relies on (Task::setStatus).
THEOREM NoInputIsTakenBack ==
    ASSUME LoginsApart
    PROVE  GdkSpec => []RunningInputsFinished
  <1>1. GdkInv => RunningInputsFinished
    BY LoginsApart DEF GdkInv
  <1>2. QED
    BY <1>1, GdkCorrect, PTL

-----------------------------------------------------------------------------
(* Connecting. *)

\* No step takes a ConnectTask out of Failed.
LEMMA ConnectStep ==
    ASSUME GdkIInv, [GdkNext]_gdkVars, NEW t \in Task, Kind[t] = "connect", status[t] = "Failed"
    PROVE  status'[t] = "Failed"
  <1> USE DEF GdkIInv
  <1>1. TypeOK
    BY DEF SchedulerInv
  <1>2. CASE UNCHANGED gdkVars
    BY <1>2 DEF gdkVars, vars, taskVars
  <1>3. ASSUME NEW u \in Task, UpdateTask(u) PROVE status'[t] = "Failed"
    <2>1. TaskUpdate(u)
      BY <1>3, UpdateRefines
    <2>2. CASE status' = status
      BY <2>2
    <2>3. CASE Runnable(u) /\ \E s \in {"Active", "Finished"} : SetStatus(u, s)
      <3>1. u # t
        BY <2>3 DEF Runnable
      <3>2. PICK s \in {"Active", "Finished"} : SetStatus(u, s)
        BY <2>3
      <3>3. QED
        BY <1>1, <3>1, <3>2, SetStatusLemma DEF Status
    <2>4. QED
      BY <2>1, <2>2, <2>3 DEF TaskUpdate
  <1>4. ASSUME NEW u \in Task, Answer(u) \/ UserAnswer(u) PROVE status'[t] = "Failed"
    <2>1. u = t => status' = status
      BY <1>4, AnswerFacts
    <2>2. status' = status \/ \E s \in {"Ready", "Finished", "Failed"} : SetStatus(u, s)
      BY <1>4, AnswerFacts
    <2>3. QED
      BY <1>1, <2>1, <2>2, SetStatusLemma DEF Status
  <1>5. CASE SchedulerStep
    <2>1. status' = status \/ \E g \in Group : status' = FailAll(Members(g))
      BY <1>5 DEF SchedulerStep, AddTask, AddGroup, DestroyGroup, UpdateGroup, TimerEvent,
                  EndPass, PeriodicDispatch, taskVars
    <2>2. \A g \in Group : Members(g) \in SUBSET Task
      BY DEF Members
    <2>3. QED
      BY <1>1, <2>1, <2>2, FailAllLemma
  <1>6. CASE \E u \in Task : DeleteTask(u)
    BY <1>6 DEF DeleteTask, DestroyTask
  <1>7. CASE TorDone \/ \E s \in Session : NetworkUp(s) \/ NetworkDown(s) \/ AccountsSynced(s)
    BY <1>7, SessionRefines DEF vars, taskVars
  <1>8. QED
    BY <1>2, <1>3, <1>4, <1>5, <1>6, <1>7 DEF GdkNext

\* A ConnectTask that failed stays failed, whichever of its timer, its worker and the
\* connection comes last.
THEOREM FailedConnectStaysFailed == GdkSpec => ConnectFailureIsFinal
  <1> DEFINE Final == \A t \in Task : Kind[t] = "connect" /\ status[t] = "Failed"
                                         => status'[t] = "Failed"
  <1>1. GdkIInv /\ [GdkNext]_gdkVars => [Final]_gdkVars
    BY ConnectStep
  <1>2. GdkSpec => [][Final]_gdkVars
    BY <1>1, GdkInvariant, PTL DEF GdkSpec
  <1>3. QED
    BY <1>2 DEF ConnectFailureIsFinal
=============================================================================
