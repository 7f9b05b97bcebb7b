------------------------------- MODULE GdkTasks -------------------------------
(***************************************************************************)
(* The task classes of src/src/task.cpp on a GDK session: what update() of  *)
(* ConnectTask, LoginTask, the other AuthHandlerTasks, SyncAccountsTask and *)
(* the one-call loaders does, and the answers that come back later from a   *)
(* worker thread, the connect timer, the user or the hardware device.       *)
(*                                                                          *)
(* A worker's answer is queued to the event loop and handled whatever has   *)
(* happened to the task meanwhile: only ConnectTask looks at m_status first. *)
(* GDK itself (the GA_ functions) is external: it may answer anything.      *)
(***************************************************************************)
EXTENDS TaskScheduler, Naturals

CONSTANTS
    Session,
    SessionOf,    \* SessionOf[t]: SessionTask::m_session
    Kind,         \* Kind[t]: the class of t, a member of Kinds
    TorSession,   \* sessions that wait for Tor (useTor() and not useProxy())
    Interactive,  \* GDK may ask for codes and for the device
    MaxDrops,     \* bound: connections lost
    MaxNext       \* bound: rounds of GA_auth_handler_get_status per task

\* "auth" needs a connected session, "session" a logged in one; "load" is a
\* single call on a logged in session, "assets" one on any session.
Kinds == {"connect", "login", "auth", "session", "load", "assets", "sync"}

ASSUME KindAssumption ==
    /\ SessionOf \in [Task -> Session]
    /\ Kind \in [Task -> Kinds]
    /\ TorSession \subseteq Session
    /\ Interactive \in BOOLEAN
    /\ MaxDrops \in Nat
    /\ MaxNext \in Nat \ {0}

\* What a task waits for: a worker ("start": the first call; "code", "resolve",
\* "step": a later step of the auth handler), the user or the device.
Worker == {"start", "code", "resolve", "step"}
Work == Worker \cup {"none", "prompt", "device", "resolver"}

VARIABLES
    connected,  \* Session::m_connected
    ready,      \* Session::m_ready
    synced,     \* all accounts of the session are synced
    link,       \* link[s]: "none", "dialled" once GA_connect is called, "linked"
                \* once GDK has a connection
    tor,        \* the Tor session reports tag "done"
    work,       \* work[t]: the answer t waits for
    alarm,      \* alarm[t]: the single shot timer of a ConnectTask is running
    drops,      \* connections lost so far
    rounds      \* rounds[t]: calls of next() so far

sessionVars == <<connected, ready, synced, link, tor, drops>>
workVars == <<work, alarm, rounds>>
gdkVars == <<vars, sessionVars, workVars>>

Sess(t) == SessionOf[t]

\* The scheduler's view of outstanding answers.
TrackPending == pending' = {t \in Task : work'[t] # "none" \/ alarm'[t]}

-----------------------------------------------------------------------------
(* update(), called by the dispatcher on a task whose inputs are finished. *)

\* Starts the worker of t and turns it Active.
StartWorker(t) ==
    /\ SetStatus(t, "Active")
    /\ work' = [work EXCEPT ![t] = "start"]
    /\ UNCHANGED <<alarm, rounds, sessionVars>>

FinishAtOnce(t) ==
    /\ SetStatus(t, "Finished")
    /\ UNCHANGED <<workVars, sessionVars>>

Leave == UNCHANGED <<status, workVars, sessionVars>>

\* AuthHandlerTask::active and its overrides.
AuthActive(t) ==
    /\ connected[Sess(t)]
    /\ Kind[t] = "session" => ready[Sess(t)]

\* AuthHandlerTask::update.
AuthUpdate(t) ==
    IF status[t] = "Ready" /\ AuthActive(t) THEN StartWorker(t) ELSE Leave

\* LoginTask::update: nothing to do on a session that is already logged in.
LoginUpdate(t) ==
    IF ready[Sess(t)] THEN FinishAtOnce(t) ELSE AuthUpdate(t)

TorMissing(t) == Sess(t) \in TorSession /\ ~tor

\* ConnectTask::update.
ConnectUpdate(t) ==
    \/ status[t] = "Ready" /\ TorMissing(t) /\ Leave
    \/ /\ status[t] = "Ready" /\ ~TorMissing(t)
       /\ \/ connected[Sess(t)] /\ FinishAtOnce(t)
          \/ /\ ~connected[Sess(t)]
             /\ SetStatus(t, "Active")
             /\ work' = [work EXCEPT ![t] = "start"]
             /\ alarm' = [alarm EXCEPT ![t] = TRUE]
             /\ link' = [link EXCEPT ![Sess(t)] = IF @ = "none" THEN "dialled" ELSE @]
             /\ UNCHANGED <<rounds, connected, ready, synced, tor, drops>>
    \/ status[t] = "Active" /\ connected[Sess(t)] /\ FinishAtOnce(t)
    \/ status[t] = "Active" /\ ~connected[Sess(t)] /\ Leave

\* SyncAccountsTask::update: Active until every account is synced.
SyncUpdate(t) ==
    /\ SetStatus(t, IF synced[Sess(t)] THEN "Finished" ELSE "Active")
    /\ UNCHANGED <<workVars, sessionVars>>

\* update() of the loaders that make a single GDK call; a watch-only wallet and a
\* network without assets have nothing to load.
LoaderUpdate(t) ==
    \/ status[t] = "Ready" /\ FinishAtOnce(t)
    \/ status[t] = "Ready" /\ (Kind[t] = "load" => ready[Sess(t)]) /\ StartWorker(t)
    \/ (status[t] = "Active" \/ (Kind[t] = "load" /\ ~ready[Sess(t)])) /\ Leave

Update(t) ==
    CASE Kind[t] = "connect" -> ConnectUpdate(t)
      [] Kind[t] = "login" -> LoginUpdate(t)
      [] Kind[t] \in {"auth", "session"} -> AuthUpdate(t)
      [] Kind[t] \in {"load", "assets"} -> LoaderUpdate(t)
      [] Kind[t] = "sync" -> SyncUpdate(t)

\* A variant that does not look at the inputs of t.
UpdateTaskEagerly(t) ==
    /\ passing /\ t \in todo
    /\ todo' = todo \ {t}
    /\ IF status[t] \in {"Ready", "Active"} THEN Update(t) ELSE Leave
    /\ TrackPending
    /\ DispatchIfChanged(timer)
    /\ UNCHANGED <<where, groupVars, busy, passing, turn>>

\* The dispatcher comes to t.
UpdateTask(t) ==
    /\ passing /\ t \in todo
    /\ todo' = todo \ {t}
    /\ IF Runnable(t) THEN Update(t) ELSE Leave
    /\ TrackPending
    /\ DispatchIfChanged(timer)
    /\ UNCHANGED <<where, groupVars, busy, passing, turn>>

-----------------------------------------------------------------------------
(* Answers. *)

\* The frame of an answer to t: the event loop is free.
Answered(t) ==
    /\ ~passing
    /\ TrackPending
    /\ DispatchIfChanged(timer)
    /\ UNCHANGED <<where, groupVars, passVars>>

\* A variant of the watcher that trusts the task to be Active still.
ConnectAnswerUnchecked(t) ==
    /\ Kind[t] = "connect" /\ work[t] = "start"
    /\ work' = [work EXCEPT ![t] = "none"]
    /\ \/ link' = [link EXCEPT ![Sess(t)] = "linked"] /\ UNCHANGED status
       \/ SetStatus(t, "Failed") /\ UNCHANGED link
       \/ link[Sess(t)] = "linked" /\ SetStatus(t, "Finished") /\ UNCHANGED link
    /\ UNCHANGED <<alarm, rounds, connected, ready, synced, tor, drops>>
    /\ Answered(t)

\* The watcher of ConnectTask::update: it leaves a task that is no longer
\* Active alone, and one that connected without an error waits for the session.
ConnectAnswer(t) ==
    /\ Kind[t] = "connect" /\ work[t] = "start"
    /\ work' = [work EXCEPT ![t] = "none"]
    /\ \/ status[t] # "Active" /\ UNCHANGED <<status, link>>
       \/ status[t] = "Active" /\ UNCHANGED status
          /\ link' = [link EXCEPT ![Sess(t)] = "linked"]
       \/ status[t] = "Active" /\ SetStatus(t, "Failed") /\ UNCHANGED link
       \/ status[t] = "Active" /\ link[Sess(t)] = "linked"
          /\ SetStatus(t, "Finished") /\ UNCHANGED link
    /\ UNCHANGED <<alarm, rounds, connected, ready, synced, tor, drops>>
    /\ Answered(t)

\* The single shot timer of ConnectTask::update.
ConnectTimeout(t) ==
    /\ alarm[t]
    /\ alarm' = [alarm EXCEPT ![t] = FALSE]
    /\ IF status[t] = "Active" /\ ~connected[Sess(t)]
       THEN SetStatus(t, "Failed") ELSE UNCHANGED status
    /\ UNCHANGED <<work, rounds, sessionVars>>
    /\ Answered(t)

\* The answer of a loader's only call.
LoaderAnswer(t) ==
    /\ Kind[t] \in {"load", "assets"} /\ work[t] = "start"
    /\ work' = [work EXCEPT ![t] = "none"]
    /\ \E s \in {"Finished", "Failed"} : SetStatus(t, s)
    /\ UNCHANGED <<alarm, rounds, sessionVars>>
    /\ Answered(t)

\* A variant that keeps the auth handler of a finished task.
HandleDoneKeeping(t) ==
    /\ SetStatus(t, "Finished")
    /\ work' = [work EXCEPT ![t] = "done"]
    /\ ready' = IF Kind[t] = "login" THEN [ready EXCEPT ![Sess(t)] = TRUE] ELSE ready
    /\ UNCHANGED <<connected, synced, link, tor, drops>>

\* handleDone, with LoginTask's override.
HandleDone(t) ==
    /\ SetStatus(t, "Finished")
    /\ work' = [work EXCEPT ![t] = "none"]
    /\ ready' = IF Kind[t] = "login" THEN [ready EXCEPT ![Sess(t)] = TRUE] ELSE ready
    /\ UNCHANGED <<connected, synced, link, tor, drops>>

\* A failure of the handler; handleError marks the session disconnected when
\* GDK reports id_connection_failed.
HandleError(t) ==
    /\ SetStatus(t, "Failed")
    /\ work' = [work EXCEPT ![t] = "none"]
    /\ \/ UNCHANGED <<connected, drops>>
       \/ /\ drops < MaxDrops /\ connected[Sess(t)]
          /\ connected' = [connected EXCEPT ![Sess(t)] = FALSE]
          /\ drops' = drops + 1
    /\ UNCHANGED <<ready, synced, link, tor>>

\* handleRequestCode, handleResolveCode, handleCall: the task goes on waiting.
HandleMore(t) ==
    /\ rounds[t] < MaxNext
    /\ \E w \in {"step"} \cup (IF Interactive THEN {"code", "prompt", "device", "resolver"}
                               ELSE {}) :
          work' = [work EXCEPT ![t] = w]
    /\ UNCHANGED <<status, sessionVars>>

\* AuthHandlerTask::next, after a step of the auth handler succeeded.
NextStep(t) ==
    /\ rounds' = [rounds EXCEPT ![t] = IF @ < MaxNext THEN @ + 1 ELSE @]
    /\ HandleDone(t) \/ HandleError(t) \/ HandleMore(t)

IsAuth(t) == Kind[t] \in {"login", "auth", "session"}

\* The worker of an AuthHandlerTask answers.  The first call is retried when the
\* session is not connected.  Nothing looks at m_status.
AuthAnswer(t) ==
    /\ IsAuth(t) /\ work[t] \in Worker
    /\ \/ NextStep(t)
       \/ /\ work' = [work EXCEPT ![t] = "none"]
          /\ \/ SetStatus(t, "Failed")
             \/ work[t] = "start" /\ ~connected[Sess(t)] /\ SetStatus(t, "Ready")
          /\ UNCHANGED <<rounds, sessionVars>>
    /\ UNCHANGED alarm
    /\ Answered(t)

\* CodePrompt::select and resolve, DevicePrompt::select, by the user.
UserAnswer(t) ==
    /\ work[t] \in {"prompt", "device"}
    /\ \E w \in IF work[t] = "prompt" THEN {"code", "resolve"} ELSE {"resolver"} :
          work' = [work EXCEPT ![t] = w]
    /\ UNCHANGED <<status, alarm, rounds, sessionVars>>
    /\ Answered(t)

\* The device resolver: resolved goes on with resolveCode, failed fails the task.
ResolverAnswer(t) ==
    /\ work[t] = "resolver"
    /\ \/ work' = [work EXCEPT ![t] = "resolve"] /\ UNCHANGED status
       \/ work' = [work EXCEPT ![t] = "none"] /\ SetStatus(t, "Failed")
    /\ UNCHANGED <<alarm, rounds, sessionVars>>
    /\ Answered(t)

-----------------------------------------------------------------------------
(* Events of the session, which do not wake the dispatcher. *)

SessionEvent == UNCHANGED <<vars, workVars>>

\* Session::handleNotification, "network".
NetworkUp(s) ==
    /\ ~passing /\ link[s] # "none" /\ ~connected[s]
    /\ connected' = [connected EXCEPT ![s] = TRUE]
    /\ link' = [link EXCEPT ![s] = "linked"]
    /\ SessionEvent /\ UNCHANGED <<ready, synced, tor, drops>>

NetworkDown(s) ==
    /\ ~passing /\ connected[s] /\ drops < MaxDrops
    /\ connected' = [connected EXCEPT ![s] = FALSE]
    /\ drops' = drops + 1
    /\ SessionEvent /\ UNCHANGED <<ready, synced, link, tor>>

\* Context's handler of the last "synced" subaccount event.
AccountsSynced(s) ==
    /\ ~passing /\ ready[s] /\ ~synced[s]
    /\ synced' = [synced EXCEPT ![s] = TRUE]
    /\ SessionEvent /\ UNCHANGED <<connected, ready, link, tor, drops>>

TorDone ==
    /\ ~passing /\ ~tor /\ TorSession # {}
    /\ tor' = TRUE
    /\ SessionEvent /\ UNCHANGED <<connected, ready, synced, link, drops>>

-----------------------------------------------------------------------------
\* The scheduler's own steps; deleting a task cancels its answers.
SchedulerStep ==
    /\ \/ \E t \in Task, g \in Group : AddTask(t, g)
       \/ \E g \in Group : AddGroup(g) \/ DestroyGroup(g) \/ UpdateGroup(g)
       \/ TimerEvent \/ EndPass \/ PeriodicDispatch
    /\ UNCHANGED <<sessionVars, workVars>>

DeleteTask(t) ==
    /\ DestroyTask(t)
    /\ work' = [work EXCEPT ![t] = "none"]
    /\ alarm' = [alarm EXCEPT ![t] = FALSE]
    /\ UNCHANGED <<rounds, sessionVars>>

Answer(t) ==
    \/ ConnectAnswer(t) \/ ConnectTimeout(t) \/ LoaderAnswer(t)
    \/ AuthAnswer(t) \/ ResolverAnswer(t)

GdkInit ==
    /\ Init
    /\ connected = [s \in Session |-> FALSE]
    /\ ready = [s \in Session |-> FALSE]
    /\ synced = [s \in Session |-> FALSE]
    /\ link = [s \in Session |-> "none"]
    /\ tor = FALSE
    /\ work = [t \in Task |-> "none"]
    /\ alarm = [t \in Task |-> FALSE]
    /\ drops = 0
    /\ rounds = [t \in Task |-> 0]

GdkNext ==
    \/ SchedulerStep
    \/ \E t \in Task : DeleteTask(t) \/ UpdateTask(t) \/ Answer(t) \/ UserAnswer(t)
    \/ \E s \in Session : NetworkUp(s) \/ NetworkDown(s) \/ AccountsSynced(s)
    \/ TorDone

GdkSpec == GdkInit /\ [][GdkNext]_gdkVars

GdkPass ==
    \/ /\ TimerEvent \/ EndPass \/ \E g \in Group : UpdateGroup(g)
       /\ UNCHANGED <<sessionVars, workVars>>
    \/ \E t \in Task : UpdateTask(t)

\* The event loop runs: a pass that has begun ends, and what is queued (the one
\* second timer, an answer of a worker or of the device, the last account's sync
\* event) is handled at one of the moments the loop is free, hence SF.  GDK
\* reports a connection it has; the user and the network owe nothing else.
GdkFairSpec ==
    /\ GdkSpec
    /\ WF_gdkVars(GdkPass)
    /\ SF_gdkVars(PeriodicDispatch /\ UNCHANGED <<sessionVars, workVars>>)
    /\ \A t \in Task : SF_gdkVars(Answer(t))
    /\ \A s \in Session : SF_gdkVars(AccountsSynced(s))
    /\ SF_gdkVars(TorDone)
    /\ \A s \in Session : SF_gdkVars(link[s] = "linked" /\ NetworkUp(s))

-----------------------------------------------------------------------------
(* Properties. *)

\* Type invariant of the session and worker state.
GdkTypeOK ==
    /\ TypeOK
    /\ connected \in [Session -> BOOLEAN]
    /\ ready \in [Session -> BOOLEAN]
    /\ synced \in [Session -> BOOLEAN]
    /\ link \in [Session -> {"none", "dialled", "linked"}]
    /\ tor \in BOOLEAN
    /\ work \in [Task -> Work]
    /\ alarm \in [Task -> BOOLEAN]
    /\ drops \in 0..MaxDrops
    /\ rounds \in [Task -> 0..MaxNext]

\* While a task runs, everything it needs is still Finished: a failure of an
\* input, of a sibling or of the group always reaches it first (Task::setStatus).
RunningInputsFinished ==
    \A t \in Task : status[t] = "Active" => InputsFinished(t)

\* What makes RunningInputsFinished inductive: a session that is logged in has no
\* LoginTask at work, so that no answer comes to a task that has finished, except
\* that of a ConnectTask's worker, which looks at the status.  With two LoginTasks
\* on a session it does not hold, hence the first part.
LoginsApart ==
    \A t, u \in Task : Kind[t] = "login" /\ Kind[u] = "login" /\ Sess(t) = Sess(u) => t = u
WorkSuitsKind ==
    \A t \in Task : /\ work[t] \notin {"none", "start"} => IsAuth(t)
                    /\ work[t] = "start" => Kind[t] # "sync"
WorkingIsUnfinished ==
    \A t \in Task : work[t] # "none" /\ Kind[t] # "connect" => status[t] \in {"Active", "Failed"}
LoggedInIsDone ==
    \A t \in Task : Kind[t] = "login" /\ ready[Sess(t)] =>
        work[t] = "none" /\ status[t] \in {"Finished", "Failed"}

\* The scheduler's view of outstanding answers is right.
PendingIsRight == pending = {t \in Task : work[t] # "none" \/ alarm[t]}

GdkInv ==
    /\ GdkTypeOK /\ PendingIsRight /\ WorkSuitsKind
    /\ LoginsApart => WorkingIsUnfinished /\ LoggedInIsDone /\ RunningInputsFinished

\* A ConnectTask that failed stays failed, whichever of its timer, its worker
\* and the session's connection comes last (the guards in ConnectTask::update).
ConnectFailureIsFinal ==
    [][\A t \in Task : Kind[t] = "connect" /\ status[t] = "Failed"
                          => status'[t] = "Failed"]_gdkVars

\* A group all of whose tasks are there ends, as long as established connections
\* last: nobody waits for an event that does not wake the dispatcher.
GroupEnds ==
    \A g \in Group :
        (stage[g] = "listed" /\ \A t \in Task : where[t] = g)
            ~> (gstatus[g] \in {"Finished", "Failed"} \/ \E t \in Task : where[t] # g)
=============================================================================
