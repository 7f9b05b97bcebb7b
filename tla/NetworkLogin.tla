----------------------------- MODULE NetworkLogin -----------------------------
(***************************************************************************)
(* The sessions of one network of a wallet: Context (src/src/context.cpp)   *)
(* maps the network to a session and lists it, SessionManager               *)
(* (src/src/sessionmanager.cpp) keeps every session until the program ends, *)
(* and LoadController, when the wallet has been opened, logs the network in *)
(* with a group of tasks and loads it.  The handlers of that group, not the *)
(* group itself, give the session back: one when the connection times out,  *)
(* one when the login fails, and a failed group fails its finished tasks    *)
(* too, so a login that succeeded fails when anything loaded later does.    *)
(*                                                                          *)
(* Meanwhile every Account::session() asks the context for the session of   *)
(* its network and makes a new one when there is none, and afterwards the   *)
(* user may create an account, which logs the network in once more.         *)
(*                                                                          *)
(* The group is TaskScheduler's, seen from here: one pass over it is one    *)
(* step.  The chain load, synchronise, load of the accounts is one task.    *)
(***************************************************************************)
EXTENDS Naturals, FiniteSets

CONSTANTS
    MaxSessions,  \* bound: sessions made for the network
    MaxDrops      \* bound: connections lost

ASSUME BoundAssumption == MaxSessions \in Nat \ {0} /\ MaxDrops \in Nat

Session == 1 .. MaxSessions
None == 0

\* The tasks of loginNetwork, of loadNetwork, of loadNetwork2 and of
\* createStandardAccount; "views" stands for the balances, coins and
\* transactions of the accounts, "balance" for the new account's.
LoginTasks == {"connect", "assets", "login", "settings"}
Kind == LoginTasks \cup {"details", "accounts", "list", "views", "create", "balance"}

VARIABLES
    mapped,     \* Context::m_sessions of the network, None when there is none
    listed,     \* Context::m_sessions_list
    managed,    \* SessionManager::m_sessions
    garbage,    \* garbage[s]: how often s is in SessionManager::m_garbage
    made,       \* sessions made so far
    connected,  \* sessions with m_connected
    ready,      \* sessions with m_ready
    dialled,    \* sessions GA_connect was called on
    group,      \* "none", or the status of the group that loads the network
    on,         \* the session the group works on
    status,     \* status[k]: Task::m_status, "none" before k joins the group
    asked,      \* tasks with an answer of GDK to come
    alarm,      \* the timer of the ConnectTask runs
    timedOut,   \* sessions whose ConnectTask timed out
    outage,     \* the outage notification names the network
    known,      \* there are Account objects of the network
    user,       \* the session CreateAccountController works on
    open,       \* the context exists
    drops,      \* connections lost so far
    torReady,   \* the session needs no Tor, or the Tor session has reported "done"
    unreached   \* loadNetwork, loadNetwork2 or createStandardAccount got a
                \* session that is not ready: Q_UNREACHABLE

registry == <<mapped, listed, managed, garbage, made>>
links == <<connected, ready, dialled, drops, torReady>>
tasks == <<group, on, status, asked, alarm>>
rest == <<timedOut, outage, known, user, open, unreached>>
vars == <<registry, links, tasks, rest>>

Loading == group \in {"Ready", "Active"}
Ended == group \in {"Finished", "Failed"}

-----------------------------------------------------------------------------
(* Sessions. *)

\* A variant that makes a new session every time.
CreateSession ==
    /\ made < MaxSessions
    /\ made' = made + 1
    /\ mapped' = made + 1
    /\ listed' = listed \cup {made + 1}
    /\ managed' = managed \cup {made + 1}
    /\ UNCHANGED garbage

\* Context::getOrCreateSession.
GetOrCreateSession ==
    IF mapped # None
    THEN UNCHANGED registry
    ELSE /\ made < MaxSessions
         /\ made' = made + 1
         /\ mapped' = made + 1
         /\ listed' = listed \cup {made + 1}
         /\ managed' = managed \cup {made + 1}
         /\ UNCHANGED garbage

\* A variant that keeps the session in the list.
ReleaseKeepingList(s, n) ==
    /\ mapped' = IF n > 0 THEN None ELSE mapped
    /\ managed' = IF n > 0 THEN managed \ {s} ELSE managed
    /\ garbage' = IF n > 0 THEN [garbage EXCEPT ![s] = @ + n] ELSE garbage
    /\ UNCHANGED <<listed, made>>

\* n calls of Context::releaseSession(s) in a row.  The map loses whatever
\* session the network has, and the garbage list gets s every time.
ReleaseSession(s, n) ==
    /\ mapped' = IF n > 0 THEN None ELSE mapped
    /\ listed' = IF n > 0 THEN listed \ {s} ELSE listed
    /\ managed' = IF n > 0 THEN managed \ {s} ELSE managed
    /\ garbage' = IF n > 0 THEN [garbage EXCEPT ![s] = @ + n] ELSE garbage
    /\ UNCHANGED made

\* Account::session(), called by whatever an account is asked to do: block and
\* transaction events, balances, pages.
AccountSession ==
    /\ open /\ known /\ mapped = None
    /\ GetOrCreateSession
    /\ UNCHANGED <<links, tasks, rest>>

\* GDK reports a connection, or the loss of one.
NetworkUp(s) ==
    /\ open /\ s \in dialled \ connected
    /\ connected' = connected \cup {s}
    /\ UNCHANGED <<ready, dialled, drops, torReady, registry, tasks, rest>>

NetworkDown(s) ==
    /\ open /\ s \in connected /\ drops < MaxDrops
    /\ connected' = connected \ {s}
    /\ drops' = drops + 1
    /\ UNCHANGED <<ready, dialled, torReady, registry, tasks, rest>>

\* The Tor session reports that it is done.
TorDone ==
    /\ open /\ ~torReady
    /\ torReady' = TRUE
    /\ UNCHANGED <<connected, ready, dialled, drops, registry, tasks, rest>>

\* ~Context: what is listed goes to the manager's garbage.
Close ==
    /\ open /\ ~Loading
    /\ open' = FALSE
    /\ listed' = {}
    /\ mapped' = None
    /\ managed' = managed \ listed
    /\ garbage' = [s \in Session |-> garbage[s] + IF s \in listed THEN 1 ELSE 0]
    /\ user' = None
    /\ UNCHANGED <<made, links, tasks, timedOut, outage, known, unreached>>

-----------------------------------------------------------------------------
(* The group. *)

InGroup == {k \in Kind : status[k] # "none"}

\* Task::m_inputs; settings wait for the login, the login for the assets of a
\* liquid network and these for the connection.
Needs(k) ==
    CASE k = "assets" -> {"connect"}
      [] k = "login" -> {"assets"} \cap InGroup
      [] k = "settings" -> {"login"}
      [] OTHER -> {}

\* A variant that reports the failure of a failed task again.
FailingAgain(T) == T

\* The tasks of T that fail when setStatus(Failed) is called on all of them,
\* with what depends on them.
Failing(T) ==
    LET Down(k) == CASE k = "connect" /\ "assets" \in InGroup -> LoginTasks
                     [] k = "assets" -> {"login", "settings"}
                     [] k = "login" -> {"settings"}
                     [] OTHER -> {}
    IN  {k \in T \cup UNION {Down(k) : k \in T} : status[k] \notin {"none", "Failed"}}

\* The handler of LoginTask's failure.
Releases(F) == IF "login" \in F THEN 1 ELSE 0

\* A variant in which a connection that is refused shows the outage as well.
FailTasksAsOutage(T, timeout) ==
    LET F == Failing(T) IN
    /\ status' = [k \in Kind |-> IF k \in F THEN "Failed" ELSE status[k]]
    /\ ReleaseSession(on, Releases(F) + IF timeout THEN 1 ELSE 0)
    /\ timedOut' = IF timeout THEN timedOut \cup {on} ELSE timedOut
    /\ outage' = (outage \/ "connect" \in F)

\* The handlers of loginNetwork when the tasks of T fail; `timeout` when the
\* ConnectTask is one of them and its error is "timeout error".
FailTasks(T, timeout) ==
    LET F == Failing(T) IN
    /\ status' = [k \in Kind |-> IF k \in F THEN "Failed" ELSE status[k]]
    /\ ReleaseSession(on, Releases(F) + IF timeout THEN 1 ELSE 0)
    /\ timedOut' = IF timeout THEN timedOut \cup {on} ELSE timedOut
    /\ outage' = (outage \/ timeout)

\* st with the tasks of K added to the group.
Joined(st, K) == [k \in Kind |-> IF k \in K THEN "Ready" ELSE st[k]]

\* loadNetwork, loadNetwork2 and createStandardAccount add K to the group after
\* a look at the session they get.  One that is not ready is undefined
\* behaviour: the build returns or goes on.
Enter(st, K) ==
    /\ GetOrCreateSession
    /\ unreached' = (unreached \/ mapped' \notin ready')
    /\ \/ status' = Joined(st, K)
       \/ mapped' \notin ready' /\ status' = st

\* What loadNetwork adds; a hardware wallet that skips its accounts gets a
\* standard one.
LoadTasks == {{"details", "accounts"}, {"details", "create"}}

\* LoadController::load on a network that is connected and logged in.
LoadActive ==
    /\ open /\ group = "none"
    /\ listed \cap connected \cap ready # {}
    /\ on' = mapped
    /\ group' = "Ready"
    /\ UNCHANGED links
    /\ \E K \in LoadTasks : Enter(status, K)
    /\ UNCHANGED <<asked, alarm, timedOut, outage, known, user, open>>

\* A variant that forgets which session the group is for.
LoginSomeSession ==
    /\ open /\ group = "none"
    /\ listed \cap connected \cap ready = {}
    /\ GetOrCreateSession
    /\ group' = "Ready"
    /\ status' = Joined(status, {"connect", "login"})
    /\ UNCHANGED <<on, links, asked, alarm, rest>>

\* LoadController::load on another one: Context::loginNetwork.
LoginNetwork ==
    /\ open /\ group = "none"
    /\ listed \cap connected \cap ready = {}
    /\ GetOrCreateSession
    /\ on' = mapped'
    /\ group' = "Ready"
    /\ \E K \in SUBSET {"assets", "settings"} :
           status' = Joined(status, {"connect", "login"} \cup K)
    /\ UNCHANGED <<links, asked, alarm, rest>>

-----------------------------------------------------------------------------
(* A pass of the dispatcher over the group: TaskGroup::update. *)

Runnable(k) ==
    /\ status[k] \in {"Ready", "Active"}
    /\ \A u \in Needs(k) : status[u] = "Finished"

\* ConnectTask::update returns at once while it is Ready and waits for Tor.
WaitsForTor == status["connect"] = "Ready" /\ ~torReady

\* update() of the task classes: what finishes without asking GDK ...
FinishesAtOnce(k) ==
    \/ k = "connect" /\ on \in connected /\ ~WaitsForTor
    \/ k = "login" /\ on \in ready

\* ... and what asks.
Starts(k) ==
    /\ status[k] = "Ready" /\ ~FinishesAtOnce(k)
    /\ k = "connect" => ~WaitsForTor
    /\ k = "login" => on \in connected
    /\ k = "details" => on \in ready
    /\ k \notin {"connect", "assets", "login", "details"} =>
           on \in ready /\ on \in connected

\* A variant that takes a group in which nothing runs for finished.
PassFinishedIdle ==
    /\ open /\ Loading
    /\ \A k \in InGroup : status[k] # "Active"
    /\ group' = "Finished"
    /\ UNCHANGED <<registry, links, on, status, asked, alarm, rest>>

\* The scan finds every task finished.
PassFinished ==
    /\ open /\ Loading
    /\ \A k \in InGroup : status[k] = "Finished"
    /\ group' = "Finished"
    /\ UNCHANGED <<registry, links, on, status, asked, alarm, rest>>

\* The scan finds a failed task: every task of the group is set to Failed, the
\* finished ones too.  The networks that are active already share their group
\* with each other, so the task may be of another network.
PassFailed ==
    /\ open /\ Loading
    /\ (\E k \in InGroup : status[k] = "Failed") \/ status["login"] = "none"
    /\ group' = "Failed"
    /\ FailTasks(InGroup, FALSE)
    /\ UNCHANGED <<links, on, asked, alarm, known, user, open, unreached>>

\* update() is called on what may run.  The order in which the tasks joined the
\* group makes this the same as calling it on all of them at once.
PassUpdate ==
    LET done == {k \in Kind : Runnable(k) /\ FinishesAtOnce(k)}
        begun == {k \in Kind : Runnable(k) /\ Starts(k)}
        st == [k \in Kind |-> IF k \in done THEN "Finished"
                              ELSE IF k \in begun THEN "Active" ELSE status[k]]
    IN  /\ open /\ Loading
        /\ \A k \in InGroup : status[k] # "Failed"
        /\ done \cup begun # {}
        /\ group' = IF \E k \in Kind : status[k] = "Active" THEN "Active" ELSE group
        /\ asked' = asked \cup begun
        /\ alarm' = (alarm \/ "connect" \in begun)
        /\ dialled' = IF "connect" \in begun THEN dialled \cup {on} ELSE dialled
        /\ UNCHANGED <<connected, ready, drops, torReady>>
        /\ IF "login" \in done
           THEN outage' = FALSE /\ \E K \in LoadTasks : Enter(st, K)
           ELSE status' = st /\ UNCHANGED <<outage, unreached, registry>>
        /\ UNCHANGED <<on, timedOut, known, user, open>>

-----------------------------------------------------------------------------
(* Answers, whatever the status of the task has become meanwhile. *)

Answered(k) == open /\ k \in asked /\ asked' = asked \ {k}

\* The watcher of ConnectTask: it looks at the status first; a connection that
\* GDK accepts shows as a network event.  A session that was logged in before is
\* "already connected": the task finishes, whether m_connected says so or not.
ConnectAnswer ==
    /\ Answered("connect")
    /\ \/ UNCHANGED <<status, timedOut, outage, registry>>
       \/ status["connect"] = "Active" /\ FailTasks({"connect"}, FALSE)
       \/ /\ status["connect"] = "Active" /\ on \in ready
          /\ status' = [status EXCEPT !["connect"] = "Finished"]
          /\ UNCHANGED <<timedOut, outage, registry>>
    /\ UNCHANGED <<links, group, on, alarm, known, user, open, unreached>>

\* A variant that lets the timer fail a connection that is there.
ConnectTimeoutUnchecked ==
    /\ open /\ alarm
    /\ alarm' = FALSE
    /\ FailTasks({"connect"}, TRUE)
    /\ UNCHANGED <<links, group, on, asked, known, user, open, unreached>>

\* The timer of ConnectTask.
ConnectTimeout ==
    /\ open /\ alarm
    /\ alarm' = FALSE
    /\ IF status["connect"] = "Active" /\ on \notin connected
       THEN FailTasks({"connect"}, TRUE)
       ELSE UNCHANGED <<status, timedOut, outage, registry>>
    /\ UNCHANGED <<links, group, on, asked, known, user, open, unreached>>

\* LoginTask::handleDone and the handler of loginNetwork.
LoginDone ==
    /\ Answered("login")
    /\ ready' = ready \cup {on}
    /\ outage' = FALSE
    /\ UNCHANGED <<connected, dialled, drops, torReady>>
    /\ \E K \in LoadTasks : Enter([status EXCEPT !["login"] = "Finished"], K)
    /\ UNCHANGED <<group, on, alarm, timedOut, known, user, open>>

\* The accounts are loaded: a singlesig network without a native segwit account
\* gets one, and loadNetwork2 lists what there is.
AccountsDone ==
    /\ Answered("accounts")
    /\ known' = TRUE
    /\ UNCHANGED links
    /\ \E K \in {{"list"}, {"list", "create"}} :
           Enter([status EXCEPT !["accounts"] = "Finished"], K)
    /\ UNCHANGED <<group, on, alarm, timedOut, outage, user, open>>

\* The accounts are listed, or the new one is made: their balances, coins and
\* transactions are loaded from the session Account::session() returns.
ViewsWanted(k, view) ==
    /\ Answered(k)
    /\ known' = TRUE
    /\ GetOrCreateSession
    /\ status' = Joined([status EXCEPT ![k] = "Finished"], {view})
    /\ UNCHANGED <<links, group, on, alarm, timedOut, outage, user, open, unreached>>

\* The tasks whose success has no handler.
PlainDone(k) ==
    /\ k \in {"assets", "settings", "details", "views", "balance"}
    /\ Answered(k)
    /\ status' = [status EXCEPT ![k] = "Finished"]
    /\ UNCHANGED <<registry, links, group, on, alarm, rest>>

\* GDK reports an error; "id_connection_failed" also tells the session.
TaskError(k) ==
    /\ k # "connect" /\ Answered(k)
    /\ FailTasks({k}, FALSE)
    /\ \/ UNCHANGED links
       \/ /\ k \notin {"assets", "details"} /\ on \in connected /\ drops < MaxDrops
          /\ connected' = connected \ {on}
          /\ drops' = drops + 1
          /\ UNCHANGED <<ready, dialled, torReady>>
    /\ UNCHANGED <<group, on, alarm, known, user, open, unreached>>

\* A variant that leaves the task Active after "id_you_are_not_connected".
TaskRetryForgotten(k) ==
    /\ k \notin {"connect", "assets", "details"} /\ Answered(k)
    /\ on \notin connected
    /\ UNCHANGED <<status, registry, links, group, on, alarm, rest>>

\* AuthHandlerTask::update's first call answers "id_you_are_not_connected".
TaskRetry(k) ==
    /\ k \notin {"connect", "assets", "details"} /\ Answered(k)
    /\ on \notin connected
    /\ status' = [status EXCEPT ![k] = "Ready"]
    /\ UNCHANGED <<registry, links, group, on, alarm, rest>>

-----------------------------------------------------------------------------
(* The user creates an account, once the wallet is loaded. *)

\* CreateAccountController::ensureSession.
EnsureSession ==
    /\ open /\ Ended /\ user = None
    /\ GetOrCreateSession
    /\ user' = mapped'
    /\ dialled' = dialled \cup {mapped'}
    /\ UNCHANGED <<connected, ready, drops, torReady, tasks, timedOut, outage, known, open, unreached>>

\* Its tasks connect the session and log it in ...
UserLogsIn ==
    /\ open /\ user \in connected \ ready
    /\ ready' = ready \cup {user}
    /\ UNCHANGED <<connected, dialled, drops, torReady, registry, tasks, rest>>

\* ... or fail.
UserFails ==
    /\ open /\ user # None
    /\ user' = None
    /\ UNCHANGED <<registry, links, tasks, timedOut, outage, known, open, unreached>>

\* ensureAccount asks the context for the session again and makes the account.
EnsureAccount ==
    /\ open /\ user \in ready
    /\ GetOrCreateSession
    /\ known' = TRUE
    /\ user' = None
    /\ UNCHANGED <<links, tasks, timedOut, outage, open, unreached>>

-----------------------------------------------------------------------------
\* The wallet was opened with this network (its session is logged in, and the
\* connection may be gone again) or with another one.
Init ==
    /\ \E opened, up \in BOOLEAN :
           /\ mapped = IF opened THEN 1 ELSE None
           /\ made = IF opened THEN 1 ELSE 0
           /\ listed = IF opened THEN {1} ELSE {}
           /\ connected = IF opened /\ up THEN {1} ELSE {}
    /\ managed = listed
    /\ ready = listed
    /\ dialled = listed
    /\ known \in {FALSE, listed # {}}
    /\ garbage = [s \in Session |-> 0]
    /\ group = "none"
    /\ on = None
    /\ status = [k \in Kind |-> "none"]
    /\ asked = {}
    /\ alarm = FALSE
    /\ timedOut = {}
    /\ outage = FALSE
    /\ user = None
    /\ open = TRUE
    /\ drops = 0
    /\ torReady \in BOOLEAN
    /\ unreached = FALSE

Pass == PassFinished \/ PassFailed \/ PassUpdate

Answer(k) ==
    \/ k = "connect" /\ ConnectAnswer
    \/ k = "login" /\ LoginDone
    \/ k = "accounts" /\ AccountsDone
    \/ k = "list" /\ ViewsWanted("list", "views")
    \/ k = "create" /\ ViewsWanted("create", "balance")
    \/ PlainDone(k)
    \/ TaskError(k)
    \/ TaskRetry(k)

User == EnsureSession \/ UserLogsIn \/ UserFails \/ EnsureAccount

Next ==
    \/ LoadActive \/ LoginNetwork
    \/ Pass
    \/ ConnectTimeout
    \/ \E k \in Kind : Answer(k)
    \/ \E s \in Session : NetworkUp(s) \/ NetworkDown(s)
    \/ TorDone
    \/ AccountSession
    \/ User
    \/ Close

Spec == Init /\ [][Next]_vars

\* The dispatcher passes over the group, GDK answers every call, the connect
\* timer fires.
FairSpec ==
    /\ Spec
    /\ WF_vars(Pass)
    /\ WF_vars(ConnectTimeout)
    /\ \A k \in Kind : WF_vars(Answer(k))

-----------------------------------------------------------------------------
(* Properties. *)

\* Type invariant; the group works on a session as soon as there is one, and
\* only its own tasks ask GDK.
TypeOK ==
    /\ mapped \in Session \cup {None}
    /\ listed \subseteq Session /\ managed \subseteq Session
    /\ garbage \in [Session -> Nat]
    /\ made \in 0 .. MaxSessions
    /\ connected \subseteq Session /\ ready \subseteq Session
    /\ dialled \subseteq Session /\ timedOut \subseteq Session
    /\ group \in {"none", "Ready", "Active", "Finished", "Failed"}
    /\ on \in Session \cup {None}
    /\ status \in [Kind -> {"none", "Ready", "Active", "Finished", "Failed"}]
    /\ (on = None) <=> (group = "none")
    /\ asked \subseteq InGroup
    /\ alarm \in BOOLEAN /\ outage \in BOOLEAN /\ known \in BOOLEAN
    /\ open \in BOOLEAN /\ unreached \in BOOLEAN
    /\ user \in Session \cup {None}
    /\ drops \in 0 .. MaxDrops
    /\ torReady \in BOOLEAN

\* Every session is either in use, known to the context and to the manager
\* alike, or waits in the garbage for the end of the program; the map never
\* leads to a released one (Context::releaseSession, SessionManager::release).
SessionsAccountedFor ==
    /\ listed = managed
    /\ mapped # None => mapped \in listed
    /\ \A s \in 1 .. made : s \in managed <=> garbage[s] = 0

\* Only the two handlers of a connection that timed out give a session back
\* twice (the garbage list then holds it twice, and exit() deletes it twice).
ReleasedTwiceOnlyAfterTimeout ==
    \A s \in Session : garbage[s] <= IF s \in timedOut THEN 2 ELSE 1

\* A network whose group ended well keeps its session logged in and mapped,
\* whatever accounts, events and the user's account creation do with it.
LoadedNetworkStaysUsable ==
    open /\ group = "Finished" => mapped = on /\ on \in ready

\* Once the group has ended, nothing it still hears of takes the session away
\* that the creation of an account works on.
UserKeepsSession == user # None => mapped = user

\* A session the user logged in is the one the context goes on with: the list
\* LoadController::load finds its active networks in agrees with the map.
LoggedInSessionsAreMapped ==
    \A s \in listed \cap ready : mapped = s

\* The outage notification is for networks whose login did not succeed.
OutageIsTrue ==
    outage => on \in timedOut /\ (Ended => status["login"] = "Failed")

\* loadNetwork, loadNetwork2 and createStandardAccount always get a session
\* that is logged in; the code says Q_UNREACHABLE() where they do not.
LoadsLoggedInSessions == ~unreached

\* The inductive invariant behind the properties.  The login tasks go in order: no
\* answer to come can change the outcome of the login once the group has ended.
LoginInOrder ==
    /\ group = "none" => InGroup = {} /\ timedOut = {}
    /\ status["login"] = "none" => status["connect"] = "none"
    /\ status["connect"] \in {"Ready", "Active"} =>
           Loading /\ "login" \notin asked /\ status["login"] \in {"Ready", "Finished"}
    /\ status["assets"] \in {"Ready", "Active"} => Loading /\ status["login"] = "Ready"
    /\ "assets" \in asked =>
           /\ status["connect"] \notin {"Ready", "Active"}
           /\ status["assets"] \in {"Active", "Failed"}
           /\ "login" \notin asked
           /\ status["login"] = "Failed" \/ (Loading /\ status["login"] = "Ready")
    /\ "login" \in asked =>
           \/ Loading /\ status["login"] = "Active" /\ on \notin ready
           \/ group = "Failed" /\ status["login"] = "Failed"
    /\ group = "Finished" => status["login"] \in {"none", "Finished"}

\* Sessions are made one after the other, and a new one has no past.
NewSessionsAreFresh ==
    /\ listed \cup ready \subseteq 1 .. made /\ on <= made
    /\ \A s \in Session : s > made => garbage[s] = 0

\* The session of the group: until it is given back the map leads to it, no other
\* one is logged in before the group has ended, and none but it is given back,
\* once when the login fails and once when the connection times out.
GroupSession ==
    /\ on \in listed => mapped = on
    /\ open /\ group = "none" => ready \subseteq {mapped}
    /\ Loading => ready \subseteq {on}
    /\ Loading /\ status["login"] \in {"none", "Finished"} => on \in ready
    /\ open /\ group = "Finished" => on \in listed \cap ready
    /\ user # None => Ended
    /\ on \in timedOut => status["connect"] = "Failed"
    /\ open => \A s \in Session : s # on => garbage[s] = 0
    /\ open /\ on # None =>
           garbage[on] <= (IF Loading /\ status["login"] # "Failed" THEN 0 ELSE 1)
                          + (IF on \in timedOut THEN 1 ELSE 0)
    /\ outage => "login" \notin asked

\* A session is connected after it was dialled, and the session of a ConnectTask that
\* has yet to start was dialled only if it was logged in before the group.
DialledInOrder ==
    /\ connected \subseteq dialled /\ dialled \subseteq 1 .. made
    /\ group = "none" => dialled \subseteq ready
    /\ status["connect"] = "Ready" /\ on \in dialled => on \in ready

NetworkInv ==
    /\ TypeOK /\ SessionsAccountedFor /\ ReleasedTwiceOnlyAfterTimeout
    /\ UserKeepsSession /\ LoggedInSessionsAreMapped /\ OutageIsTrue
    /\ LoginInOrder /\ NewSessionsAreFresh /\ GroupSession /\ DialledInOrder

\* The group has no connection and nothing that would fail it: the connection was
\* lost, or the ConnectTask finished because GDK called the session connected when
\* m_connected said it was not, and the timer of the ConnectTask does not run.
Stranded ==
    /\ on \notin connected /\ ~alarm
    /\ drops > 0 \/ status["connect"] = "Finished"

\* The loading of the network ends, unless it is stranded or waits for a Tor session
\* that never reports "done".
LoadEnds == []<>(~Loading \/ Stranded \/ WaitsForTor)
=============================================================================
