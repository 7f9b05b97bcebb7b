------------------------------ MODULE HttpManager ------------------------------
(***************************************************************************)
(* HttpManager of src/src/httpmanager.cpp: the queue of HTTP requests every  *)
(* part of the wallet shares, run one at a time on a session of their own    *)
(* that is made when it is needed, connected by a ConnectTask, replaced when *)
(* the network settings change and released when it has been idle.           *)
(*                                                                           *)
(* Everything runs on the event loop except the worker of the running        *)
(* request, which may outlive the request.  GDK, the settings and the clients*)
(* that make and destroy requests are external.                              *)
(***************************************************************************)
EXTENDS Naturals, Sequences, SequencesExt

CONSTANTS
    Request,      \* HttpRequestActivity objects, each handed to exec once
    NoRequest,
    Tor,          \* ConnectTasks wait for Tor first
    LateNews,     \* a ConnectTask may fail with "connected" on its way to the loop
    MaxSessions,  \* bound: sessions made
    MaxAttempts,  \* bound: ConnectTasks made
    MaxChanges,   \* bound: changes of the network settings
    MaxDrops      \* bound: connections lost

ASSUME HttpAssumption ==
    /\ NoRequest \notin Request
    /\ Tor \in BOOLEAN /\ LateNews \in BOOLEAN
    /\ MaxSessions \in Nat \ {0} /\ MaxAttempts \in Nat \ {0}
    /\ MaxChanges \in Nat /\ MaxDrops \in Nat

Sessions == 1..MaxSessions
Attempts == 1..MaxAttempts
None == 0

VARIABLES
    outcome,   \* outcome[r]: "new", "queued", "running", "finished", "failed", "gone"
    queue,     \* m_queue
    running,   \* m_running
    session,   \* m_session
    idle,      \* m_idle_timer is running
    posts,     \* calls of dispatch posted to the event loop
    worker,    \* worker[r]: the session the worker thread of r uses
    settings,  \* the network settings, by their number of changes
    made,      \* sessions made so far
    builtWith, \* builtWith[s]: settings of session s
    active,    \* active[s]: Session::m_active
    connected, \* connected[s]: Session::m_connected
    linked,    \* linked[s]: GDK has a connection for s
    news,      \* sessions whose "connected" notification is on its way
    drops,     \* connections lost so far
    attempt,   \* attempt[k]: the k-th ConnectTask: session, phase, alarm
    crashed    \* a null m_session was dereferenced

requestVars == <<outcome, queue, running, worker>>
sessionVars == <<builtWith, active, linked, made, attempt>>
networkVars == <<connected, news, drops>>
vars == <<requestVars, session, idle, posts, settings, sessionVars, networkVars, crashed>>

Unused == [session |-> None, phase |-> "unused", alarm |-> FALSE]
Started(k) == attempt[k].phase # "unused"

-----------------------------------------------------------------------------
(* dispatch. *)

\* Session s is activated and gets a ConnectTask.
Activate(s) ==
    \E k \in Attempts :
        /\ ~Started(k) /\ \A j \in 1..(k - 1) : Started(j)
        /\ active' = [active EXCEPT ![s] = TRUE]
        /\ attempt' = [attempt EXCEPT ![k] =
                          [session |-> s, phase |-> "ready", alarm |-> FALSE]]

\* A variant that replaces the session under a running request.
OutdatedAnyway(now) == session # None /\ builtWith[session] # now

\* The session is released when the settings, now `now`, are not those it was
\* made with, unless a request runs.
Outdated(now) ==
    /\ session # None /\ running = NoRequest
    /\ builtWith[session] # now

\* A variant that runs the first request but does not dequeue it.
RunKeeping(s) ==
    /\ running' = Head(queue)
    /\ outcome' = [outcome EXCEPT ![Head(queue)] = "running"]
    /\ worker' = [worker EXCEPT ![Head(queue)] = s]
    /\ UNCHANGED queue

\* The first request runs on s.
Run(s) ==
    /\ running' = Head(queue)
    /\ queue' = Tail(queue)
    /\ outcome' = [outcome EXCEPT ![Head(queue)] = "running"]
    /\ worker' = [worker EXCEPT ![Head(queue)] = s]

\* dispatch, after its caller has set connected' and settings'.
Dispatch ==
    LET s == IF Outdated(settings') THEN None ELSE session IN
    /\ idle' = (queue = <<>>)
    /\ \/ /\ queue = <<>> \/ running # NoRequest
          /\ session' = s
          /\ UNCHANGED <<requestVars, sessionVars>>
       \/ /\ queue # <<>> /\ running = NoRequest /\ s = None
          /\ made < MaxSessions
          /\ made' = made + 1
          /\ session' = made + 1
          /\ builtWith' = [builtWith EXCEPT ![made + 1] = settings']
          /\ Activate(made + 1)
          /\ UNCHANGED <<requestVars, linked>>
       \/ /\ queue # <<>> /\ running = NoRequest /\ s # None
          /\ session' = s
          /\ \/ ~active[s] /\ Activate(s) /\ UNCHANGED <<requestVars, linked, made, builtWith>>
             \/ active[s] /\ ~connected'[s] /\ UNCHANGED <<requestVars, sessionVars>>
             \/ active[s] /\ connected'[s] /\ Run(s) /\ UNCHANGED sessionVars

PostedDispatch ==
    /\ ~crashed /\ posts > 0
    /\ posts' = posts - 1
    /\ UNCHANGED <<settings, networkVars, crashed>>
    /\ Dispatch

-----------------------------------------------------------------------------
(* Clients. *)

\* exec.
Exec(r) ==
    /\ ~crashed /\ outcome[r] = "new"
    /\ outcome' = [outcome EXCEPT ![r] = "queued"]
    /\ queue' = Append(queue, r)
    /\ posts' = posts + 1
    /\ UNCHANGED <<running, worker, session, idle, settings, sessionVars, networkVars, crashed>>

\* m_queue.removeAll(r): a request is in the queue once, see RequestsAccountedFor.
QueueWithout(r) ==
    IF r \in Range(queue) THEN RemoveAt(queue, CHOOSE i \in DOMAIN queue : queue[i] = r)
    ELSE queue

\* A client is destroyed with its request (Activity::destroyed); the worker of a
\* running request goes on.
Destroy(r) ==
    /\ ~crashed /\ outcome[r] \in {"queued", "running"}
    /\ outcome' = [outcome EXCEPT ![r] = "gone"]
    /\ queue' = QueueWithout(r)
    /\ IF running = r
       THEN running' = NoRequest /\ posts' = posts + 1
       ELSE UNCHANGED <<running, posts>>
    /\ UNCHANGED <<worker, session, idle, settings, sessionVars, networkVars, crashed>>

\* The user changes the network settings.
ChangeSettings ==
    /\ ~crashed /\ settings < MaxChanges
    /\ settings' = settings + 1
    /\ UNCHANGED <<posts, networkVars, crashed>>
    /\ Dispatch

-----------------------------------------------------------------------------
(* The running request and the idle timer. *)

\* A variant that does not go on to the next request.
RequestDoneSilently(r) ==
    /\ ~crashed /\ worker[r] # None
    /\ worker' = [worker EXCEPT ![r] = None]
    /\ IF outcome[r] # "gone"
       THEN /\ \E o \in {"finished", "failed"} : outcome' = [outcome EXCEPT ![r] = o]
            /\ running' = NoRequest
       ELSE UNCHANGED <<outcome, running>>
    /\ UNCHANGED <<posts, queue, session, idle, settings, sessionVars, networkVars, crashed>>

\* The worker of r is done; r, unless destroyed, finishes or fails.
RequestDone(r) ==
    /\ ~crashed /\ worker[r] # None
    /\ worker' = [worker EXCEPT ![r] = None]
    /\ IF outcome[r] # "gone"
       THEN /\ \E o \in {"finished", "failed"} : outcome' = [outcome EXCEPT ![r] = o]
            /\ running' = NoRequest
            /\ posts' = posts + 1
       ELSE UNCHANGED <<outcome, running, posts>>
    /\ UNCHANGED <<queue, session, idle, settings, sessionVars, networkVars, crashed>>

\* The idle timer fires.  It is as long as the alarm of a ConnectTask and started
\* later, but a ConnectTask that waits for Tor has not set its alarm yet.
IdleTimeout ==
    /\ ~crashed /\ idle
    /\ \A k \in Attempts : attempt[k].session = session =>
          ~attempt[k].alarm /\ (attempt[k].phase = "ready" => Tor)
    /\ idle' = FALSE
    /\ session' = IF running = NoRequest /\ queue = <<>> THEN None ELSE session
    /\ UNCHANGED <<requestVars, posts, settings, sessionVars, networkVars, crashed>>

-----------------------------------------------------------------------------
(* ConnectTasks: see ConnectUpdate, ConnectAnswer and ConnectTimeout of GdkTasks. *)

SetPhase(k, p) == attempt' = [attempt EXCEPT ![k].phase = p]
OfManager == UNCHANGED <<posts, settings, networkVars, made, builtWith, idle, session>>

\* A variant that sets the alarm while the task still waits for Tor.
ConnectStartEarly(k) ==
    /\ ~crashed /\ attempt[k].phase = "ready" /\ ~connected[attempt[k].session]
    /\ \E p \in {"ready", "active"} :
          attempt' = [attempt EXCEPT ![k].phase = p, ![k].alarm = TRUE]
    /\ OfManager /\ UNCHANGED <<requestVars, active, linked, crashed>>

\* A pass of m_dispatcher: the task starts, or finds the session connected; GDK may
\* also say that it is connected already.
ConnectStart(k) ==
    /\ ~crashed /\ attempt[k].phase = "ready" /\ ~connected[attempt[k].session]
    /\ attempt' = [attempt EXCEPT ![k].phase = "active", ![k].alarm = TRUE]
    /\ OfManager /\ UNCHANGED <<requestVars, active, linked, crashed>>

ConnectFinish(k) ==
    /\ ~crashed /\ attempt[k].phase \in {"ready", "active"}
    /\ \/ connected[attempt[k].session]
       \/ attempt[k].phase = "active" /\ linked[attempt[k].session]
    /\ SetPhase(k, "over")
    /\ OfManager /\ UNCHANGED <<requestVars, active, linked, crashed>>

\* A variant that fails the running request with the queued ones.
FailedForAll ==
    IF session = None
    THEN crashed' = TRUE /\ UNCHANGED <<requestVars, active, linked>>
    ELSE /\ active' = [active EXCEPT ![session] = FALSE]
         /\ linked' = [linked EXCEPT ![session] = FALSE]
         /\ outcome' = [r \in Request |-> IF outcome[r] \in {"queued", "running"}
                                          THEN "failed" ELSE outcome[r]]
         /\ queue' = <<>>
         /\ UNCHANGED <<running, worker, crashed>>

\* The handler of Task::failed: it deactivates whatever session is current, and
\* fails what is queued (drain).
Failed ==
    IF session = None
    THEN crashed' = TRUE /\ UNCHANGED <<requestVars, active, linked>>
    ELSE /\ active' = [active EXCEPT ![session] = FALSE]
         /\ linked' = [linked EXCEPT ![session] = FALSE]
         /\ outcome' = [r \in Request |-> IF outcome[r] = "queued" THEN "failed" ELSE outcome[r]]
         /\ queue' = <<>>
         /\ UNCHANGED <<running, worker, crashed>>

OnTime(k) == LateNews \/ attempt[k].session \notin news

\* GA_connect reports an error.
ConnectError(k) ==
    /\ ~crashed /\ attempt[k].phase = "active" /\ OnTime(k)
    /\ ~linked[attempt[k].session] /\ ~connected[attempt[k].session]
    /\ SetPhase(k, "over")
    /\ OfManager
    /\ Failed

ConnectTimeout(k) ==
    /\ ~crashed /\ attempt[k].alarm /\ OnTime(k)
    /\ OfManager
    /\ IF attempt[k].phase = "active" /\ ~connected[attempt[k].session]
       THEN /\ attempt' = [attempt EXCEPT ![k].phase = "over", ![k].alarm = FALSE]
            /\ Failed
       ELSE /\ attempt' = [attempt EXCEPT ![k].alarm = FALSE]
            /\ UNCHANGED <<requestVars, active, linked, crashed>>

-----------------------------------------------------------------------------
(* GDK. *)

\* GDK connects s, or connects it again.
Link(s) ==
    /\ ~crashed /\ active[s] /\ ~linked[s]
    /\ \E k \in Attempts : attempt[k].session = s /\ attempt[k].phase = "active"
    /\ linked' = [linked EXCEPT ![s] = TRUE]
    /\ UNCHANGED <<requestVars, session, idle, posts, settings, builtWith, active, made,
                   attempt, networkVars, crashed>>

\* GDK notifies "connected" from a thread of its own.
Notify(s) ==
    /\ ~crashed /\ active[s] /\ linked[s] /\ ~connected[s] /\ s \notin news
    /\ news' = news \cup {s}
    /\ UNCHANGED <<requestVars, session, idle, posts, settings, sessionVars, connected,
                   drops, crashed>>

\* A variant in which nobody listens to connectedChanged.
NetworkUpUnheard(s) ==
    /\ ~crashed /\ s \in news
    /\ news' = news \ {s}
    /\ connected' = [connected EXCEPT ![s] = TRUE]
    /\ UNCHANGED <<drops, settings, posts, crashed>>
    /\ UNCHANGED <<requestVars, sessionVars, session, idle>>

\* handleNotification on the event loop: connectedChanged calls dispatch.
NetworkUp(s) ==
    /\ ~crashed /\ s \in news
    /\ news' = news \ {s}
    /\ connected' = [connected EXCEPT ![s] = TRUE]
    /\ UNCHANGED <<drops, settings, posts, crashed>>
    /\ IF connected[s] THEN UNCHANGED <<requestVars, sessionVars, session, idle>>
       ELSE Dispatch

NetworkDown(s) ==
    /\ ~crashed /\ active[s] /\ connected[s] /\ drops < MaxDrops
    /\ connected' = [connected EXCEPT ![s] = FALSE]
    /\ drops' = drops + 1
    /\ UNCHANGED <<news, settings, posts, crashed>>
    /\ Dispatch

-----------------------------------------------------------------------------
Init ==
    /\ outcome = [r \in Request |-> "new"]
    /\ queue = <<>> /\ running = NoRequest
    /\ worker = [r \in Request |-> None]
    /\ session = None /\ idle = FALSE /\ posts = 0
    /\ settings = 0 /\ made = 0
    /\ builtWith = [s \in Sessions |-> 0]
    /\ active = [s \in Sessions |-> FALSE]
    /\ connected = [s \in Sessions |-> FALSE]
    /\ linked = [s \in Sessions |-> FALSE]
    /\ news = {} /\ drops = 0
    /\ attempt = [k \in Attempts |-> Unused]
    /\ crashed = FALSE

Connecting(k) ==
    ConnectStart(k) \/ ConnectFinish(k) \/ ConnectError(k) \/ ConnectTimeout(k)

Next ==
    \/ \E r \in Request : Exec(r) \/ Destroy(r) \/ RequestDone(r)
    \/ PostedDispatch \/ ChangeSettings \/ IdleTimeout
    \/ \E k \in Attempts : Connecting(k)
    \/ \E s \in Sessions : Link(s) \/ Notify(s) \/ NetworkUp(s) \/ NetworkDown(s)

Spec == Init /\ [][Next]_vars

\* The event loop serves what is posted and every timer, a worker ends (requests
\* have a timeout), and GDK reports the connection it has; it need not get one.
FairSpec ==
    /\ Spec
    /\ WF_vars(PostedDispatch) /\ WF_vars(IdleTimeout)
    /\ \A r \in Request : WF_vars(RequestDone(r))
    /\ \A k \in Attempts : WF_vars(ConnectStart(k)) /\ WF_vars(ConnectFinish(k))
                            /\ WF_vars(ConnectTimeout(k))
    /\ \A s \in Sessions : SF_vars(Notify(s)) /\ WF_vars(NetworkUp(s))

-----------------------------------------------------------------------------
(* Properties. *)

\* Type invariant; the alarm of a ConnectTask is not set before it is active.
TypeOK ==
    /\ outcome \in [Request -> {"new", "queued", "running", "finished", "failed", "gone"}]
    /\ queue \in Seq(Request) /\ running \in Request \cup {NoRequest}
    /\ worker \in [Request -> Sessions \cup {None}]
    /\ session \in 0..made /\ made \in 0..MaxSessions
    /\ idle \in BOOLEAN /\ crashed \in BOOLEAN
    /\ posts \in Nat
    /\ settings \in 0..MaxChanges /\ builtWith \in [Sessions -> 0..MaxChanges]
    /\ active \in [Sessions -> BOOLEAN] /\ connected \in [Sessions -> BOOLEAN]
    /\ linked \in [Sessions -> BOOLEAN]
    /\ news \subseteq Sessions /\ drops \in 0..MaxDrops
    /\ attempt \in [Attempts -> {Unused} \cup
                        [session : Sessions, phase : {"ready"}, alarm : {FALSE}] \cup
                        [session : Sessions, phase : {"active", "over"}, alarm : BOOLEAN]]

\* Each request is in one place: the queue holds those that wait, once, and
\* m_running is the one that runs, through failures of connections and clients
\* that destroy requests (exec's Activity::destroyed handler, drain).
RequestsAccountedFor ==
    /\ \A r \in Request : outcome[r] = "running" <=> running = r
    /\ \A r \in Request : outcome[r] = "queued" <=> r \in Range(queue)
    /\ IsInjective(queue)

\* An activity ends once, as Activity::finish and fail assert: neither drain nor
\* the answer of a worker reaches one that has ended.
EndsOnce ==
    [][\A r \in Request : outcome[r] \in {"finished", "failed"} => outcome'[r] = outcome[r]]_vars

\* Only the running request and destroyed ones have a worker, so that the answer of
\* a worker that was left behind (finished or failed) ends no other request.
WorkersAreLive == \A r \in Request : worker[r] # None /\ outcome[r] # "gone" => running = r

\* The session is not replaced or released under a running request (the !m_running
\* and m_running tests of dispatch and of the idle timer).
RunsOnItsSession == running # NoRequest => session # None /\ worker[running] = session

\* A request that is handed to exec ends, although connections drop and clients
\* destroy other requests (dispatch is called after each of these events).
EveryRequestEnds ==
    \A r \in Request : outcome[r] \in {"queued", "running"} ~>
                       outcome[r] \in {"finished", "failed", "gone"}

\* A session with a connection is not kept when there is nothing to run.
IdleSessionIsReleased ==
    (session # None /\ active[session] /\ queue = <<>> /\ running = NoRequest) ~>
        (session = None \/ ~active[session] \/ queue # <<>> \/ running # NoRequest)

\* The inductive invariant: an answer ends the request that runs, which needs
\* WorkersAreLive, and the request that runs is not in the queue.
HttpInv == TypeOK /\ RequestsAccountedFor /\ WorkersAreLive /\ RunsOnItsSession
=============================================================================
