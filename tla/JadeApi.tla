------------------------------- MODULE JadeApi -------------------------------
(***************************************************************************)
(* JadeAPI of src/src/jade/jadeapi.cpp: requests to a Jade hardware wallet   *)
(* over a serial or Bluetooth link.  Each message has a random id that keys  *)
(* the handler of its response; calls are queued so that one is in flight at *)
(* a time, except for ping.  Firmware upload and signing are exchanges of    *)
(* several messages, and auth_user needs answers of an HTTP server between   *)
(* its messages.                                                             *)
(*                                                                           *)
(* Everything runs on the event loop, but the handler of a client may make   *)
(* further calls while the function that invoked it is still on the stack:   *)
(* `frame` is that function.  The device, the link, the HTTP server and the  *)
(* clients are external and may do what they can at any time.                *)
(***************************************************************************)
EXTENDS Naturals, Sequences, FiniteSets

CONSTANTS
    Call,      \* calls made by clients, each once
    Kind,      \* Kind[c]: which functions of the API c stands for
    Messages,  \* messages a "tx" or "ota" call sends after its first
    MaxId,     \* bound: ids that getNewId may draw, 90000 in the code
    MaxRepeats,\* bound: steps in which an id is drawn that is still remembered
    MaxHttp,   \* bound: HTTP requests of one auth_user call
    MaxDrops   \* bound: times the link is lost

\* "ping"; "info": get_version_info; "plain": a call of one message without a
\* timeout; "message": sign_message; "tx": sign_tx, sign_liquid_tx; "ota"; and
\* auth_user, "unlock" when the client does the HTTP request in the proxy itself
\* and "auth" when it does it later.
Kinds == {"ping", "info", "plain", "message", "tx", "ota", "unlock", "auth"}

ASSUME JadeAssumption ==
    /\ Kind \in [Call -> Kinds]
    /\ Messages \in Nat \ {0} /\ MaxId \in Nat \ {0}
    /\ MaxRepeats \in Nat /\ MaxHttp \in Nat /\ MaxDrops \in Nat

Id == 1..MaxId
NoId == 0
Timed == {"ping", "info"}
Auth == {"unlock", "auth"}

\* Who waits for a response: nobody, the client of a call, a call of
\* handleHttpResponse that passes it on to the handler of `to`, or a step of an
\* exchange that sends `left` more messages and reports to the handler of `to`.
Handler == [kind : {"client", "forward", "step"}, call : Call,
            to : Id \cup {NoId}, left : 0..Messages]
Nobody == [kind |-> "nobody"]
Client(c) == [kind |-> "client", call |-> c, to |-> NoId, left |-> 0]
Forward(c, i) == [kind |-> "forward", call |-> c, to |-> i, left |-> 0]
Step(c, i, n) == [kind |-> "step", call |-> c, to |-> i, left |-> n]

Message == [id : Id, call : Call]

VARIABLES
    outcome,   \* outcome[c]: "idle", "asked", or what the client got
    answers,   \* answers[c]: invocations of the client's handler
    posted,    \* calls made while locked, whose answer is posted
    locked,    \* m_locked, set by the firmware update controller
    handlers,  \* m_responseHandlers
    proxies,   \* m_request_proxy: of which kind of call, or empty
    timeouts,  \* ids in m_msg_timeout
    repeats,   \* steps in which an id was drawn that was still remembered
    clashed,   \* one was drawn while it was in use (history)
    queue,     \* m_msg_queue
    inflight,  \* m_msg_inflight
    timers,    \* timers[i]: running single shot timers of send() for i
    drainDue,  \* a drain() is posted to the event loop
    frame,     \* the function that runs: by, for which id, in a client's handler
    http,      \* messages whose HTTP request a client has yet to answer
    connected, \* the link is open
    device,    \* messages the device has received and not answered
    wire,      \* the device's answers that have not been read
    rounds,    \* rounds[c]: HTTP requests of c so far
    drops      \* times the link was lost

clientVars == <<outcome, answers>>
lockVars == <<posted, locked>>
idVars == <<repeats, clashed>>
tableVars == <<handlers, proxies, timeouts, idVars>>
sendVars == <<inflight, timers, device>>
linkVars == <<connected, wire, rounds, drops>>
vars == <<clientVars, lockVars, tableVars, sendVars, linkVars, queue, drainDue,
          frame, http>>

\* The event loop is free.
Idle == [by |-> "loop", id |-> NoId, client |-> FALSE]

-----------------------------------------------------------------------------
(* Registering handlers and sending. *)

\* The messages under way: queued, in the device, on the wire, or at the client
\* that does their HTTP request.
Queued == {queue[k] : k \in DOMAIN queue}
OnWire == {[id |-> w.id, call |-> w.call] : w \in wire}
UnderWay == Queued \cup device \cup OnWire \cup http

\* An id is in use while it has a handler, a timer, a message under way or in
\* flight, or is the one of the function that runs.  A call without a timeout
\* clashes as well with an id that has one: m_msg_timeout never forgets.
InUse(i) ==
    \/ handlers[i] # Nobody \/ timers[i] > 0 \/ i \in inflight \/ frame.id = i
    \/ \E m \in UnderWay : m.id = i
Clash(i, c) == InUse(i) \/ (i \in timeouts /\ Kind[c] \notin Timed)

\* The ids the state knows of.
Remembered ==
    {i \in Id : InUse(i) \/ i \in timeouts \/ proxies[i] # "none"
                \/ \E j \in Id : handlers[j] # Nobody /\ handlers[j].to = i}

\* The ids that getNewId may give, `known` being those of interest.  After five more
\* tries registerResponseHandler takes whatever it gives, so it may be any; the
\* others are alike, and the least stands for them.
Drawable(known) ==
    {i \in Id \ known : \A j \in Id \ known : i <= j}
    \cup (IF repeats < MaxRepeats THEN known ELSE {})

\* The ids of D are drawn for c, `twice` if one of them twice.
Draw(D, twice, c) ==
    /\ repeats' = IF twice \/ D \cap Remembered # {} THEN repeats + 1 ELSE repeats
    /\ clashed' = (clashed \/ twice \/ \E i \in D : Clash(i, c))

\* registerResponseHandler, without and with a timeout: an old handler of the id
\* is lost.  Entries of m_msg_timeout are never removed.
Registered(table, i, h) == [table EXCEPT ![i] = h]
Remember(i, c) ==
    timeouts' = IF Kind[c] \in Timed THEN timeouts \cup {i} ELSE timeouts

Armed(i) == [timers EXCEPT ![i] = IF i \in timeouts' THEN @ + 1 ELSE @]

\* A variant of send that does not count the message as in flight.
SendUncounted(m, flying) ==
    /\ device' = IF connected THEN device \cup {m} ELSE device
    /\ inflight' = flying
    /\ timers' = Armed(m.id)

\* send, with `flying` in flight: a message to a closed link is dropped without
\* notice, but counted.
Send(m, flying) ==
    /\ device' = IF connected THEN device \cup {m} ELSE device
    /\ inflight' = flying \cup {m.id}
    /\ timers' = Armed(m.id)

\* A variant of enqueue that overtakes what is queued.
EnqueueUnlessInflight(m) ==
    IF inflight = {}
    THEN Send(m, inflight) /\ UNCHANGED queue
    ELSE queue' = Append(queue, m) /\ UNCHANGED sendVars

Enqueue(m) ==
    IF inflight = {} /\ queue = <<>>
    THEN Send(m, inflight) /\ UNCHANGED queue
    ELSE queue' = Append(queue, m) /\ UNCHANGED sendVars

\* A variant of drain that forgets to dequeue.
DrainKeeping(flying) ==
    IF flying = {} /\ queue # <<>>
    THEN Send(Head(queue), flying) /\ UNCHANGED queue
    ELSE inflight' = flying /\ UNCHANGED <<queue, timers, device>>

\* drain, with `flying` in flight.
Drain(flying) ==
    IF flying = {} /\ queue # <<>>
    THEN Send(Head(queue), flying) /\ queue' = Tail(queue)
    ELSE inflight' = flying /\ UNCHANGED <<queue, timers, device>>

-----------------------------------------------------------------------------
(* The API calls.  A client calls from the event loop or from its handler. *)

Asked(c) ==
    /\ frame = Idle \/ frame.client
    /\ outcome[c] = "idle"
    /\ outcome' = [outcome EXCEPT ![c] = "asked"]
    /\ UNCHANGED <<answers, locked, linkVars, drainDue, frame, http>>

\* ping and getVersionInfo while locked.
AskLocked(c) ==
    /\ Asked(c)
    /\ Kind[c] \in Timed /\ locked
    /\ posted' = posted \cup {c}
    /\ UNCHANGED <<tableVars, sendVars, queue>>

\* A call whose first message has the client's handler; ping is not queued.
AskSimple(c) ==
    /\ Asked(c)
    /\ Kind[c] \in {"plain"} \cup Timed \cup Auth
    /\ Kind[c] \in Timed => ~locked
    /\ \E i \in Drawable(Remembered) :
          /\ handlers' = Registered(handlers, i, Client(c))
          /\ Draw({i}, FALSE, c)
          /\ Remember(i, c)
          /\ proxies' = IF Kind[c] \in Auth THEN [proxies EXCEPT ![i] = Kind[c]] ELSE proxies
          /\ IF Kind[c] = "ping"
             THEN Send([id |-> i, call |-> c], inflight) /\ UNCHANGED queue
             ELSE Enqueue([id |-> i, call |-> c])
    /\ UNCHANGED posted

\* signMessage: the closures of its two handlers hold the client's.
AskMessage(c) ==
    /\ Asked(c)
    /\ Kind[c] = "message"
    /\ \E i \in Drawable(Remembered) :
          /\ handlers' = Registered(handlers, i, Step(c, NoId, 1))
          /\ Draw({i}, FALSE, c)
          /\ UNCHANGED <<proxies, timeouts>>
          /\ Enqueue([id |-> i, call |-> c])
    /\ UNCHANGED posted

\* signTx, signLiquidTx, otaUpdate, otaDeltaUpdate: the client's handler is
\* registered first, under an id of its own.
AskExchange(c) ==
    /\ Asked(c)
    /\ Kind[c] \in {"tx", "ota"}
    /\ Kind[c] = "ota" => locked
    /\ \E i \in Drawable(Remembered) : \E j \in Drawable(Remembered \cup {i}) :
             /\ handlers' = Registered(Registered(handlers, i, Client(c)), j,
                                       Step(c, i, Messages))
             /\ Draw({i, j}, i = j, c)
             /\ UNCHANGED <<proxies, timeouts>>
             /\ Enqueue([id |-> j, call |-> c])
    /\ UNCHANGED posted

Ask(c) == AskLocked(c) \/ AskSimple(c) \/ AskMessage(c) \/ AskExchange(c)

\* The firmware update controller holds m_locked around an update.
Lock ==
    /\ frame = Idle /\ ~locked
    /\ \E c \in Call : Kind[c] = "ota" /\ outcome[c] = "idle"
    /\ locked' = TRUE
    /\ UNCHANGED <<clientVars, posted, tableVars, sendVars, linkVars, queue,
                   drainDue, frame, http>>

Unlock ==
    /\ frame = Idle /\ locked
    /\ \A c \in Call : Kind[c] = "ota" => outcome[c] # "asked"
    /\ locked' = FALSE
    /\ UNCHANGED <<clientVars, posted, tableVars, sendVars, linkVars, queue,
                   drainDue, frame, http>>

-----------------------------------------------------------------------------
(* What handlers do with a response. *)

\* With response r the handler of i hands over to the handler of another id: a
\* forward does, a failed step of an exchange does, and signTx at its end.
HandsOver(i, r) ==
    \/ handlers[i].kind = "forward"
    \/ /\ handlers[i].kind = "step"
       /\ Kind[handlers[i].call] # "message"
       /\ r # "ok" \/ (handlers[i].left = 0 /\ Kind[handlers[i].call] = "tx")

\* The ids whose handlers are to be told of the response to another.
Referred == {handlers[j].to : j \in {k \in Id : handlers[k] # Nobody}} \ {NoId}

\* S holds whatever the handlers of S hand r over to.
PassesOn(S, r) == \A j \in S : HandsOver(j, r) => handlers[j].to \in S

\* The ids callResponseHandler and forwardToResponseHandler go through for a
\* response r to i.
Passes(i, r) ==
    LET ids == {i} \cup Referred
    IN  {j \in ids : \A S \in SUBSET ids : i \in S /\ PassesOn(S, r) => j \in S}

\* The handlers at the end of that: one, or none when it is gone.
Finally(i, r) ==
    {handlers[j] : j \in {k \in Passes(i, r) : handlers[k] # Nobody /\ ~HandsOver(k, r)}}

\* A variant of take() that leaves the handlers in the table.
NotTaken(S) == handlers

\* m_responseHandlers and m_request_proxy once the entries of S are taken.
Without(S) == [j \in Id |-> IF j \in S THEN Nobody ELSE handlers[j]]
WithoutProxies(S) == [j \in Id |-> IF j \in S THEN "none" ELSE proxies[j]]

\* h goes on with the next message of its exchange after response r.
GoesOn(h, r) ==
    /\ h.kind = "step" /\ r = "ok"
    /\ Kind[h.call] = "message" => h.left > 0

\* The next message of h: a step under a new id, or ota_complete under the id of
\* the client's handler.
SendNext(h, table) ==
    \/ /\ h.left = 0
       /\ handlers' = table
       /\ UNCHANGED <<idVars, timeouts>>
       /\ Send([id |-> h.to, call |-> h.call], inflight)
    \/ /\ h.left > 0
       /\ \E n \in Drawable(Remembered) :
             /\ handlers' = Registered(table, n, Step(h.call, h.to, h.left - 1))
             /\ Draw({n}, FALSE, h.call)
             /\ UNCHANGED timeouts
             /\ Send([id |-> n, call |-> h.call], inflight)

\* The handlers on the way are taken and the client at the end, if there is one,
\* gets the response; `by` is on the stack until Return.
Conclude(i, r, by) ==
    /\ handlers' = Without(Passes(i, r))
    /\ LET clients == {h.call : h \in Finally(i, r)} IN
          /\ outcome' = [c \in Call |-> IF c \in clients THEN r ELSE outcome[c]]
          /\ answers' = [c \in Call |-> IF c \in clients THEN answers[c] + 1 ELSE answers[c]]
          /\ frame' = [by |-> by, id |-> i, client |-> clients # {}]
    /\ UNCHANGED <<idVars, timeouts>>

-----------------------------------------------------------------------------
(* The event loop. *)

\* processResponseMessage, of a result or an error.
Response(w) ==
    /\ frame = Idle /\ connected
    /\ w \in wire /\ w.result # "http"
    /\ wire' = wire \ {w}
    /\ proxies' = WithoutProxies(Passes(w.id, w.result))
    /\ \/ \E h \in Finally(w.id, w.result) :
             /\ GoesOn(h, w.result)
             /\ SendNext(h, Without(Passes(w.id, w.result)))
             /\ frame' = [by |-> "message", id |-> w.id, client |-> FALSE]
             /\ UNCHANGED clientVars
       \/ /\ \A h \in Finally(w.id, w.result) : ~GoesOn(h, w.result)
          /\ Conclude(w.id, w.result, "message")
          /\ UNCHANGED sendVars
    /\ UNCHANGED <<lockVars, connected, rounds, drops, queue, drainDue, http>>

\* handleHttpResponse: the answer goes to the device under a new id, whose
\* response is for the handler of m.  It gets the proxy of m: an empty one, which
\* operator[] inserts, when m has none.
HandleHttpResponse(m) ==
    \E n \in Drawable(Remembered) :
        /\ handlers' = Registered(handlers, n, Forward(m.call, m.id))
        /\ Draw({n}, FALSE, m.call)
        /\ LET proxy == IF proxies[m.id] = "none" THEN "empty" ELSE proxies[m.id]
           IN  proxies' = [proxies EXCEPT ![m.id] = proxy, ![n] = proxy]
        /\ UNCHANGED timeouts
        /\ Send([id |-> n, call |-> m.call], inflight)

\* processResponseMessage, of an http_request: without a proxy it is answered
\* with null, and an empty one throws, which ends the program.
HttpRequest(w) ==
    /\ frame = Idle /\ connected
    /\ w \in wire /\ w.result = "http"
    /\ wire' = wire \ {w}
    /\ frame' = [by |-> IF proxies[w.id] = "empty" THEN "end" ELSE "message",
                 id |-> w.id, client |-> FALSE]
    /\ \/ /\ proxies[w.id] \in {"none", "unlock"}
          /\ HandleHttpResponse([id |-> w.id, call |-> w.call])
          /\ UNCHANGED http
       \/ /\ proxies[w.id] \in {"auth", "empty"}
          /\ http' = IF proxies[w.id] = "auth"
                     THEN http \cup {[id |-> w.id, call |-> w.call]} ELSE http
          /\ UNCHANGED <<tableVars, sendVars>>
    /\ UNCHANGED <<clientVars, lockVars, connected, rounds, drops, queue, drainDue>>

\* The HTTP request of a login controller ends.
HttpDone(m) ==
    /\ frame = Idle
    /\ m \in http
    /\ http' = http \ {m}
    /\ HandleHttpResponse(m)
    /\ UNCHANGED <<clientVars, lockVars, linkVars, queue, drainDue, frame>>

\* The timer of send for i; it is not stopped when the response comes.
Timeout(i) ==
    /\ frame = Idle
    /\ timers[i] > 0
    /\ timers' = [timers EXCEPT ![i] = @ - 1]
    /\ IF handlers[i] = Nobody
       THEN UNCHANGED <<clientVars, tableVars, frame>>
       ELSE /\ Conclude(i, "timeout", "timer")
            /\ proxies' = WithoutProxies(Passes(i, "timeout") \ {i})
    /\ UNCHANGED <<lockVars, linkVars, inflight, device, queue, drainDue, http>>

\* The answer to a call made while locked.
Posted(c) ==
    /\ frame = Idle
    /\ c \in posted
    /\ posted' = posted \ {c}
    /\ outcome' = [outcome EXCEPT ![c] = "ok"]
    /\ answers' = [answers EXCEPT ![c] = @ + 1]
    /\ frame' = [by |-> "post", id |-> NoId, client |-> TRUE]
    /\ UNCHANGED <<locked, tableVars, sendVars, linkVars, queue, drainDue, http>>

\* Variants of the two returns: no drain is posted; the message that timed out
\* stays in flight.
ReturnQuietly ==
    /\ frame.by = "message"
    /\ inflight' = inflight \ {frame.id}
    /\ UNCHANGED <<queue, timers, device, drainDue>>

ReturnFromTimerCounting ==
    /\ frame.by = "timer"
    /\ Drain(inflight)
    /\ UNCHANGED drainDue

\* The end of processResponseMessage and of the timer's function.
ReturnFromMessage ==
    /\ frame.by = "message"
    /\ inflight' = inflight \ {frame.id}
    /\ drainDue' = TRUE
    /\ UNCHANGED <<queue, timers, device>>

ReturnFromTimer ==
    /\ frame.by = "timer"
    /\ Drain(inflight \ {frame.id})
    /\ UNCHANGED drainDue

ReturnFromPost ==
    /\ frame.by = "post"
    /\ UNCHANGED <<sendVars, queue, drainDue>>

Return ==
    /\ UNCHANGED <<clientVars, lockVars, tableVars, linkVars, http>>
    /\ ReturnFromMessage \/ ReturnFromTimer \/ ReturnFromPost
    /\ frame' = Idle

\* The posted drain.
DrainEvent ==
    /\ frame = Idle
    /\ drainDue
    /\ drainDue' = FALSE
    /\ UNCHANGED <<clientVars, lockVars, tableVars, linkVars, frame, http>>
    /\ Drain(inflight)

-----------------------------------------------------------------------------
(* The device, the link and the HTTP server. *)

\* The device answers m; only auth_user asks for HTTP requests.
DeviceAnswer(m) ==
    /\ m \in device
    /\ device' = device \ {m}
    /\ \E r \in {"ok", "error", "http"} :
          /\ r = "http" => Kind[m.call] \in Auth /\ rounds[m.call] < MaxHttp
          /\ rounds' = IF r = "http" THEN [rounds EXCEPT ![m.call] = @ + 1] ELSE rounds
          /\ wire' = wire \cup {[id |-> m.id, call |-> m.call, result |-> r]}
    /\ UNCHANGED <<clientVars, lockVars, tableVars, inflight, timers, queue, drainDue,
                   frame, http, connected, drops>>

\* The link is lost, with all that is on it and in the device.
Disconnect ==
    /\ connected /\ drops < MaxDrops
    /\ connected' = FALSE
    /\ drops' = drops + 1
    /\ device' = {} /\ wire' = {}
    /\ UNCHANGED <<clientVars, lockVars, tableVars, inflight, timers, queue, drainDue,
                   frame, http, rounds>>

Connect ==
    /\ frame = Idle /\ ~connected
    /\ connected' = TRUE
    /\ UNCHANGED <<clientVars, lockVars, tableVars, sendVars, queue, drainDue, frame,
                   http, wire, rounds, drops>>

-----------------------------------------------------------------------------
Init ==
    /\ outcome = [c \in Call |-> "idle"]
    /\ answers = [c \in Call |-> 0]
    /\ posted = {} /\ locked = FALSE
    /\ handlers = [i \in Id |-> Nobody]
    /\ proxies = [i \in Id |-> "none"] /\ timeouts = {}
    /\ repeats = 0 /\ clashed = FALSE
    /\ queue = <<>> /\ inflight = {} /\ timers = [i \in Id |-> 0]
    /\ drainDue = FALSE /\ frame = Idle
    /\ http = {}
    /\ connected = TRUE /\ device = {} /\ wire = {}
    /\ rounds = [c \in Call |-> 0] /\ drops = 0

Receive == \E w \in wire : Response(w) \/ HttpRequest(w)

Loop ==
    \/ Receive
    \/ \E i \in Id : Timeout(i)
    \/ \E c \in Call : Posted(c)
    \/ DrainEvent
    \/ Return

Next ==
    \/ \E c \in Call : Ask(c)
    \/ Lock \/ Unlock
    \/ Loop
    \/ \E m \in http : HttpDone(m)
    \/ \E m \in device : DeviceAnswer(m)
    \/ Disconnect \/ Connect

Spec == Init /\ [][Next]_vars

\* The event loop serves what is posted to it and what comes over the link.
LoopFairness ==
    /\ WF_vars(Return)
    /\ SF_vars(DrainEvent)
    /\ SF_vars(Receive)
    /\ SF_vars(\E i \in Id : Timeout(i))
    /\ SF_vars(\E c \in Call : Posted(c))

\* The device answers, and so do the HTTP server and the clients' proxies.
DeviceFairness ==
    /\ WF_vars(\E m \in device : DeviceAnswer(m))
    /\ SF_vars(\E m \in http : HttpDone(m))

LoopSpec == Spec /\ LoopFairness
FairSpec == Spec /\ LoopFairness /\ DeviceFairness

-----------------------------------------------------------------------------
(* Properties. *)

\* Type invariant; a message is sent, and its timer armed, once, unless ids clash.
TypeOK ==
    /\ outcome \in [Call -> {"idle", "asked", "ok", "error", "timeout"}]
    /\ answers \in [Call -> Nat]
    /\ posted \in SUBSET Call /\ locked \in BOOLEAN
    /\ \A i \in Id : handlers[i] = Nobody \/ handlers[i] \in Handler
    /\ proxies \in [Id -> {"none", "empty"} \cup Auth] /\ timeouts \in SUBSET Id
    /\ repeats \in 0..MaxRepeats /\ clashed \in BOOLEAN
    /\ queue \in Seq(Message)
    /\ inflight \in SUBSET Id
    /\ timers \in [Id -> IF clashed THEN Nat ELSE 0..1]
    /\ drainDue \in BOOLEAN
    /\ frame.by \in {"loop", "message", "timer", "post", "end"}
    /\ frame.id \in Id \cup {NoId} /\ frame.client \in BOOLEAN
    /\ http \subseteq Message /\ device \subseteq Message
    /\ connected \in BOOLEAN
    /\ \A w \in wire : [id |-> w.id, call |-> w.call] \in Message
    /\ rounds \in [Call -> 0..MaxHttp]
    /\ drops \in 0..MaxDrops

\* The handler of a call is invoked once, after the call, by whichever of the
\* response, a late response, the timer and the end of an exchange is first
\* (m_responseHandlers.take).
Calls == INSTANCE JadeCalls WITH
    made <- {c \in Call : outcome[c] # "idle"},
    answers <- answers
CallsAnsweredOnce == Calls!Spec

\* What makes CallsAnsweredOnce inductive: the handlers lead to ids, every client
\* that waits for the device has one handler, and no other call has any.
HandlersLead ==
    /\ handlers \in [Id -> Handler \cup {Nobody}]
    /\ \A i \in Id : \/ handlers[i].kind = "forward"
                     \/ handlers[i].kind = "step" /\ Kind[handlers[i].call] # "message"
                     => handlers[i].to \in Id
Answers(i, c) ==
    /\ handlers[i] # Nobody /\ handlers[i].call = c
    /\ handlers[i].kind = "client" \/ (handlers[i].kind = "step" /\ Kind[c] = "message")
OneHandlerEach ==
    \A i \in Id, c \in Call : Answers(i, c) =>
        /\ outcome[c] = "asked" /\ c \notin posted
        /\ \A j \in Id : Answers(j, c) => i = j
PostedAreAsked == posted \subseteq {c \in Call : outcome[c] = "asked"}
AnsweredOnce ==
    /\ outcome \in [Call -> {"idle", "asked", "ok", "error", "timeout"}]
    /\ answers = [c \in Call |-> IF outcome[c] \in {"idle", "asked"} THEN 0 ELSE 1]
MessagesAreKnown ==
    /\ queue \in Seq(Message) /\ http \subseteq Message /\ device \subseteq Message
    /\ wire \subseteq [id : Id, call : Call, result : {"ok", "error", "http"}]
CallsInv ==
    HandlersLead /\ OneHandlerEach /\ PostedAreAsked /\ AnsweredOnce /\ MessagesAreKnown

\* isBusy, by which the discovery agent decides to poll, is true exactly while a
\* client waits for the device: no handler of an exchange or of an HTTP answer is
\* left behind, and none goes before its client has the answer, unless getNewId
\* has given an id that was in use.
BusyTellsTheTruth ==
    ~clashed => ((\E i \in Id : handlers[i] # Nobody)
                    <=> (\E c \in Call \ posted : outcome[c] = "asked"))

\* c waits in the queue; c has been sent and is not answered.
Waiting(c) == \E k \in DOMAIN queue : queue[k].call = c
InProgress(c) == outcome[c] = "asked" /\ ~Waiting(c) /\ c \notin posted
Starts(c) == ~InProgress(c) /\ InProgress(c)'

\* While a call is in progress none but ping starts: the messages of a signing or
\* of a firmware upload are never mixed with those of another call, whatever
\* times out, is answered late or is called from a handler, unless getNewId has
\* given an id that was in use.  Only auth_user, between its messages, lets others
\* pass.
OneExchangeAtATime ==
    [][~clashed' => \A c \in Call : Starts(c) /\ Kind[c] # "ping" =>
          \A d \in Call \ {c} : InProgress(d) /\ InProgress(d)' => Kind[d] = "auth"]_vars

\* Queued calls start in the order they were made (enqueue, drain).
NoOvertaking ==
    [][\A c \in Call : Starts(c) /\ Kind[c] # "ping" =>
          queue = <<>> \/ Head(queue).call = c]_vars

\* What makes BusyTellsTheTruth and OneExchangeAtATime inductive, until an id is
\* drawn that is in use.  The handlers of a call are a chain from the one of its
\* last message to the client's, so that the response to this message takes them
\* all.
Unanswered(c) == outcome[c] = "asked" /\ c \notin posted
Of(c) == {i \in Id : handlers[i] # Nobody /\ handlers[i].call = c}
Last(i, c) ==
    /\ i \in Of(c)
    /\ \A j \in Of(c) : handlers[j].to # i
    /\ \A S \in SUBSET Of(c) :
          i \in S /\ (\A j \in S : handlers[j].to # NoId => handlers[j].to \in S) => S = Of(c)
ChainOf(c) ==
    IF Unanswered(c)
    THEN (\E i \in Id : Answers(i, c)) /\ (\E i \in Id : Last(i, c))
    ELSE Of(c) = {}
LinksOf(c) ==
    \A i \in Of(c) :
        /\ handlers[i].kind = "forward" => Kind[c] \in Auth
        /\ handlers[i].kind = "step" => Kind[c] \in {"message", "tx", "ota"}
        /\ handlers[i].kind = "client" \/ Kind[c] = "message" => handlers[i].to = NoId
        /\ handlers[i].to # NoId =>
               handlers[i].to \in Of(c) /\ handlers[handlers[i].to].kind # "step"
Chained == \A c \in Call : ChainOf(c) /\ LinksOf(c)

\* A message is in one place.
SentOnce ==
    /\ \A k, l \in DOMAIN queue : queue[k] = queue[l] => k = l
    /\ \A v, w \in wire : v.id = w.id /\ v.call = w.call => v = w
    /\ Queued \cap device = {} /\ Queued \cap OnWire = {} /\ Queued \cap http = {}
    /\ device \cap OnWire = {} /\ device \cap http = {} /\ OnWire \cap http = {}
MessagesHaveHandlers ==
    /\ \A m \in UnderWay :
          /\ outcome[m.call] # "idle"
          /\ handlers[m.id] # Nobody => Last(m.id, m.call)
          /\ Kind[m.call] \notin Timed \/ Unanswered(m.call) => handlers[m.id] # Nobody
          /\ Kind[m.call] = "unlock" => proxies[m.id] # "auth"
    /\ \A m \in http : Kind[m.call] \in Auth
    /\ \A w \in wire : w.result = "http" => Kind[w.call] \in Auth

\* Only timed calls time out, and the last message of a call is in flight, unless
\* it is queued or at a client, whatever the function on the stack will release.
TimersInOrder ==
    /\ timers \in [Id -> Nat]
    /\ \A i \in Id :
          /\ timers[i] > 0 => i \in timeouts
          /\ i \in timeouts /\ handlers[i] # Nobody => Kind[handlers[i].call] \in Timed
LastInFlight ==
    \A c \in Call, i \in Id : Last(i, c) /\ Kind[c] # "auth" =>
        /\ Waiting(c) \/ i \in inflight
        /\ frame.by \in {"message", "timer"} => frame.id # i
Exchanges ==
    /\ Chained /\ SentOnce /\ MessagesHaveHandlers
    /\ TimersInOrder /\ LastInFlight
ExchangeInv == CallsInv /\ (~clashed => Exchanges)

\* A message of c has been lost with the link: c is in flight, and neither the
\* device, the wire, a client's proxy nor a timer has anything more for it.
Lost(c) ==
    /\ InProgress(c)
    /\ Kind[c] \notin Timed
    /\ drops > 0
    /\ \A m \in device \cup http : m.call # c
    /\ \A w \in wire : w.call # c

\* Every call is answered, unless a call without a timeout is lost with the link or
\* an id is drawn that is in use: nothing else brings the queue to a halt, and a
\* poll that is lost does not.
EveryCallEnds ==
    \A c \in Call : outcome[c] = "asked" ~>
        (outcome[c] # "asked" \/ clashed \/ \E d \in Call : Lost(d))

\* What the comment in enqueue says: a message that is sent at once is sent with
\* nothing in progress.
NothingInProgress ==
    [][\A c \in Call : Starts(c) /\ Kind[c] # "ping" /\ queue = <<>> =>
          \A d \in Call \ {c} : ~(InProgress(d) /\ InProgress(d)')]_vars

\* What the comment in signTx says: the caller's handler is invoked when the
\* process completes or the device reports an error, and the user has a chance to
\* confirm or cancel: nothing times out.
SigningWaitsForTheUser ==
    \A c \in Call : Kind[c] = "tx" => outcome[c] # "timeout"
=============================================================================
