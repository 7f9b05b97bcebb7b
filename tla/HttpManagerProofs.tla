--------------------------- MODULE HttpManagerProofs ---------------------------
(* The safety properties of HttpManager hold for any requests, sessions, lost  *)
(* connections and changes of the settings, whatever Tor and LateNews are.     *)
(* HttpInv is inductive; the requests and the sessions are dealt with apart,   *)
(* since most actions touch only one of them.                                  *)
EXTENDS HttpManager, SequenceTheorems, TLAPS

Outcomes == {"new", "queued", "running", "finished", "failed", "gone"}

\* What HttpInv says of the requests alone.
RequestsInv ==
    /\ outcome \in [Request -> Outcomes]
    /\ queue \in Seq(Request) /\ running \in Request \cup {NoRequest}
    /\ worker \in [Request -> Sessions \cup {None}]
    /\ RequestsAccountedFor /\ WorkersAreLive

AttemptTypes ==
    {Unused} \cup [session : Sessions, phase : {"ready"}, alarm : {FALSE}]
             \cup [session : Sessions, phase : {"active", "over"}, alarm : BOOLEAN]

\* What it says of the sessions, their ConnectTasks and their connections.
SessionTypes ==
    /\ session \in 0..made /\ made \in 0..MaxSessions
    /\ builtWith \in [Sessions -> 0..MaxChanges]
    /\ active \in [Sessions -> BOOLEAN] /\ linked \in [Sessions -> BOOLEAN]
    /\ attempt \in [Attempts -> AttemptTypes]

NetworkTypes ==
    /\ connected \in [Sessions -> BOOLEAN]
    /\ news \subseteq Sessions /\ drops \in 0..MaxDrops

LoopTypes ==
    /\ idle \in BOOLEAN /\ crashed \in BOOLEAN
    /\ posts \in Nat /\ settings \in 0..MaxChanges

LEMMA InvParts ==
    HttpInv <=> RequestsInv /\ SessionTypes /\ NetworkTypes /\ LoopTypes /\ RunsOnItsSession
  BY DEF HttpInv, TypeOK, RequestsInv, SessionTypes, NetworkTypes, LoopTypes, AttemptTypes,
         Outcomes

LEMMA InvPartsNext ==
    HttpInv' <=> RequestsInv' /\ SessionTypes' /\ NetworkTypes' /\ LoopTypes' /\ RunsOnItsSession'
  BY DEF HttpInv, TypeOK, RequestsInv, SessionTypes, NetworkTypes, LoopTypes, AttemptTypes,
         Outcomes

-----------------------------------------------------------------------------
(* The queue. *)

\* What enters the queue joins those that wait.
LEMMA AppendWaits ==
    ASSUME NEW S, NEW q \in Seq(S), NEW r \in S, IsInjective(q), r \notin Range(q)
    PROVE  /\ Append(q, r) \in Seq(S) /\ IsInjective(Append(q, r))
           /\ Range(Append(q, r)) = Range(q) \cup {r}
  <1> DEFINE a == Append(q, r)
  <1>1. /\ a \in Seq(S) /\ Len(a) = Len(q) + 1 /\ Len(q) \in Nat
        /\ \A i \in 1..Len(q) : a[i] = q[i]
        /\ a[Len(q) + 1] = r
    BY AppendProperties
  <1>2. DOMAIN a = 1..(Len(q) + 1) /\ DOMAIN q = 1..Len(q)
    BY <1>1
  <1> HIDE DEF a
  <1>3. IsInjective(a)
    BY <1>1, <1>2 DEF IsInjective, Range
  <1>4. Range(a) = Range(q) \cup {r}
    <2>1. Range(a) \subseteq Range(q) \cup {r}
      BY <1>1, <1>2 DEF Range
    <2>2. ASSUME NEW x \in Range(q) PROVE x \in Range(a)
      BY <1>1, <1>2 DEF Range
    <2>3. r \in Range(a)
      BY <1>1, <1>2 DEF Range
    <2>4. QED
      BY <2>1, <2>2, <2>3
  <1>5. QED
    BY <1>1, <1>3, <1>4 DEF a

\* The head of the queue is no longer in its tail.
LEMMA TailWaits ==
    ASSUME NEW S, NEW q \in Seq(S), IsInjective(q), q # <<>>
    PROVE  /\ Head(q) \in S /\ Head(q) \in Range(q)
           /\ Tail(q) \in Seq(S) /\ IsInjective(Tail(q))
           /\ Range(Tail(q)) = Range(q) \ {Head(q)}
  <1> DEFINE t == Tail(q)
  <1>1. /\ Head(q) \in S /\ t \in Seq(S) /\ Len(t) = Len(q) - 1
        /\ \A i \in 1..Len(t) : t[i] = q[i + 1]
    BY HeadTailProperties
  <1>2. Head(q) = q[1] /\ Len(q) \in Nat /\ Len(q) > 0
    BY EmptySeq
  <1>3. DOMAIN t = 1..(Len(q) - 1) /\ DOMAIN q = 1..Len(q)
    BY <1>1
  <1> HIDE DEF t
  <1>4. IsInjective(t)
    BY <1>1, <1>2, <1>3 DEF IsInjective
  <1>5. Range(t) \subseteq Range(q) \ {Head(q)}
    BY <1>1, <1>2, <1>3 DEF IsInjective, Range
  <1>6. ASSUME NEW x \in Range(q) \ {Head(q)} PROVE x \in Range(t)
    <2>1. PICK i \in 1..Len(q) : q[i] = x
      BY <1>3 DEF Range
    <2>2. i - 1 \in 1..Len(t) /\ t[i - 1] = x
      BY <2>1, <1>1, <1>2, <1>3
    <2>3. QED
      BY <2>2, <1>1, <1>3 DEF Range
  <1>7. Head(q) \in Range(q)
    BY <1>2, <1>3 DEF Range
  <1>8. QED
    BY <1>1, <1>4, <1>5, <1>6, <1>7 DEF t

\* A request that is removed leaves the others waiting.
LEMMA RemovedWaits ==
    ASSUME NEW S, NEW q \in Seq(S), IsInjective(q), NEW n \in 1..Len(q)
    PROVE  /\ RemoveAt(q, n) \in Seq(S) /\ IsInjective(RemoveAt(q, n))
           /\ Range(RemoveAt(q, n)) = Range(q) \ {q[n]}
  <1> DEFINE a == SubSeq(q, 1, n - 1)
             b == SubSeq(q, n + 1, Len(q))
             w == a \o b
  <1>1. Len(q) \in Nat /\ DOMAIN q = 1..Len(q) /\ \A i \in 1..Len(q) : q[i] \in S
    BY ElementOfSeq
  <1>2. a \in Seq(S) /\ Len(a) = n - 1 /\ \A i \in 1..(n - 1) : a[i] = q[i]
    BY <1>1, SubSeqProperties
  <1>3. /\ b \in Seq(S) /\ Len(b) = Len(q) - n
        /\ \A i \in 1..(Len(q) - n) : b[i] = q[n + i]
    <2>1. n + 1 \in Int /\ Len(q) \in Int /\ \A i \in (n + 1)..Len(q) : q[i] \in S
      BY <1>1
    <2>2. /\ b \in Seq(S) /\ Len(b) = IF n + 1 <= Len(q) THEN Len(q) - (n + 1) + 1 ELSE 0
          /\ \A i \in 1..(Len(q) - (n + 1) + 1) : b[i] = q[n + 1 + i - 1]
      BY ONLY <2>1, SubSeqProperties
    <2>3. \A i \in 1..(Len(q) - n) : n + 1 + i - 1 = n + i
      BY <1>1
    <2>4. 1..(Len(q) - (n + 1) + 1) = 1..(Len(q) - n) /\ Len(b) = Len(q) - n
      <3>1. n \in Nat /\ n <= Len(q) /\ Len(q) \in Nat
        BY <1>1
      <3>2. Len(q) - (n + 1) + 1 = Len(q) - n
        BY <3>1
      <3>3. Len(b) = Len(q) - n
        BY <3>1, <2>2
      <3>4. QED
        BY ONLY <3>2, <3>3
    <2>5. QED
      <3>1. \A i \in 1..(Len(q) - n) : b[i] = q[n + i]
        BY ONLY <2>2, <2>3, <2>4
      <3>2. QED
        BY ONLY <2>2, <2>4, <3>1
  <1> HIDE DEF a, b
  <1>4. /\ w \in Seq(S) /\ Len(w) = Len(q) - 1
        /\ \A i \in 1..(Len(q) - 1) : w[i] = IF i <= n - 1 THEN a[i] ELSE b[i - (n - 1)]
    <2>1. /\ w \in Seq(S) /\ Len(w) = Len(a) + Len(b)
          /\ \A i \in 1..(Len(a) + Len(b)) : w[i] = IF i <= Len(a) THEN a[i] ELSE b[i - Len(a)]
      BY ONLY <1>2, <1>3, ConcatProperties DEF w
    <2>2. Len(a) + Len(b) = Len(q) - 1
      BY <1>1, <1>2, <1>3
    <2>3. QED
      BY ONLY <1>2, <2>1, <2>2
  <1> HIDE DEF w
  <1>5. \A i \in 1..(Len(q) - 1) : w[i] = q[IF i < n THEN i ELSE i + 1]
    BY <1>1, <1>2, <1>3, <1>4
  <1>6. DOMAIN w = 1..(Len(q) - 1)
    BY <1>4
  <1>7. IsInjective(w)
    BY <1>1, <1>5, <1>6 DEF IsInjective
  <1>8. Range(w) \subseteq Range(q) \ {q[n]}
    BY <1>1, <1>5, <1>6 DEF IsInjective, Range
  <1>9. ASSUME NEW x \in Range(q) \ {q[n]} PROVE x \in Range(w)
    <2>1. PICK i \in 1..Len(q) : q[i] = x
      BY <1>1 DEF Range
    <2>2. CASE i < n
      <3>1. i \in 1..(Len(q) - 1) /\ w[i] = x
        BY <2>1, <2>2, <1>1, <1>5
      <3>2. QED
        BY <3>1, <1>6 DEF Range
    <2>3. CASE i > n
      <3>1. i - 1 \in 1..(Len(q) - 1) /\ w[i - 1] = x
        BY <2>1, <2>3, <1>1, <1>5
      <3>2. QED
        BY <3>1, <1>6 DEF Range
    <2>4. QED
      BY <2>1, <2>2, <2>3, <1>1
  <1>10. QED
    BY <1>4, <1>7, <1>8, <1>9 DEF RemoveAt, w, a, b

-----------------------------------------------------------------------------
(* The requests. *)

LEMMA UntouchedRequests ==
    RequestsInv /\ UNCHANGED requestVars => RequestsInv'
  BY DEF RequestsInv, requestVars, RequestsAccountedFor, WorkersAreLive

\* A request that starts leaves the queue and is the one that runs.
LEMMA RunRequests ==
    ASSUME RequestsInv, running = NoRequest, queue # <<>>, NEW s \in Sessions, Run(s)
    PROVE  /\ RequestsInv'
           /\ running' \in Request /\ worker'[running'] = s
           /\ outcome[running'] = "queued"
  <1> DEFINE r == Head(queue)
  <1>1. /\ r \in Request /\ r \in Range(queue) /\ queue' \in Seq(Request)
        /\ IsInjective(queue') /\ Range(queue') = Range(queue) \ {r}
    BY TailWaits DEF RequestsInv, RequestsAccountedFor, Run
  <1>2. /\ running' = r /\ outcome' = [outcome EXCEPT ![r] = "running"]
        /\ worker' = [worker EXCEPT ![r] = s]
    BY DEF Run
  <1> HIDE DEF r
  <1>3. s # None /\ outcome[r] = "queued"
    BY <1>1 DEF RequestsInv, RequestsAccountedFor, Sessions, None
  <1>4. RequestsAccountedFor'
    BY <1>1, <1>2, HttpAssumption DEF RequestsInv, RequestsAccountedFor
  <1>5. WorkersAreLive'
    BY <1>1, <1>2, <1>3, HttpAssumption DEF RequestsInv, RequestsAccountedFor, WorkersAreLive
  <1>6. QED
    BY <1>1, <1>2, <1>3, <1>4, <1>5 DEF RequestsInv, Outcomes

\* A request that is queued is not running and was not queued before.
LEMMA ExecRequests ==
    ASSUME RequestsInv, NEW r \in Request, Exec(r)
    PROVE  RequestsInv'
  <1>1. /\ outcome' = [outcome EXCEPT ![r] = "queued"] /\ queue' = Append(queue, r)
        /\ outcome[r] = "new" /\ running' = running /\ worker' = worker
    BY DEF Exec
  <1>2. r \notin Range(queue)
    BY <1>1 DEF RequestsInv, RequestsAccountedFor
  <1>3. /\ queue' \in Seq(Request) /\ IsInjective(queue')
        /\ Range(queue') = Range(queue) \cup {r}
    BY <1>1, <1>2, AppendWaits DEF RequestsInv, RequestsAccountedFor
  <1>4. RequestsAccountedFor' /\ WorkersAreLive'
    BY <1>1, <1>3 DEF RequestsInv, RequestsAccountedFor, WorkersAreLive
  <1>5. QED
    BY <1>1, <1>3, <1>4 DEF RequestsInv, Outcomes

\* removeAll leaves the other requests in the queue.
LEMMA WithoutRequest ==
    ASSUME RequestsInv, NEW r \in Request
    PROVE  /\ QueueWithout(r) \in Seq(Request) /\ IsInjective(QueueWithout(r))
           /\ Range(QueueWithout(r)) = Range(queue) \ {r}
  <1>1. queue \in Seq(Request) /\ IsInjective(queue)
    BY DEF RequestsInv, RequestsAccountedFor
  <1>2. CASE r \in Range(queue)
    <2> DEFINE n == CHOOSE i \in DOMAIN queue : queue[i] = r
    <2>1. n \in 1..Len(queue) /\ queue[n] = r
      BY <1>1, <1>2 DEF Range
    <2>2. QueueWithout(r) = RemoveAt(queue, n)
      BY <1>2 DEF QueueWithout
    <2> HIDE DEF n
    <2>3. QED
      BY <1>1, <2>1, <2>2, RemovedWaits
  <1>3. CASE r \notin Range(queue)
    BY <1>1, <1>3 DEF QueueWithout
  <1>4. QED
    BY <1>2, <1>3

\* A request that is destroyed is neither queued nor running afterwards; if it ran,
\* its worker is left behind.
LEMMA DestroyRequests ==
    ASSUME RequestsInv, NEW r \in Request, Destroy(r)
    PROVE  RequestsInv'
  <1>1. /\ outcome' = [outcome EXCEPT ![r] = "gone"] /\ queue' = QueueWithout(r)
        /\ outcome[r] \in {"queued", "running"} /\ worker' = worker
        /\ running' = IF running = r THEN NoRequest ELSE running
    BY DEF Destroy
  <1>2. /\ queue' \in Seq(Request) /\ IsInjective(queue')
        /\ Range(queue') = Range(queue) \ {r}
    BY <1>1, WithoutRequest
  <1>3. RequestsAccountedFor' /\ WorkersAreLive'
    BY <1>1, <1>2, HttpAssumption DEF RequestsInv, RequestsAccountedFor, WorkersAreLive
  <1>4. QED
    BY <1>1, <1>2, <1>3 DEF RequestsInv, Outcomes

\* The answer of a worker ends the request that runs, or none.
LEMMA DoneRequests ==
    ASSUME RequestsInv, NEW r \in Request, RequestDone(r)
    PROVE  RequestsInv' /\ (outcome[r] # "gone" => outcome[r] = "running")
  <1>1. outcome[r] # "gone" => running = r /\ outcome[r] = "running"
    BY DEF RequestsInv, RequestsAccountedFor, WorkersAreLive, RequestDone
  <1>2. CASE outcome[r] = "gone"
    <2>1. /\ worker' = [worker EXCEPT ![r] = None]
          /\ UNCHANGED <<outcome, queue, running>>
      BY <1>2 DEF RequestDone
    <2>2. RequestsAccountedFor' /\ WorkersAreLive'
      BY <2>1, <1>2 DEF RequestsInv, RequestsAccountedFor, WorkersAreLive
    <2>3. QED
      BY <1>1, <2>1, <2>2 DEF RequestsInv
  <1>3. CASE outcome[r] # "gone"
    <2>1. PICK o \in {"finished", "failed"} : outcome' = [outcome EXCEPT ![r] = o]
      BY <1>3 DEF RequestDone
    <2>2. /\ worker' = [worker EXCEPT ![r] = None] /\ queue' = queue
          /\ running' = NoRequest
      BY <1>3 DEF RequestDone
    <2>3. RequestsAccountedFor' /\ WorkersAreLive'
      BY <1>1, <1>3, <2>1, <2>2, HttpAssumption
      DEF RequestsInv, RequestsAccountedFor, WorkersAreLive
    <2>4. QED
      BY <1>1, <2>1, <2>2, <2>3 DEF RequestsInv, Outcomes
  <1>4. QED
    BY <1>2, <1>3

\* drain empties the queue and leaves the running request alone.
LEMMA FailedRequests ==
    ASSUME RequestsInv, Failed
    PROVE  /\ RequestsInv' /\ running' = running /\ worker' = worker
           /\ \A r \in Request : outcome[r] # "queued" => outcome'[r] = outcome[r]
  <1>1. CASE session = None
    BY <1>1, UntouchedRequests DEF Failed, requestVars
  <1>2. CASE session # None
    <2>1. /\ outcome' = [r \in Request |-> IF outcome[r] = "queued" THEN "failed" ELSE outcome[r]]
          /\ queue' = <<>> /\ running' = running /\ worker' = worker
      BY <1>2 DEF Failed
    <2>2. queue' \in Seq(Request) /\ Range(queue') = {} /\ IsInjective(queue')
      BY <2>1 DEF Range, IsInjective
    <2>3. RequestsAccountedFor' /\ WorkersAreLive'
      BY <2>1, <2>2 DEF RequestsInv, RequestsAccountedFor, WorkersAreLive
    <2>4. QED
      BY <2>1, <2>2, <2>3 DEF RequestsInv, Outcomes
  <1>3. QED
    BY <1>1, <1>2

-----------------------------------------------------------------------------
(* The sessions. *)

LEMMA UntouchedSessions ==
    SessionTypes /\ UNCHANGED <<session, sessionVars>> => SessionTypes'
  BY DEF SessionTypes, sessionVars

LEMMA UntouchedRunning ==
    RunsOnItsSession /\ UNCHANGED <<running, worker, session>> => RunsOnItsSession'
  BY DEF RunsOnItsSession

\* A session that is activated gets a ConnectTask that has not started.
LEMMA ActivateTypes ==
    ASSUME active \in [Sessions -> BOOLEAN], attempt \in [Attempts -> AttemptTypes],
           NEW s \in Sessions, Activate(s)
    PROVE  active' \in [Sessions -> BOOLEAN] /\ attempt' \in [Attempts -> AttemptTypes]
  <1>1. PICK k \in Attempts :
            attempt' = [attempt EXCEPT ![k] =
                           [session |-> s, phase |-> "ready", alarm |-> FALSE]]
    BY DEF Activate
  <1>2. [session |-> s, phase |-> "ready", alarm |-> FALSE] \in AttemptTypes
    BY DEF AttemptTypes
  <1>3. QED
    BY <1>1, <1>2 DEF Activate

\* dispatch, whatever it is called from: only a session that no request runs on is
\* released, and a request that starts does so on the session that is kept.
LEMMA DispatchInv ==
    ASSUME RequestsInv, SessionTypes, RunsOnItsSession, Dispatch, settings' \in 0..MaxChanges
    PROVE  /\ RequestsInv' /\ SessionTypes' /\ RunsOnItsSession' /\ idle' \in BOOLEAN
           /\ \A r \in Request : outcome[r] # "queued" => outcome'[r] = outcome[r]
  <1> DEFINE s == IF Outdated(settings') THEN None ELSE session
  <1>1. idle' \in BOOLEAN
    BY DEF Dispatch
  <1>2. s \in 0..made /\ (running # NoRequest => s = session)
    BY DEF SessionTypes, Outdated, None
  <1>3. CASE /\ queue = <<>> \/ running # NoRequest
             /\ session' = s /\ UNCHANGED <<requestVars, sessionVars>>
    <2>1. RequestsInv' /\ outcome' = outcome
      BY <1>3, UntouchedRequests DEF requestVars
    <2>2. SessionTypes'
      BY <1>2, <1>3 DEF SessionTypes, sessionVars
    <2>3. RunsOnItsSession'
      BY <1>2, <1>3 DEF RunsOnItsSession, requestVars
    <2>4. QED
      BY <1>1, <2>1, <2>2, <2>3
  <1>4. CASE /\ queue # <<>> /\ running = NoRequest /\ s = None /\ made < MaxSessions
             /\ made' = made + 1 /\ session' = made + 1
             /\ builtWith' = [builtWith EXCEPT ![made + 1] = settings']
             /\ Activate(made + 1)
             /\ UNCHANGED <<requestVars, linked>>
    <2>1. RequestsInv' /\ outcome' = outcome
      BY <1>4, UntouchedRequests DEF requestVars
    <2>2. made + 1 \in Sessions /\ made + 1 \in 0..MaxSessions /\ made + 1 \in 0..(made + 1)
      BY <1>4, HttpAssumption DEF SessionTypes, Sessions
    <2>3. active' \in [Sessions -> BOOLEAN] /\ attempt' \in [Attempts -> AttemptTypes]
      BY <1>4, <2>2, ActivateTypes DEF SessionTypes
    <2>4. SessionTypes'
      BY <1>4, <2>2, <2>3 DEF SessionTypes
    <2>5. RunsOnItsSession'
      BY <1>4 DEF RunsOnItsSession, requestVars
    <2>6. QED
      BY <1>1, <2>1, <2>4, <2>5
  <1>5. CASE /\ queue # <<>> /\ running = NoRequest /\ s # None /\ session' = s
             /\ \/ Activate(s) /\ UNCHANGED <<requestVars, linked, made, builtWith>>
                \/ UNCHANGED <<requestVars, sessionVars>>
                \/ Run(s) /\ UNCHANGED sessionVars
    <2>1. s \in Sessions
      BY <1>2, <1>5, HttpAssumption DEF SessionTypes, Sessions, None
    <2> HIDE DEF s
    <2>2. CASE Activate(s) /\ UNCHANGED <<requestVars, linked, made, builtWith>>
      <3>1. RequestsInv' /\ outcome' = outcome /\ running' = NoRequest
        BY <1>5, <2>2, UntouchedRequests DEF requestVars
      <3>2. active' \in [Sessions -> BOOLEAN] /\ attempt' \in [Attempts -> AttemptTypes]
        BY <2>1, <2>2, ActivateTypes DEF SessionTypes
      <3>3. SessionTypes'
        BY <1>2, <1>5, <2>2, <3>2 DEF SessionTypes
      <3>4. QED
        BY <1>1, <3>1, <3>3 DEF RunsOnItsSession
    <2>3. CASE UNCHANGED <<requestVars, sessionVars>>
      <3>1. RequestsInv' /\ outcome' = outcome /\ running' = NoRequest
        BY <1>5, <2>3, UntouchedRequests DEF requestVars
      <3>2. SessionTypes'
        BY <1>2, <1>5, <2>3 DEF SessionTypes, sessionVars
      <3>3. QED
        BY <1>1, <3>1, <3>2 DEF RunsOnItsSession
    <2>4. CASE Run(s) /\ UNCHANGED sessionVars
      <3>1. /\ RequestsInv' /\ running' \in Request /\ worker'[running'] = s
            /\ outcome[running'] = "queued"
        BY <1>5, <2>1, <2>4, RunRequests
      <3>2. SessionTypes'
        BY <1>2, <1>5, <2>4 DEF SessionTypes, sessionVars
      <3>3. RunsOnItsSession'
        BY <1>5, <3>1 DEF RunsOnItsSession
      <3>4. \A r \in Request : outcome[r] # "queued" => outcome'[r] = outcome[r]
        BY <2>4, <3>1 DEF Run, RequestsInv
      <3>5. QED
        BY <1>1, <3>1, <3>2, <3>3, <3>4
    <2>5. QED
      BY <1>5, <2>2, <2>3, <2>4
  <1>6. QED
    BY <1>3, <1>4, <1>5, Zenon DEF Dispatch

-----------------------------------------------------------------------------
(* ConnectTasks. *)

\* What a ConnectTask may become.
LEMMA AttemptMoves ==
    ASSUME NEW a \in AttemptTypes
    PROVE  /\ a.phase # "unused" => a.session \in Sessions
           /\ a.phase = "ready" => [a EXCEPT !.phase = "active", !.alarm = TRUE] \in AttemptTypes
           /\ a.phase \in {"ready", "active"} => [a EXCEPT !.phase = "over"] \in AttemptTypes
           /\ a.phase = "active" =>
                 [a EXCEPT !.phase = "over", !.alarm = FALSE] \in AttemptTypes
           /\ a.alarm => [a EXCEPT !.alarm = FALSE] \in AttemptTypes
  <1>1. CASE a = Unused
    BY <1>1 DEF Unused
  <1>2. CASE a \in [session : Sessions, phase : {"ready"}, alarm : {FALSE}]
    <2>1. a.session \in Sessions /\ a.phase = "ready" /\ a.alarm = FALSE
      BY <1>2
    <2>2. [a EXCEPT !.phase = "active", !.alarm = TRUE] \in
              [session : Sessions, phase : {"active", "over"}, alarm : BOOLEAN]
      BY <1>2
    <2>3. [a EXCEPT !.phase = "over"] \in
              [session : Sessions, phase : {"active", "over"}, alarm : BOOLEAN]
      BY <1>2
    <2>4. QED
      BY <2>1, <2>2, <2>3 DEF AttemptTypes
  <1>3. CASE a \in [session : Sessions, phase : {"active", "over"}, alarm : BOOLEAN]
    BY <1>3 DEF AttemptTypes
  <1>4. QED
    BY <1>1, <1>2, <1>3 DEF AttemptTypes

\* The failure handler deactivates the session and leaves it where it is.
LEMMA FailedSessions ==
    ASSUME SessionTypes, Failed, crashed \in BOOLEAN
    PROVE  /\ active' \in [Sessions -> BOOLEAN] /\ linked' \in [Sessions -> BOOLEAN]
           /\ crashed' \in BOOLEAN
  BY DEF SessionTypes, Failed

\* A ConnectTask that moves on leaves requests and sessions alone, unless it fails.
LEMMA ConnectingInv ==
    ASSUME HttpInv, NEW k \in Attempts, Connecting(k)
    PROVE  /\ HttpInv'
           /\ \A r \in Request : outcome[r] # "queued" => outcome'[r] = outcome[r]
  <1>1. RequestsInv /\ SessionTypes /\ NetworkTypes /\ LoopTypes /\ RunsOnItsSession
    BY InvParts
  <1>2. attempt \in [Attempts -> AttemptTypes] /\ attempt[k] \in AttemptTypes
    BY <1>1 DEF SessionTypes
  <1>3. /\ UNCHANGED <<posts, settings, idle, session, made, builtWith, connected, news, drops>>
        /\ \/ UNCHANGED <<requestVars, active, linked, crashed>>
           \/ Failed
    BY DEF Connecting, ConnectStart, ConnectFinish, ConnectError, ConnectTimeout, OfManager,
           networkVars
  <1>4. attempt' \in [Attempts -> AttemptTypes]
    <2>1. CASE ConnectStart(k)
      BY <2>1, <1>2, AttemptMoves DEF ConnectStart
    <2>2. CASE ConnectFinish(k)
      BY <2>2, <1>2, AttemptMoves DEF ConnectFinish, SetPhase
    <2>3. CASE ConnectError(k)
      BY <2>3, <1>2, AttemptMoves DEF ConnectError, SetPhase
    <2>4. CASE ConnectTimeout(k)
      BY <2>4, <1>2, AttemptMoves DEF ConnectTimeout
    <2>5. QED
      BY <2>1, <2>2, <2>3, <2>4 DEF Connecting
  <1>5. CASE UNCHANGED <<requestVars, active, linked, crashed>>
    <2>1. RequestsInv' /\ outcome' = outcome
      BY <1>1, <1>5, UntouchedRequests DEF requestVars
    <2>2. SessionTypes' /\ NetworkTypes' /\ LoopTypes'
      BY <1>1, <1>3, <1>4, <1>5 DEF SessionTypes, NetworkTypes, LoopTypes
    <2>3. RunsOnItsSession'
      BY <1>1, <1>3, <1>5, UntouchedRunning DEF requestVars
    <2>4. QED
      BY <2>1, <2>2, <2>3, InvPartsNext
  <1>6. CASE Failed
    <2>1. /\ RequestsInv' /\ running' = running /\ worker' = worker
          /\ \A r \in Request : outcome[r] # "queued" => outcome'[r] = outcome[r]
      BY <1>1, <1>6, FailedRequests
    <2>2. /\ active' \in [Sessions -> BOOLEAN] /\ linked' \in [Sessions -> BOOLEAN]
          /\ crashed' \in BOOLEAN
      BY <1>1, <1>6, FailedSessions DEF LoopTypes
    <2>3. SessionTypes' /\ NetworkTypes' /\ LoopTypes'
      BY <1>1, <1>3, <1>4, <2>2 DEF SessionTypes, NetworkTypes, LoopTypes
    <2>4. RunsOnItsSession'
      BY <1>1, <1>3, <2>1, UntouchedRunning
    <2>5. QED
      BY <2>1, <2>3, <2>4, InvPartsNext
  <1>7. QED
    BY <1>3, <1>5, <1>6

-----------------------------------------------------------------------------
(* The theorems. *)

LEMMA InitInv == Init => HttpInv
  <1> SUFFICES ASSUME Init PROVE HttpInv
    OBVIOUS
  <1>1. RequestsInv
    <2>1. queue \in Seq(Request) /\ Range(queue) = {} /\ IsInjective(queue)
      BY DEF Init, Range, IsInjective
    <2>2. RequestsAccountedFor /\ WorkersAreLive
      BY <2>1, HttpAssumption DEF Init, RequestsAccountedFor, WorkersAreLive
    <2>3. QED
      BY <2>1, <2>2 DEF Init, RequestsInv, Outcomes
  <1>2. SessionTypes
    BY HttpAssumption DEF Init, SessionTypes, AttemptTypes, None
  <1>3. NetworkTypes /\ LoopTypes /\ RunsOnItsSession
    <2>1. 0 \in 0..MaxDrops /\ 0 \in 0..MaxChanges
      BY HttpAssumption
    <2>2. NetworkTypes
      BY <2>1 DEF Init, NetworkTypes
    <2>3. LoopTypes /\ RunsOnItsSession
      BY <2>1 DEF Init, LoopTypes, RunsOnItsSession
    <2>4. QED
      BY <2>2, <2>3
  <1>4. QED
    BY <1>1, <1>2, <1>3, InvParts

\* A step keeps the invariant, and takes a request out of the queue or ends the one
\* that runs, if it changes any outcome.
LEMMA StepInv ==
    ASSUME HttpInv, Next
    PROVE  /\ HttpInv'
           /\ \A r \in Request : outcome[r] \in {"finished", "failed"} => outcome'[r] = outcome[r]
  <1>1. RequestsInv /\ SessionTypes /\ NetworkTypes /\ LoopTypes /\ RunsOnItsSession
    BY InvParts
  <1>2. ASSUME NEW r \in Request, Exec(r)
        PROVE  HttpInv' /\ outcome[r] = "new" /\ outcome' = [outcome EXCEPT ![r] = "queued"]
    <2>1. RequestsInv'
      BY <1>1, <1>2, ExecRequests
    <2>2. SessionTypes' /\ NetworkTypes' /\ LoopTypes' /\ RunsOnItsSession'
      BY <1>1, <1>2, UntouchedSessions, UntouchedRunning
      DEF Exec, sessionVars, networkVars, NetworkTypes, LoopTypes
    <2>3. QED
      BY <1>2, <2>1, <2>2, InvPartsNext DEF Exec
  <1>3. ASSUME NEW r \in Request, Destroy(r)
        PROVE  /\ HttpInv' /\ outcome[r] \in {"queued", "running"}
               /\ outcome' = [outcome EXCEPT ![r] = "gone"]
    <2>1. RequestsInv'
      BY <1>1, <1>3, DestroyRequests
    <2>2. SessionTypes' /\ NetworkTypes' /\ LoopTypes'
      BY <1>1, <1>3, UntouchedSessions
      DEF Destroy, sessionVars, networkVars, NetworkTypes, LoopTypes
    <2>3. RunsOnItsSession'
      BY <1>1, <1>3 DEF Destroy, RunsOnItsSession
    <2>4. QED
      BY <1>3, <2>1, <2>2, <2>3, InvPartsNext DEF Destroy
  <1>4. ASSUME NEW r \in Request, RequestDone(r)
        PROVE  /\ HttpInv'
               /\ \A q \in Request : outcome[q] # "running" => outcome'[q] = outcome[q]
    <2>1. RequestsInv' /\ (outcome[r] # "gone" => outcome[r] = "running")
      BY <1>1, <1>4, DoneRequests
    <2>2. SessionTypes' /\ NetworkTypes' /\ LoopTypes'
      BY <1>1, <1>4, UntouchedSessions
      DEF RequestDone, sessionVars, networkVars, NetworkTypes, LoopTypes
    <2>3. RunsOnItsSession'
      BY <1>1, <1>4 DEF RequestDone, RunsOnItsSession, RequestsInv, RequestsAccountedFor
    <2>4. \A q \in Request : outcome[q] # "running" => outcome'[q] = outcome[q]
      BY <1>1, <1>4, <2>1 DEF RequestDone, RequestsInv
    <2>5. QED
      BY <2>1, <2>2, <2>3, <2>4, InvPartsNext
  <1>5. ASSUME IdleTimeout PROVE HttpInv' /\ outcome' = outcome
    <2>1. RequestsInv' /\ outcome' = outcome
      BY <1>1, <1>5, UntouchedRequests DEF IdleTimeout, requestVars
    <2>2. session' \in 0..made /\ idle' \in BOOLEAN
      <3>1. session' \in {0, session} /\ idle' = FALSE
        BY <1>5 DEF IdleTimeout, None
      <3>2. made \in Nat /\ session \in 0..made
        BY <1>1, HttpAssumption DEF SessionTypes
      <3>3. 0 \in 0..made
        BY <3>2
      <3>4. QED
        BY ONLY <3>1, <3>2, <3>3
    <2>3. /\ SessionTypes'
          /\ NetworkTypes' /\ LoopTypes'
      <3>1. UNCHANGED <<posts, settings, sessionVars, networkVars, crashed>>
        BY <1>5 DEF IdleTimeout
      <3>2. SessionTypes'
        BY <1>1, <2>2, <3>1 DEF sessionVars, SessionTypes
      <3>3. QED
        BY <1>1, <2>2, <3>1, <3>2 DEF networkVars, NetworkTypes, LoopTypes
    <2>4. RunsOnItsSession'
      BY <1>1, <1>5 DEF IdleTimeout, RunsOnItsSession, requestVars
    <2>5. QED
      BY <2>1, <2>3, <2>4, InvPartsNext
  <1>6. ASSUME Dispatch, settings' \in 0..MaxChanges, posts' \in Nat, NetworkTypes',
               UNCHANGED crashed
        PROVE  /\ HttpInv'
               /\ \A r \in Request : outcome[r] # "queued" => outcome'[r] = outcome[r]
    <2>1. /\ RequestsInv' /\ SessionTypes' /\ RunsOnItsSession' /\ idle' \in BOOLEAN
          /\ \A r \in Request : outcome[r] # "queued" => outcome'[r] = outcome[r]
      BY <1>1, <1>6, DispatchInv
    <2>2. LoopTypes'
      BY <1>1, <1>6, <2>1 DEF LoopTypes
    <2>3. QED
      BY <1>6, <2>1, <2>2, InvPartsNext
  <1>7. ASSUME PostedDispatch \/ ChangeSettings \/ (\E s \in Sessions : NetworkDown(s))
        PROVE  /\ Dispatch /\ settings' \in 0..MaxChanges /\ posts' \in Nat /\ NetworkTypes'
               /\ UNCHANGED crashed
    <2>1. CASE PostedDispatch
      BY <1>1, <2>1 DEF PostedDispatch, networkVars, NetworkTypes, LoopTypes
    <2>2. CASE ChangeSettings
      BY <1>1, <2>2, HttpAssumption DEF ChangeSettings, networkVars, NetworkTypes, LoopTypes
    <2>3. CASE \E s \in Sessions : NetworkDown(s)
      BY <1>1, <2>3, HttpAssumption DEF NetworkDown, NetworkTypes, LoopTypes
    <2>4. QED
      BY <1>7, <2>1, <2>2, <2>3
  <1>8. ASSUME NEW s \in Sessions, NetworkUp(s)
        PROVE  /\ HttpInv'
               /\ \A r \in Request : outcome[r] # "queued" => outcome'[r] = outcome[r]
    <2>1. /\ NetworkTypes' /\ settings' \in 0..MaxChanges /\ posts' \in Nat
          /\ UNCHANGED <<crashed, posts, settings>>
      BY <1>1, <1>8 DEF NetworkUp, NetworkTypes, LoopTypes
    <2>2. CASE connected[s]
      <3>1. UNCHANGED <<requestVars, sessionVars, session, idle>>
        BY <1>8, <2>2 DEF NetworkUp
      <3>2. RequestsInv' /\ SessionTypes' /\ RunsOnItsSession' /\ outcome' = outcome
        BY <1>1, <3>1, UntouchedRequests, UntouchedSessions, UntouchedRunning DEF requestVars
      <3>3. QED
        BY <1>1, <2>1, <3>1, <3>2, InvPartsNext DEF LoopTypes
    <2>3. CASE ~connected[s]
      <3>1. Dispatch
        BY <1>8, <2>3 DEF NetworkUp
      <3>2. QED
        BY <1>6, <2>1, <3>1
    <2>4. QED
      BY <2>2, <2>3
  <1>9. ASSUME NEW s \in Sessions, Link(s) \/ Notify(s)
        PROVE  HttpInv' /\ outcome' = outcome
    <2>1. /\ UNCHANGED <<requestVars, session, idle, posts, settings, builtWith, active, made,
                         attempt, connected, drops, crashed>>
          /\ linked' \in [Sessions -> BOOLEAN] /\ news' \subseteq Sessions
      BY <1>1, <1>9 DEF Link, Notify, sessionVars, networkVars, SessionTypes, NetworkTypes
    <2>2. RequestsInv' /\ RunsOnItsSession' /\ outcome' = outcome
      BY <1>1, <2>1, UntouchedRequests, UntouchedRunning DEF requestVars
    <2>3. SessionTypes' /\ NetworkTypes' /\ LoopTypes'
      BY <1>1, <2>1 DEF SessionTypes, NetworkTypes, LoopTypes
    <2>4. QED
      BY <2>2, <2>3, InvPartsNext
  <1>10. QED
    <2>1. outcome \in [Request -> Outcomes]
      BY <1>1 DEF RequestsInv
    <2>2. CASE \E r \in Request : Exec(r)
      BY <2>1, <2>2, <1>2
    <2>3. CASE \E r \in Request : Destroy(r)
      BY <2>1, <2>3, <1>3
    <2>4. CASE \E r \in Request : RequestDone(r)
      BY <2>4, <1>4
    <2>5. CASE PostedDispatch \/ ChangeSettings \/ (\E s \in Sessions : NetworkDown(s))
      BY <2>5, <1>6, <1>7
    <2>6. CASE IdleTimeout
      BY <2>6, <1>5
    <2>7. CASE \E k \in Attempts : Connecting(k)
      BY <2>7, ConnectingInv
    <2>8. CASE \E s \in Sessions : NetworkUp(s)
      BY <2>8, <1>8
    <2>9. CASE \E s \in Sessions : Link(s) \/ Notify(s)
      BY <2>9, <1>9
    <2>10. QED
      BY <2>2, <2>3, <2>4, <2>5, <2>6, <2>7, <2>8, <2>9 DEF Next

LEMMA StutterInv == HttpInv /\ UNCHANGED vars => HttpInv' /\ outcome' = outcome
  <1> SUFFICES ASSUME HttpInv, UNCHANGED vars PROVE HttpInv' /\ outcome' = outcome
    OBVIOUS
  <1>1. RequestsInv /\ SessionTypes /\ NetworkTypes /\ LoopTypes /\ RunsOnItsSession
    BY InvParts
  <1>2. UNCHANGED <<requestVars, session, sessionVars, networkVars, idle, posts, settings, crashed>>
    BY DEF vars
  <1>3. RequestsInv' /\ SessionTypes' /\ RunsOnItsSession' /\ outcome' = outcome
    BY <1>1, <1>2, UntouchedRequests, UntouchedSessions, UntouchedRunning DEF requestVars
  <1>4. NetworkTypes' /\ LoopTypes'
    BY <1>1, <1>2 DEF networkVars, NetworkTypes, LoopTypes
  <1>5. QED
    BY <1>3, <1>4, InvPartsNext

\* HttpInv holds in every state: exec, dispatch, drain, the destroyed handler, the
\* timers and the workers of HttpManager keep it.
THEOREM HttpCorrect == Spec => []HttpInv
  <1>1. HttpInv /\ [Next]_vars => HttpInv'
    BY StepInv, StutterInv
  <1>2. QED
    BY InitInv, <1>1, PTL DEF Spec

\* Every variable of HttpManager holds what the code can put there.
THEOREM HttpTypes == Spec => []TypeOK
  <1>1. HttpInv => TypeOK
    BY DEF HttpInv
  <1>2. QED
    BY HttpCorrect, <1>1, PTL

\* Each request is in one place: m_queue holds those that wait, once, and m_running
\* is the one that runs.
THEOREM QueueKeepsAccount == Spec => []RequestsAccountedFor
  <1>1. HttpInv => RequestsAccountedFor
    BY DEF HttpInv
  <1>2. QED
    BY HttpCorrect, <1>1, PTL

\* The session is not replaced or released under a running request, however the
\* settings change, connections drop and requests are destroyed.
THEOREM SessionIsKept == Spec => []RunsOnItsSession
  <1>1. HttpInv => RunsOnItsSession
    BY DEF HttpInv
  <1>2. QED
    BY HttpCorrect, <1>1, PTL

\* A request ends once: neither drain nor a late worker reaches one that has ended.
THEOREM RequestsEndOnce == Spec => EndsOnce
  <1>1. HttpInv /\ [Next]_vars =>
            [\A r \in Request : outcome[r] \in {"finished", "failed"} => outcome'[r] = outcome[r]]_vars
    BY StepInv
  <1>2. QED
    BY HttpCorrect, <1>1, PTL DEF Spec, EndsOnce

=============================================================================
