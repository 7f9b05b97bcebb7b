----------------------------- MODULE JadeApiProofs -----------------------------
(* JadeAPI implements JadeCalls, for any clients, bounds and message ids: what-   *)
(* ever times out, is answered late, lost or called from a handler, the handler   *)
(* of a call is invoked once at most, and queued calls start in order.            *)
(*                                                                                *)
(* Until getNewId gives an id that is in use, the handlers of a call that waits   *)
(* are one chain, its message is in one place and in flight: isBusy tells the     *)
(* truth, and the messages of two calls are not mixed.                            *)
EXTENDS JadeApi, TLAPS

Results == {"ok", "error", "timeout"}

\* What the types of handlers come to.
LEMMA HandlerFields ==
    ASSUME HandlersLead, NEW i \in Id, handlers[i] # Nobody
    PROVE  /\ handlers[i] \in Handler
           /\ handlers[i].kind \in {"client", "forward", "step"}
           /\ handlers[i].call \in Call
           /\ handlers[i].left \in 0..Messages
  BY DEF HandlersLead, Handler

\* A handler that hands over is there, and does so to an id.
LEMMA HandsOverTo ==
    ASSUME HandlersLead, NEW i \in Id, NEW r, HandsOver(i, r)
    PROVE  handlers[i] # Nobody /\ handlers[i].to \in Referred /\ ~\E c \in Call : Answers(i, c)
  <1>1. handlers[i].kind \in {"forward", "step"} /\ handlers[i].to \in Id
    BY DEF HandsOver, HandlersLead
  <1>2. handlers[i] # Nobody
    BY <1>1 DEF Nobody
  <1>3. handlers[i].to # NoId
    BY <1>1, JadeAssumption DEF Id, NoId
  <1>4. ~\E c \in Call : Answers(i, c)
    BY <1>1 DEF Answers, HandsOver
  <1>5. QED
    BY <1>2, <1>3, <1>4 DEF Referred

\* What handlers refer to is an id.
LEMMA ReferredAreIds == HandlersLead => Referred \subseteq Id
  BY DEF HandlersLead, Referred, Handler

\* What getNewId gives.
LEMMA DrawnIds ==
    /\ Drawable(Remembered) \subseteq Id
    /\ \A i \in Id : Drawable(Remembered \cup {i}) \subseteq Id
  BY DEF Drawable, Remembered

\* A chain of handlers has one end (callResponseHandler, forwardToResponseHandler).
LEMMA OneEnd ==
    ASSUME HandlersLead, NEW i \in Id, NEW r,
           NEW k \in Passes(i, r), NEW l \in Passes(i, r),
           ~HandsOver(k, r), ~HandsOver(l, r)
    PROVE  k = l
  <1> DEFINE ids == {i} \cup Referred
             From(j) == {x \in ids : \A S \in SUBSET ids : j \in S /\ PassesOn(S, r) => x \in S}
             Before == {j \in ids : k \in From(j)}
  <1>1. k \in ids /\ l \in ids /\ ids \subseteq Id
    BY ReferredAreIds DEF Passes
  <1>2. i \in Before
    BY DEF Passes
  <1>3. ASSUME NEW j \in ids, j # k, k \in From(j), HandsOver(j, r)
        PROVE  k \in From(handlers[j].to)
    <2> SUFFICES ASSUME NEW S \in SUBSET ids, handlers[j].to \in S, PassesOn(S, r)
                 PROVE  k \in S
      BY <1>1
    <2>1. PassesOn(S \cup {j}, r)
      BY DEF PassesOn
    <2>2. k \in S \cup {j}
      BY <1>3, <2>1
    <2>3. QED
      BY <1>3, <2>2
  <1>4. PassesOn(Before, r)
    <2> SUFFICES ASSUME NEW j \in Before, HandsOver(j, r) PROVE handlers[j].to \in Before
      BY DEF PassesOn
    <2>1. j # k /\ j \in ids /\ k \in From(j)
      OBVIOUS
    <2>2. handlers[j].to \in ids
      BY <1>1, <2>1, HandsOverTo
    <2>3. QED
      BY <1>3, <2>1, <2>2
  <1>5. l \in Before
    BY <1>2, <1>4 DEF Passes
  <1>6. k \in From(l)
    BY <1>5
  <1>7. PassesOn({l}, r)
    BY DEF PassesOn
  <1>8. QED
    BY <1>1, <1>6, <1>7

\* Who gets the response in the end.
LEMMA FinallyFacts ==
    ASSUME HandlersLead, NEW i \in Id, NEW r
    PROVE  /\ \A h \in Finally(i, r) : \E k \in Id :
                 k \in Passes(i, r) /\ h = handlers[k] /\ h # Nobody /\ ~HandsOver(k, r)
           /\ \A g, h \in Finally(i, r) : g = h
  <1>1. Passes(i, r) \subseteq Id
    BY ReferredAreIds DEF Passes
  <1>2. QED
    BY <1>1, OneEnd DEF Finally

\* A handler at the end that does not go on with an exchange is a client's.
LEMMA EndIsClient ==
    ASSUME HandlersLead, NEW i \in Id, NEW r, NEW k \in Id, handlers[k] # Nobody,
           ~HandsOver(k, r), ~GoesOn(handlers[k], r)
    PROVE  handlers[k].call \in Call /\ Answers(k, handlers[k].call)
  BY HandlerFields DEF HandsOver, GoesOn, Answers

-----------------------------------------------------------------------------
(* What a step does to the table of handlers. *)

\* Handlers are taken.
LEMMA TakenLemma ==
    ASSUME HandlersLead, NEW P
    PROVE  /\ Without(P) \in [Id -> Handler \cup {Nobody}]
           /\ \A i \in Id : i \in P => Without(P)[i] = Nobody
           /\ \A i \in Id : i \notin P => Without(P)[i] = handlers[i]
  BY DEF HandlersLead, Without

\* Handlers are only taken from the table.
LEMMA TakingLemma ==
    ASSUME HandlersLead, OneHandlerEach,
           handlers' \in [Id -> Handler \cup {Nobody}],
           \A i \in Id : handlers'[i] \in {handlers[i], Nobody},
           \A i \in Id, c \in Call : Answers(i, c) /\ Answers(i, c)' =>
               outcome'[c] = "asked" /\ c \notin posted'
    PROVE  HandlersLead' /\ OneHandlerEach'
  <1>1. HandlersLead'
    BY DEF HandlersLead, Nobody
  <1>2. \A i \in Id, c \in Call : Answers(i, c)' => Answers(i, c)
    BY DEF Answers
  <1>3. OneHandlerEach'
    BY <1>2 DEF OneHandlerEach
  <1>4. QED
    BY <1>1, <1>3

\* One is registered at n, for a call that has no other.
LEMMA OneNewLemma ==
    ASSUME HandlersLead, OneHandlerEach, NEW n \in Id, NEW h \in Handler,
           handlers' \in [Id -> Handler \cup {Nobody}],
           handlers'[n] = h,
           \A i \in Id \ {n} : handlers'[i] \in {handlers[i], Nobody},
           h.kind = "forward" \/ (h.kind = "step" /\ Kind[h.call] # "message") => h.to \in Id,
           \A c \in Call : Answers(n, c)' =>
               /\ outcome'[c] = "asked" /\ c \notin posted'
               /\ \A j \in Id : Answers(j, c)' => n = j,
           \A i \in Id \ {n}, c \in Call : Answers(i, c) /\ Answers(i, c)' =>
               outcome'[c] = "asked" /\ c \notin posted'
    PROVE  HandlersLead' /\ OneHandlerEach'
  <1>1. HandlersLead'
    <2> SUFFICES ASSUME NEW i \in Id,
                        \/ handlers'[i].kind = "forward"
                        \/ handlers'[i].kind = "step" /\ Kind[handlers'[i].call] # "message"
                 PROVE  handlers'[i].to \in Id
      BY DEF HandlersLead
    <2>1. CASE i = n
      BY <2>1
    <2>2. CASE i # n
      BY <2>2 DEF HandlersLead, Nobody
    <2>3. QED
      BY <2>1, <2>2
  <1>2. \A i \in Id \ {n}, c \in Call : Answers(i, c)' => Answers(i, c)
    BY DEF Answers
  <1>3. OneHandlerEach'
    <2> SUFFICES ASSUME NEW i \in Id, NEW c \in Call, Answers(i, c)'
                 PROVE  /\ outcome'[c] = "asked" /\ c \notin posted'
                        /\ \A j \in Id : Answers(j, c)' => i = j
      BY DEF OneHandlerEach
    <2>1. CASE i = n
      BY <2>1
    <2>2. CASE i # n
      <3>1. Answers(i, c) /\ outcome'[c] = "asked" /\ c \notin posted'
        BY <1>2, <2>2
      <3>2. \A j \in Id : Answers(j, c)' => i = j
        BY <1>2, <2>2, <3>1 DEF OneHandlerEach
      <3>3. QED
        BY <3>1, <3>2
    <2>3. QED
      BY <2>1, <2>2
  <1>4. QED
    BY <1>1, <1>3

\* What is sent or queued is a message.
LEMMA SendLemma ==
    ASSUME MessagesAreKnown, NEW m \in Message, NEW fl, Send(m, fl)
    PROVE  device' \subseteq Message
  BY DEF Send, MessagesAreKnown

\* So is what is sent or queued by enqueue.
LEMMA EnqueueLemma ==
    ASSUME MessagesAreKnown, NEW m \in Message, Enqueue(m)
    PROVE  device' \subseteq Message /\ queue' \in Seq(Message)
  BY SendLemma DEF Enqueue, MessagesAreKnown, sendVars

\* So is what drain sends and what it leaves.
LEMMA DrainLemma ==
    ASSUME MessagesAreKnown, NEW fl, Drain(fl)
    PROVE  device' \subseteq Message /\ queue' \in Seq(Message)
  <1>1. CASE fl = {} /\ queue # <<>>
    <2>1. Head(queue) \in Message /\ Tail(queue) \in Seq(Message)
      BY <1>1 DEF MessagesAreKnown
    <2>2. QED
      BY <1>1, <2>1, SendLemma DEF Drain
  <1>2. CASE ~(fl = {} /\ queue # <<>>)
    BY <1>2 DEF Drain, MessagesAreKnown
  <1>3. QED
    BY <1>1, <1>2

-----------------------------------------------------------------------------
(* What a step is to the clients. *)

Made == {c \in Call : outcome[c] # "idle"}
CallVars == <<Made, answers>>
CallStep == Calls!Next \/ UNCHANGED CallVars

\* Nothing that concerns the clients.
LEMMA QuietStep == ASSUME UNCHANGED clientVars PROVE CallStep /\ (AnsweredOnce => AnsweredOnce')
  BY DEF CallStep, CallVars, Made, clientVars, AnsweredOnce

\* A client that waits gets its answer.
LEMMA AnswerStep ==
    ASSUME AnsweredOnce, NEW c \in Call, outcome[c] = "asked", NEW r \in Results,
           outcome' = [d \in Call |-> IF d = c THEN r ELSE outcome[d]],
           answers' = [d \in Call |-> IF d = c THEN answers[d] + 1 ELSE answers[d]]
    PROVE  CallStep /\ AnsweredOnce'
  <1>1. answers[c] = 0 /\ answers' = [answers EXCEPT ![c] = 1]
    BY DEF AnsweredOnce
  <1>2. Made' = Made /\ c \in Made
    BY DEF Made, Results
  <1>3. Calls!Answer(c)
    BY <1>1, <1>2 DEF Calls!Answer, Made
  <1>4. AnsweredOnce'
    BY DEF AnsweredOnce, Results
  <1>5. QED
    BY <1>3, <1>4 DEF CallStep, Calls!Next

\* The handlers on the way of a response are taken, and a client at most gets it.
LEMMA ConcludeStep ==
    ASSUME CallsInv, NEW i \in Id, NEW r \in Results, NEW by, Conclude(i, r, by),
           \A h \in Finally(i, r) : ~GoesOn(h, r), posted' = posted
    PROVE  /\ HandlersLead' /\ OneHandlerEach' /\ PostedAreAsked' /\ AnsweredOnce'
           /\ CallStep
  <1> USE DEF CallsInv
  <1>1. handlers' = Without(Passes(i, r))
    BY DEF Conclude
  <1>2. CASE Finally(i, r) = {}
    <2>1. UNCHANGED clientVars
      BY <1>2 DEF Conclude, AnsweredOnce, clientVars
    <2>2. HandlersLead' /\ OneHandlerEach'
      <3>1. \A j \in Id, d \in Call : Answers(j, d) => outcome'[d] = "asked" /\ d \notin posted'
        BY <2>1 DEF OneHandlerEach, clientVars
      <3>2. /\ handlers' \in [Id -> Handler \cup {Nobody}]
            /\ \A j \in Id : handlers'[j] \in {handlers[j], Nobody}
        BY <1>1, TakenLemma
      <3>3. QED
        BY <3>1, <3>2, TakingLemma
    <2>3. PostedAreAsked'
      BY <2>1 DEF PostedAreAsked, clientVars
    <2>4. QED
      BY <2>1, <2>2, <2>3, QuietStep
  <1>3. CASE Finally(i, r) # {}
    <2>1. PICK k \in Id : /\ k \in Passes(i, r) /\ handlers[k] # Nobody /\ ~HandsOver(k, r)
                          /\ Finally(i, r) = {handlers[k]}
      BY <1>3, FinallyFacts
    <2> DEFINE c == handlers[k].call
    <2>2. c \in Call /\ Answers(k, c)
      BY <2>1, EndIsClient
    <2>3. outcome[c] = "asked" /\ c \notin posted
      BY <2>2 DEF OneHandlerEach
    <2>4. {h.call : h \in Finally(i, r)} = {c}
      BY <2>1
    <2>5. /\ outcome' = [d \in Call |-> IF d = c THEN r ELSE outcome[d]]
          /\ answers' = [d \in Call |-> IF d = c THEN answers[d] + 1 ELSE answers[d]]
      BY <2>4 DEF Conclude
    <2>6. CallStep /\ AnsweredOnce'
      BY <2>2, <2>3, <2>5, AnswerStep
    <2>7. PostedAreAsked'
      BY <2>3, <2>5 DEF PostedAreAsked
    <2>8. \A j \in Id, d \in Call : Answers(j, d) /\ Answers(j, d)' =>
              outcome'[d] = "asked" /\ d \notin posted'
      <3> SUFFICES ASSUME NEW j \in Id, NEW d \in Call, Answers(j, d), Answers(j, d)'
                   PROVE  outcome'[d] = "asked" /\ d \notin posted'
        OBVIOUS
      <3>1. j # k
        BY <1>1, <2>1, TakenLemma DEF Answers
      <3>2. d # c
        BY <2>2, <3>1 DEF OneHandlerEach
      <3>3. QED
        BY <2>5, <3>2 DEF OneHandlerEach
    <2>9. HandlersLead' /\ OneHandlerEach'
      <3>1. /\ handlers' \in [Id -> Handler \cup {Nobody}]
            /\ \A j \in Id : handlers'[j] \in {handlers[j], Nobody}
        BY <1>1, TakenLemma
      <3>2. QED
        BY <2>8, <3>1, TakingLemma
    <2>10. QED
      BY <2>6, <2>7, <2>9
  <1>4. QED
    BY <1>2, <1>3

\* A handler that tells another is registered, under any id.
LEMMA ForwardLemma ==
    ASSUME CallsInv, NEW n \in Id, NEW h \in Handler, ~\E c \in Call : h.call = c /\
               (h.kind = "client" \/ (h.kind = "step" /\ Kind[c] = "message")),
           h.to \in Id, handlers' = Registered(handlers, n, h), UNCHANGED <<outcome, posted>>
    PROVE  HandlersLead' /\ OneHandlerEach'
  <1> USE DEF CallsInv
  <1>1. /\ handlers' \in [Id -> Handler \cup {Nobody}] /\ handlers'[n] = h
        /\ \A i \in Id \ {n} : handlers'[i] = handlers[i]
    BY DEF Registered, HandlersLead
  <1>2. \A c \in Call : ~Answers(n, c)'
    BY <1>1 DEF Answers
  <1>3. \A i \in Id, c \in Call : Answers(i, c) => outcome'[c] = "asked" /\ c \notin posted'
    BY DEF OneHandlerEach
  <1>4. QED
    BY <1>1, <1>2, <1>3, OneNewLemma

\* The answer of the HTTP server is sent on.
LEMMA HandleHttpStep ==
    ASSUME CallsInv, NEW m \in Message, HandleHttpResponse(m), UNCHANGED <<outcome, posted>>
    PROVE  HandlersLead' /\ OneHandlerEach' /\ device' \subseteq Message
  <1>1. PICK n \in Id : /\ handlers' = Registered(handlers, n, Forward(m.call, m.id))
                        /\ Send([id |-> n, call |-> m.call], inflight)
    BY DrawnIds DEF HandleHttpResponse
  <1>2. m.call \in Call /\ m.id \in Id
    BY DEF Message
  <1>3. Forward(m.call, m.id) \in Handler
    BY <1>2, JadeAssumption DEF Forward, Handler
  <1>4. HandlersLead' /\ OneHandlerEach'
    BY <1>1, <1>2, <1>3, ForwardLemma DEF Forward
  <1>5. [id |-> n, call |-> m.call] \in Message
    BY <1>2 DEF Message
  <1>6. QED
    BY <1>1, <1>4, <1>5, SendLemma DEF CallsInv

\* An exchange goes on under a new id, for the client it is of.
LEMMA GoesOnStep ==
    ASSUME CallsInv, NEW i \in Id, NEW r, NEW h \in Finally(i, r), GoesOn(h, r),
           SendNext(h, Without(Passes(i, r))), UNCHANGED <<outcome, posted>>
    PROVE  HandlersLead' /\ OneHandlerEach' /\ device' \subseteq Message
  <1> USE DEF CallsInv
  <1> DEFINE table == Without(Passes(i, r))
  <1>1. PICK k \in Id : k \in Passes(i, r) /\ h = handlers[k] /\ h # Nobody /\ ~HandsOver(k, r)
    BY FinallyFacts
  <1>2. h.kind = "step" /\ h.call \in Call /\ h.left \in 0..Messages /\ h \in Handler
    BY <1>1, HandlerFields DEF GoesOn
  <1>3. Kind[h.call] = "message" => h.left > 0 /\ Answers(k, h.call)
    BY <1>1, <1>2 DEF GoesOn, Answers
  <1>4. Kind[h.call] # "message" => h.to \in Id
    BY <1>1, <1>2 DEF HandlersLead
  <1>5. table \in [Id -> Handler \cup {Nobody}] /\ table[k] = Nobody
        /\ \A j \in Id : table[j] \in {handlers[j], Nobody}
    BY <1>1, TakenLemma
  <1> HIDE DEF table
  <1>6. CASE h.left = 0
    <2>1. handlers' = table /\ Send([id |-> h.to, call |-> h.call], inflight)
      BY <1>6, JadeAssumption DEF SendNext, table
    <2>2. [id |-> h.to, call |-> h.call] \in Message
      BY <1>2, <1>3, <1>4, <1>6 DEF Message
    <2>3. HandlersLead' /\ OneHandlerEach'
      <3>1. \A j \in Id, c \in Call : Answers(j, c) => outcome'[c] = "asked" /\ c \notin posted'
        BY DEF OneHandlerEach
      <3>2. QED
        BY <1>5, <2>1, <3>1, TakingLemma
    <2>4. QED
      BY <2>1, <2>2, <2>3, SendLemma
  <1>7. CASE h.left > 0
    <2>1. PICK n \in Id : /\ handlers' = Registered(table, n, Step(h.call, h.to, h.left - 1))
                          /\ Send([id |-> n, call |-> h.call], inflight)
      <3>1. \E n \in Drawable(Remembered) :
                 /\ handlers' = Registered(table, n, Step(h.call, h.to, h.left - 1))
                 /\ Send([id |-> n, call |-> h.call], inflight)
        <4>1. h.left # 0
          BY <1>2, <1>7
        <4>2. QED
          BY <4>1, Zenon DEF SendNext, table
      <3>2. QED
        BY <3>1, DrawnIds
    <2>2. h.to \in Id \cup {NoId} /\ h.left - 1 \in 0..Messages
      BY <1>2, <1>7, JadeAssumption DEF Handler
    <2>3. Step(h.call, h.to, h.left - 1) \in Handler
      BY <1>2, <2>2 DEF Step, Handler
    <2>4. /\ handlers' \in [Id -> Handler \cup {Nobody}]
          /\ handlers'[n] = Step(h.call, h.to, h.left - 1)
          /\ \A j \in Id \ {n} : handlers'[j] = table[j]
      BY <1>5, <2>1, <2>3 DEF Registered
    <2>5. \A c \in Call : Answers(n, c)' => c = h.call /\ Kind[c] = "message"
      BY <2>4 DEF Answers, Step
    <2>6. \A j \in Id \ {n}, c \in Call : Answers(j, c)' => Answers(j, c) /\ j # k
      BY <1>5, <2>4 DEF Answers
    <2>7. \A c \in Call : Answers(n, c)' =>
              /\ outcome'[c] = "asked" /\ c \notin posted'
              /\ \A j \in Id : Answers(j, c)' => n = j
      BY <1>3, <2>5, <2>6 DEF OneHandlerEach
    <2>8. HandlersLead' /\ OneHandlerEach'
      <3>1. \A j \in Id, c \in Call : Answers(j, c) => outcome'[c] = "asked" /\ c \notin posted'
        BY DEF OneHandlerEach
      <3>2. handlers'[n].kind = "step" /\ handlers'[n].call = h.call /\ handlers'[n].to = h.to
        BY <2>4 DEF Step
      <3>3. \A j \in Id \ {n} : handlers'[j] \in {handlers[j], Nobody}
        BY <1>5, <2>4
      <3>4. QED
        BY <1>4, <2>3, <2>4, <2>7, <3>1, <3>2, <3>3, OneNewLemma
    <2>9. [id |-> n, call |-> h.call] \in Message
      BY <1>2 DEF Message
    <2>10. QED
      BY <2>1, <2>8, <2>9, SendLemma
  <1>8. QED
    BY <1>2, <1>6, <1>7, JadeAssumption

-----------------------------------------------------------------------------
(* The actions. *)

\* A step of the device, the link or the event loop that no client notices.
LEMMA UnnoticedStep ==
    ASSUME CallsInv, UNCHANGED <<handlers, clientVars, posted>>
    PROVE  HandlersLead' /\ OneHandlerEach' /\ PostedAreAsked' /\ AnsweredOnce' /\ CallStep
  <1>1. HandlersLead'
    BY DEF CallsInv, HandlersLead
  <1>2. OneHandlerEach' /\ PostedAreAsked'
    BY DEF CallsInv, OneHandlerEach, Answers, PostedAreAsked, clientVars
  <1>3. QED
    BY <1>1, <1>2, QuietStep DEF CallsInv

\* A call is made, with at most one handler that answers its client.
LEMMA AskedStep ==
    ASSUME CallsInv, NEW c \in Call, Asked(c)
    PROVE  /\ CallStep /\ AnsweredOnce'
           /\ posted' \in {posted, posted \cup {c}} => PostedAreAsked'
           /\ \A d \in Call : outcome[d] = "asked" => d # c /\ outcome'[d] = "asked"
           /\ outcome'[c] = "asked" /\ c \notin posted /\ UNCHANGED <<http, wire>>
  <1>1. /\ outcome[c] = "idle" /\ outcome' = [outcome EXCEPT ![c] = "asked"]
        /\ UNCHANGED answers /\ UNCHANGED <<http, wire>>
    BY DEF Asked, linkVars
  <1>2. AnsweredOnce' /\ \A d \in Call : outcome'[d] = IF d = c THEN "asked" ELSE outcome[d]
    BY <1>1 DEF CallsInv, AnsweredOnce
  <1>3. c \notin Made /\ Made' = Made \cup {c}
    BY <1>1, <1>2 DEF Made
  <1>4. Calls!Make(c)
    BY <1>1, <1>3 DEF Calls!Make, Made
  <1>5. posted' \in {posted, posted \cup {c}} => PostedAreAsked'
    BY <1>1, <1>2 DEF CallsInv, PostedAreAsked
  <1>6. QED
    BY <1>1, <1>2, <1>4, <1>5 DEF CallStep, Calls!Next, CallsInv, PostedAreAsked

\* A call is made, of any kind.
LEMMA AskStep ==
    ASSUME CallsInv, NEW c \in Call, Ask(c) PROVE CallsInv' /\ CallStep
  <1> USE DEF CallsInv
  <1>1. Asked(c)
    BY DEF Ask, AskLocked, AskSimple, AskMessage, AskExchange
  <1>2. /\ \A d \in Call : outcome[d] = "asked" => d # c /\ outcome'[d] = "asked"
        /\ outcome'[c] = "asked" /\ c \notin posted
    BY <1>1, AskedStep
  <1>3. \A i \in Id : ~Answers(i, c)
    BY <1>2 DEF OneHandlerEach
  <1>4. ASSUME posted' = posted, NEW n \in Id,
               \A i \in Id, d \in Call : Answers(i, d)' => Answers(i, d) \/ (d = c /\ i = n)
        PROVE  OneHandlerEach'
    BY <1>2, <1>3, <1>4 DEF OneHandlerEach
  <1>5. CASE AskLocked(c)
    <2>1. UNCHANGED <<handlers, queue, device>> /\ posted' = posted \cup {c}
      BY <1>5 DEF AskLocked, tableVars, sendVars
    <2>2. HandlersLead'
      BY <2>1 DEF HandlersLead
    <2>3. OneHandlerEach'
      BY <1>2, <2>1 DEF OneHandlerEach, Answers
    <2>4. MessagesAreKnown'
      BY <1>1, <2>1, AskedStep DEF MessagesAreKnown
    <2>5. QED
      BY <1>1, <2>1, <2>2, <2>3, <2>4, AskedStep
  <1>6. ASSUME posted' = posted, HandlersLead', OneHandlerEach', NEW m \in Message,
               Enqueue(m) \/ (Send(m, inflight) /\ UNCHANGED queue)
        PROVE  CallsInv' /\ CallStep
    <2>1. device' \subseteq Message /\ queue' \in Seq(Message)
      BY <1>6, SendLemma, EnqueueLemma DEF MessagesAreKnown
    <2>2. MessagesAreKnown'
      BY <1>1, <2>1, AskedStep DEF MessagesAreKnown
    <2>3. QED
      BY <1>1, <1>6, <2>2, AskedStep
  <1>7. CASE AskSimple(c)
    <2>1. PICK i \in Id :
              /\ handlers' = Registered(handlers, i, Client(c))
              /\ \/ Enqueue([id |-> i, call |-> c])
                 \/ Send([id |-> i, call |-> c], inflight) /\ UNCHANGED queue
      BY <1>7, DrawnIds DEF AskSimple
    <2>2. Client(c) \in Handler /\ [id |-> i, call |-> c] \in Message
      BY JadeAssumption DEF Client, Handler, Message
    <2>3. /\ handlers' \in [Id -> Handler \cup {Nobody}] /\ handlers'[i] = Client(c)
          /\ \A j \in Id \ {i} : handlers'[j] = handlers[j]
      BY <2>1, <2>2 DEF Registered, HandlersLead
    <2>4. HandlersLead'
      BY <2>3 DEF HandlersLead, Client
    <2>5. \A j \in Id, d \in Call : Answers(j, d)' => Answers(j, d) \/ (d = c /\ j = i)
      BY <2>3 DEF Answers, Client
    <2>6. posted' = posted
      BY <1>7 DEF AskSimple
    <2>7. QED
      BY <1>4, <1>6, <2>1, <2>2, <2>4, <2>5, <2>6
  <1>8. CASE AskMessage(c)
    <2>1. PICK i \in Id : /\ handlers' = Registered(handlers, i, Step(c, NoId, 1))
                          /\ Enqueue([id |-> i, call |-> c])
      BY <1>8, DrawnIds DEF AskMessage
    <2>2. Step(c, NoId, 1) \in Handler /\ [id |-> i, call |-> c] \in Message
      BY JadeAssumption DEF Step, Handler, Message
    <2>3. /\ handlers' \in [Id -> Handler \cup {Nobody}] /\ handlers'[i] = Step(c, NoId, 1)
          /\ \A j \in Id \ {i} : handlers'[j] = handlers[j]
      BY <2>1, <2>2 DEF Registered, HandlersLead
    <2>4. HandlersLead'
      BY <1>8, <2>3 DEF HandlersLead, Step, AskMessage
    <2>5. \A j \in Id, d \in Call : Answers(j, d)' => Answers(j, d) \/ (d = c /\ j = i)
      BY <2>3 DEF Answers, Step
    <2>6. posted' = posted
      BY <1>8 DEF AskMessage
    <2>7. QED
      BY <1>4, <1>6, <2>1, <2>2, <2>4, <2>5, <2>6
  <1>9. CASE AskExchange(c)
    <2>1. PICK i \in Id, j \in Id :
              /\ handlers' = Registered(Registered(handlers, i, Client(c)), j, Step(c, i, Messages))
              /\ Enqueue([id |-> j, call |-> c])
      BY <1>9, DrawnIds DEF AskExchange
    <2>2. Client(c) \in Handler /\ Step(c, i, Messages) \in Handler
          /\ [id |-> j, call |-> c] \in Message
      BY JadeAssumption DEF Client, Step, Handler, Message
    <2>3. /\ handlers' \in [Id -> Handler \cup {Nobody}] /\ handlers'[j] = Step(c, i, Messages)
          /\ j # i => handlers'[i] = Client(c)
          /\ \A k \in Id \ {i, j} : handlers'[k] = handlers[k]
      BY <2>1, <2>2 DEF Registered, HandlersLead
    <2>4. HandlersLead'
      BY <2>3 DEF HandlersLead, Step, Client
    <2>5. Kind[c] # "message"
      BY <1>9 DEF AskExchange
    <2>6. \A k \in Id, d \in Call : Answers(k, d)' => Answers(k, d) \/ (d = c /\ k = i)
      BY <2>3, <2>5 DEF Answers, Step, Client
    <2>7. posted' = posted
      BY <1>9 DEF AskExchange
    <2>8. QED
      BY <1>4, <1>6, <2>1, <2>2, <2>4, <2>6, <2>7
  <1>10. QED
    BY <1>5, <1>7, <1>8, <1>9 DEF Ask

\* processResponseMessage, of a result or an error.
LEMMA ResponseStep ==
    ASSUME CallsInv, NEW w \in wire, Response(w) PROVE CallsInv' /\ CallStep
  <1> USE DEF CallsInv
  <1>1. w.id \in Id /\ w.call \in Call /\ w.result \in Results
    BY DEF Response, MessagesAreKnown, Results
  <1>2. /\ wire' \subseteq wire /\ posted' = posted /\ UNCHANGED <<queue, http>>
    BY DEF Response, lockVars
  <1>3. CASE \E h \in Finally(w.id, w.result) :
               /\ GoesOn(h, w.result)
               /\ SendNext(h, Without(Passes(w.id, w.result)))
               /\ UNCHANGED clientVars
    <2>1. HandlersLead' /\ OneHandlerEach' /\ device' \subseteq Message
      BY <1>1, <1>2, <1>3, GoesOnStep DEF clientVars
    <2>2. MessagesAreKnown'
      BY <1>2, <2>1 DEF MessagesAreKnown
    <2>3. PostedAreAsked'
      BY <1>2, <1>3 DEF PostedAreAsked, clientVars
    <2>4. QED
      BY <1>3, <2>1, <2>2, <2>3, QuietStep
  <1>4. CASE /\ \A h \in Finally(w.id, w.result) : ~GoesOn(h, w.result)
             /\ Conclude(w.id, w.result, "message")
             /\ UNCHANGED sendVars
    <2>1. HandlersLead' /\ OneHandlerEach' /\ PostedAreAsked' /\ AnsweredOnce' /\ CallStep
      BY <1>1, <1>2, <1>4, ConcludeStep
    <2>2. MessagesAreKnown'
      BY <1>2, <1>4 DEF MessagesAreKnown, sendVars
    <2>3. QED
      BY <2>1, <2>2
  <1>5. QED
    BY <1>3, <1>4 DEF Response

\* The requests of auth_user to the HTTP server and their answers.
LEMMA HttpStep ==
    ASSUME CallsInv, (\E w \in wire : HttpRequest(w)) \/ (\E m \in http : HttpDone(m))
    PROVE  CallsInv' /\ CallStep
  <1> USE DEF CallsInv
  <1>1. UNCHANGED <<clientVars, posted, queue>> /\ wire' \subseteq wire
    BY DEF HttpRequest, HttpDone, lockVars, linkVars
  <1>2. /\ http' \subseteq Message
        /\ \/ \E m \in Message : HandleHttpResponse(m)
           \/ UNCHANGED <<handlers, device>>
    <2>1. ASSUME NEW w \in wire, HttpRequest(w)
          PROVE  /\ http' \subseteq Message
                 /\ \/ \E m \in Message : HandleHttpResponse(m)
                    \/ UNCHANGED <<handlers, device>>
      <3>1. [id |-> w.id, call |-> w.call] \in Message
        BY DEF MessagesAreKnown, Message
      <3>2. QED
        BY <2>1, <3>1 DEF HttpRequest, MessagesAreKnown, tableVars, sendVars
    <2>2. ASSUME NEW m \in http, HttpDone(m)
          PROVE  http' \subseteq Message /\ m \in Message /\ HandleHttpResponse(m)
      BY <2>2 DEF HttpDone, MessagesAreKnown
    <2>3. QED
      BY <2>1, <2>2
  <1>3. HandlersLead' /\ OneHandlerEach' /\ device' \subseteq Message
    <2>1. CASE \E m \in Message : HandleHttpResponse(m)
      BY <1>1, <2>1, HandleHttpStep DEF clientVars
    <2>2. CASE UNCHANGED <<handlers, device>>
      BY <1>1, <2>2, UnnoticedStep DEF MessagesAreKnown
    <2>3. QED
      BY <1>2, <2>1, <2>2
  <1>4. MessagesAreKnown'
    BY <1>1, <1>2, <1>3 DEF MessagesAreKnown
  <1>5. PostedAreAsked'
    BY <1>1 DEF PostedAreAsked, clientVars
  <1>6. QED
    BY <1>1, <1>3, <1>4, <1>5, QuietStep

\* A timer's function runs.
LEMMA TimeoutStep ==
    ASSUME CallsInv, NEW i \in Id, Timeout(i) PROVE CallsInv' /\ CallStep
  <1> USE DEF CallsInv
  <1>1. posted' = posted /\ MessagesAreKnown'
    BY DEF Timeout, lockVars, linkVars, MessagesAreKnown
  <1>2. CASE handlers[i] = Nobody
    <2>1. UNCHANGED <<handlers, clientVars, posted>>
      BY <1>1, <1>2 DEF Timeout, tableVars
    <2>2. QED
      BY <1>1, <2>1, UnnoticedStep
  <1>3. CASE handlers[i] # Nobody
    <2>1. Conclude(i, "timeout", "timer") /\ "timeout" \in Results
      BY <1>3 DEF Timeout, Results
    <2>2. \A h \in Finally(i, "timeout") : ~GoesOn(h, "timeout")
      BY DEF GoesOn
    <2>3. QED
      BY <1>1, <2>1, <2>2, ConcludeStep
  <1>4. QED
    BY <1>2, <1>3

\* The answer to a call made while locked.
LEMMA PostedStep ==
    ASSUME CallsInv, NEW c \in Call, Posted(c) PROVE CallsInv' /\ CallStep
  <1> USE DEF CallsInv
  <1>1. /\ c \in posted /\ posted' = posted \ {c} /\ outcome[c] = "asked"
        /\ outcome' = [outcome EXCEPT ![c] = "ok"] /\ answers' = [answers EXCEPT ![c] = @ + 1]
        /\ handlers' = handlers
    BY DEF Posted, PostedAreAsked, tableVars
  <1>2. /\ outcome' = [d \in Call |-> IF d = c THEN "ok" ELSE outcome[d]]
        /\ answers' = [d \in Call |-> IF d = c THEN answers[d] + 1 ELSE answers[d]]
    BY <1>1 DEF AnsweredOnce
  <1>3. CallStep /\ AnsweredOnce'
    BY <1>1, <1>2, AnswerStep DEF Results
  <1>4. HandlersLead'
    BY <1>1 DEF HandlersLead
  <1>5. \A i \in Id, d \in Call : Answers(i, d)' <=> Answers(i, d)
    BY <1>1 DEF Answers
  <1>6. OneHandlerEach'
    BY <1>1, <1>2, <1>5 DEF OneHandlerEach
  <1>7. PostedAreAsked'
    BY <1>1, <1>2 DEF PostedAreAsked
  <1>8. MessagesAreKnown'
    BY DEF Posted, sendVars, linkVars, MessagesAreKnown
  <1>9. QED
    BY <1>3, <1>4, <1>6, <1>7, <1>8

\* The lock, the drains, the device and the link.
LEMMA OtherStep ==
    ASSUME CallsInv,
           \/ Lock \/ Unlock \/ DrainEvent \/ Return \/ Disconnect \/ Connect
           \/ \E m \in device : DeviceAnswer(m)
    PROVE  CallsInv' /\ CallStep
  <1>1. UNCHANGED <<handlers, clientVars, posted, http>>
    BY DEF Lock, Unlock, DrainEvent, Return, Disconnect, Connect, DeviceAnswer, tableVars, lockVars
  <1>2. MessagesAreKnown'
    <2>1. CASE Lock \/ Unlock \/ Disconnect \/ Connect
      BY <2>1 DEF CallsInv, MessagesAreKnown, Lock, Unlock, Disconnect, Connect, sendVars, linkVars
    <2>2. CASE DrainEvent \/ Return
      <3>1. wire' = wire /\ ((\E fl : Drain(fl)) \/ UNCHANGED <<device, queue>>)
        BY <2>2 DEF DrainEvent, Return, ReturnFromMessage, ReturnFromTimer, ReturnFromPost,
                    linkVars, sendVars
      <3>2. device' \subseteq Message /\ queue' \in Seq(Message)
        BY <3>1, DrainLemma DEF CallsInv, MessagesAreKnown
      <3>3. QED
        BY <1>1, <3>1, <3>2 DEF CallsInv, MessagesAreKnown
    <2>3. CASE \E m \in device : DeviceAnswer(m)
      <3>1. PICK m \in device : DeviceAnswer(m)
        BY <2>3
      <3>2. m.id \in Id /\ m.call \in Call
        BY DEF CallsInv, MessagesAreKnown, Message
      <3>3. PICK r \in {"ok", "error", "http"} :
                wire' = wire \cup {[id |-> m.id, call |-> m.call, result |-> r]}
        BY <3>1 DEF DeviceAnswer
      <3>4. wire' \subseteq [id : Id, call : Call, result : {"ok", "error", "http"}]
        BY <3>2, <3>3 DEF CallsInv, MessagesAreKnown
      <3>5. QED
        BY <1>1, <3>1, <3>4 DEF CallsInv, MessagesAreKnown, DeviceAnswer
    <2>4. QED
      BY <2>1, <2>2, <2>3
  <1>3. QED
    BY <1>1, <1>2, UnnoticedStep DEF CallsInv

\* CallsInv is inductive, and every step is one of JadeCalls or none.
LEMMA CallsNext == CallsInv /\ [Next]_vars => CallsInv' /\ CallStep
  <1> SUFFICES ASSUME CallsInv, [Next]_vars PROVE CallsInv' /\ CallStep
    OBVIOUS
  <1>1. CASE UNCHANGED vars
    <2>1. UNCHANGED <<handlers, clientVars, posted>> /\ MessagesAreKnown'
      BY <1>1 DEF vars, tableVars, lockVars, sendVars, linkVars, CallsInv, MessagesAreKnown
    <2>2. QED
      BY <2>1, UnnoticedStep DEF CallsInv
  <1>2. CASE Next
    BY <1>2, AskStep, ResponseStep, HttpStep, TimeoutStep, PostedStep, OtherStep
       DEF Next, Loop, Receive
  <1>3. QED
    BY <1>1, <1>2

\* Both hold at the start.
LEMMA CallsStart == Init => CallsInv /\ Calls!Init
  <1> SUFFICES ASSUME Init PROVE CallsInv /\ Calls!Init
    OBVIOUS
  <1>1. \A i \in Id : handlers[i] = Nobody
    BY DEF Init
  <1>2. HandlersLead /\ OneHandlerEach
    BY <1>1 DEF Init, HandlersLead, OneHandlerEach, Answers, Nobody
  <1>3. PostedAreAsked /\ AnsweredOnce /\ MessagesAreKnown
    BY DEF Init, PostedAreAsked, AnsweredOnce, MessagesAreKnown
  <1>4. Calls!Init
    BY DEF Init, Calls!Init
  <1>5. QED
    BY <1>2, <1>3, <1>4 DEF CallsInv

-----------------------------------------------------------------------------
\* The tables of JadeAPI are in order: a client that waits has one handler at most.
THEOREM HandlersInOrder == Spec => []CallsInv
  BY CallsStart, CallsNext, PTL DEF Spec

\* JadeAPI keeps what JadeCalls promises: the handler of a call is invoked once at
\* most and after the call (JadeAPI::callResponseHandler, forwardToResponseHandler
\* and the function of a timer).
THEOREM JadeApiImplementsCalls == Spec => CallsAnsweredOnce
  <1>1. CallsInv /\ [Next]_vars => [Calls!Next]_CallVars
    BY CallsNext DEF CallStep
  <1>2. Spec => Calls!Init /\ [][Calls!Next]_CallVars
    BY <1>1, CallsStart, HandlersInOrder, PTL DEF Spec
  <1>3. QED
    BY <1>2, PTL DEF CallsAnsweredOnce, Calls!Spec, CallVars, Made
-----------------------------------------------------------------------------
(* The handlers of a call are a chain. *)

\* The handlers of a call, as it is used below.
LEMMA OfFacts ==
    ASSUME HandlersLead, NEW c \in Call
    PROVE  /\ Of(c) \subseteq Id /\ NoId \notin Id
           /\ \A i \in Of(c) : handlers[i] # Nobody /\ handlers[i].call = c /\ handlers[i] \in Handler
           /\ \A i \in Id : Answers(i, c) => i \in Of(c)
  BY HandlerFields, JadeAssumption DEF Of, Answers, Id, NoId

\* A chain has one last handler.
LEMMA OneLast ==
    ASSUME HandlersLead, NEW c \in Call, LinksOf(c), NEW i, NEW j, Last(i, c), Last(j, c)
    PROVE  i = j
  <1>1. SUFFICES ASSUME i # j PROVE FALSE
    OBVIOUS
  <1> DEFINE S == Of(c) \ {j}
  <1>2. i \in S /\ S \in SUBSET Of(c)
    BY <1>1 DEF Last
  <1>3. \A k \in S : handlers[k].to # NoId => handlers[k].to \in S
    BY DEF Last, LinksOf
  <1>4. S = Of(c)
    BY <1>2, <1>3 DEF Last
  <1>5. QED
    BY <1>4 DEF Last

\* A step of an exchange is the last of its chain.
LEMMA StepIsLast ==
    ASSUME HandlersLead, NEW c \in Call, LinksOf(c), NEW i, Last(i, c),
           NEW j \in Of(c), handlers[j].kind = "step"
    PROVE  j = i
  <1>1. SUFFICES ASSUME i # j PROVE FALSE
    OBVIOUS
  <1> DEFINE S == Of(c) \ {j}
  <1>2. i \in S /\ S \in SUBSET Of(c)
    BY <1>1 DEF Last
  <1>3. \A k \in S : handlers[k].to # NoId => handlers[k].to \in S
    BY DEF LinksOf
  <1>4. S = Of(c)
    BY <1>2, <1>3 DEF Last
  <1>5. QED
    BY <1>4

\* Only what a handler refers to is gone through.
LEMMA PassesAlone ==
    ASSUME HandlersLead, NEW i \in Id, NEW r, ~HandsOver(i, r)
    PROVE  Passes(i, r) = {i}
  <1>1. PassesOn({i}, r)
    BY DEF PassesOn
  <1>2. Passes(i, r) \subseteq {i}
    BY <1>1 DEF Passes
  <1>3. i \in Passes(i, r)
    BY DEF Passes
  <1>4. QED
    BY <1>2, <1>3

\* A response nobody waits for changes nothing.
LEMMA PassesNobody ==
    ASSUME HandlersLead, NEW i \in Id, NEW r, handlers[i] = Nobody
    PROVE  Passes(i, r) = {i} /\ Finally(i, r) = {}
  <1>1. Passes(i, r) = {i}
    BY HandsOverTo, PassesAlone
  <1>2. QED
    BY <1>1 DEF Finally

\* A response to the last message of a call that ends the call takes all its handlers.
LEMMA PassesAll ==
    ASSUME HandlersLead, NEW c \in Call, LinksOf(c), NEW i \in Id, Last(i, c), NEW r,
           \A h \in Finally(i, r) : ~GoesOn(h, r)
    PROVE  Passes(i, r) = Of(c)
  <1>1. Of(c) \subseteq Id /\ i \in Of(c)
    BY OfFacts DEF Last
  <1>2. Passes(i, r) \subseteq Of(c)
    <2> DEFINE S == Of(c) \cap ({i} \cup Referred)
    <2>1. PassesOn(S, r)
      <3> SUFFICES ASSUME NEW j \in S, HandsOver(j, r) PROVE handlers[j].to \in S
        BY DEF PassesOn
      <3>1. handlers[j].to \in Referred
        BY <1>1, HandsOverTo
      <3>2. handlers[j].to # NoId
        BY <3>1 DEF Referred
      <3>3. QED
        BY <3>1, <3>2 DEF LinksOf
    <2>2. i \in S
      BY <1>1
    <2>3. QED
      BY <2>1, <2>2 DEF Passes
  <1>3. i \in Passes(i, r)
    BY DEF Passes
  <1>4. ASSUME NEW j \in Passes(i, r), handlers[j].to # NoId PROVE handlers[j].to \in Passes(i, r)
    <2>1. j \in Of(c) /\ j \in Id /\ handlers[j] \in Handler /\ handlers[j].call = c
      BY <1>1, <1>2, OfFacts
    <2>2. HandsOver(j, r)
      <3>1. SUFFICES ASSUME ~HandsOver(j, r) PROVE FALSE
        OBVIOUS
      <3>2. handlers[j] \in Finally(i, r)
        BY <2>1, <3>1, OfFacts DEF Finally
      <3>3. ~GoesOn(handlers[j], r)
        BY <3>2
      <3>4. handlers[j].kind # "client" /\ Kind[c] # "message"
        BY <1>4, <2>1 DEF LinksOf
      <3>5. handlers[j].kind = "step"
        BY <2>1, <3>1, <3>4 DEF Handler, HandsOver
      <3>6. QED
        BY <2>1, <3>1, <3>3, <3>4, <3>5 DEF HandsOver, GoesOn
    <2>3. handlers[j].to \in Referred
      BY <1>1, <2>2, HandsOverTo, <2>1
    <2>4. ASSUME NEW S \in SUBSET ({i} \cup Referred), i \in S, PassesOn(S, r)
          PROVE  handlers[j].to \in S
      BY <2>2, <2>4 DEF Passes, PassesOn
    <2>5. QED
      BY <2>3, <2>4 DEF Passes
  <1>5. QED
    BY <1>2, <1>3, <1>4 DEF Last

\* A response with which an exchange goes on is for its last handler alone.
LEMMA PassesStep ==
    ASSUME HandlersLead, Chained, NEW i \in Id, NEW r, NEW h \in Finally(i, r), GoesOn(h, r)
    PROVE  /\ Passes(i, r) = {i} /\ h = handlers[i] /\ h # Nobody
           /\ h \in Handler /\ h.kind = "step" /\ h.call \in Call /\ i \in Of(h.call)
  <1>1. PICK k \in Id : k \in Passes(i, r) /\ h = handlers[k] /\ h # Nobody /\ ~HandsOver(k, r)
    BY FinallyFacts
  <1>2. h.kind = "step" /\ h.call \in Call /\ h \in Handler
    BY <1>1, HandlerFields DEF GoesOn
  <1>3. k \notin Referred
    <2>1. SUFFICES ASSUME NEW j \in Id, handlers[j] # Nobody, handlers[j].to = k PROVE FALSE
      BY DEF Referred
    <2>2. handlers[j].call \in Call /\ j \in Of(handlers[j].call) /\ handlers[j].to # NoId
      BY <2>1, HandlerFields, JadeAssumption DEF Of, Id, NoId
    <2>3. handlers[k].kind # "step"
      BY <2>1, <2>2 DEF Chained, LinksOf
    <2>4. QED
      BY <1>1, <1>2, <2>3
  <1>4. k = i
    BY <1>1, <1>3 DEF Passes
  <1>5. QED
    BY <1>1, <1>2, <1>4, PassesAlone DEF Of

\* The handlers of c stay as they are.
Same(c) ==
    \A i \in Id : i \in Of(c) \/ (handlers'[i] # Nobody /\ handlers'[i].call = c) =>
        handlers'[i] = handlers[i]

\* Then their chain stays.
LEMMA SameChain ==
    ASSUME NEW c \in Call, Same(c)
    PROVE  /\ Of(c)' = Of(c) /\ \A i \in Of(c) : handlers'[i] = handlers[i]
           /\ \A i : Last(i, c)' <=> Last(i, c)
           /\ ChainOf(c) /\ (Unanswered(c)' <=> Unanswered(c)) => ChainOf(c)'
           /\ LinksOf(c) => LinksOf(c)'
  <1>1. Of(c)' = Of(c) /\ \A i \in Of(c) : handlers'[i] = handlers[i]
    BY DEF Same, Of
  <1>2. \A i : Last(i, c)' <=> Last(i, c)
    BY <1>1 DEF Last
  <1>3. \A i \in Id : Answers(i, c) => Answers(i, c)'
    BY <1>1 DEF Answers, Of
  <1>4. ChainOf(c) /\ (Unanswered(c)' <=> Unanswered(c)) => ChainOf(c)'
    BY <1>1, <1>2, <1>3 DEF ChainOf
  <1>5. LinksOf(c) => LinksOf(c)'
    BY <1>1 DEF LinksOf
  <1>6. QED
    BY <1>1, <1>2, <1>4, <1>5

\* A call of one message is made.
LEMMA NewChain ==
    ASSUME NEW c \in Call, NEW n \in Id, Of(c)' = {n}, Unanswered(c)',
           handlers'[n] \in Handler, handlers'[n].call = c, handlers'[n].to = NoId,
           \/ handlers'[n].kind = "client"
           \/ handlers'[n].kind = "step" /\ Kind[c] = "message"
    PROVE  ChainOf(c)' /\ LinksOf(c)' /\ Last(n, c)'
  <1>1. handlers'[n] # Nobody /\ Answers(n, c)'
    BY DEF Nobody, Answers, Of
  <1>2. n # NoId
    BY JadeAssumption DEF Id, NoId
  <1>3. Last(n, c)'
    BY <1>2 DEF Last
  <1>4. LinksOf(c)'
    BY DEF LinksOf
  <1>5. QED
    BY <1>1, <1>3, <1>4 DEF ChainOf

\* An exchange begins.
LEMMA NewExchange ==
    ASSUME NEW c \in Call, NEW i \in Id, NEW j \in Id, i # j,
           Of(c)' = {i, j}, Unanswered(c)', Kind[c] \in {"tx", "ota"},
           handlers'[i] = Client(c), handlers'[j] = Step(c, i, Messages)
    PROVE  ChainOf(c)' /\ LinksOf(c)' /\ Last(j, c)'
  <1>1. i # NoId /\ j # NoId
    BY JadeAssumption DEF Id, NoId
  <1>2. /\ handlers'[i].kind = "client" /\ handlers'[i].to = NoId /\ handlers'[i].call = c
        /\ handlers'[j].kind = "step" /\ handlers'[j].to = i /\ handlers'[j].call = c
        /\ handlers'[i] # Nobody
    BY DEF Client, Step, Nobody
  <1>3. Answers(i, c)'
    BY <1>2 DEF Answers
  <1>4. Last(j, c)'
    BY <1>1, <1>2 DEF Last
  <1>5. LinksOf(c)'
    BY <1>2 DEF LinksOf
  <1>6. QED
    BY <1>3, <1>4, <1>5 DEF ChainOf

\* The answer of the HTTP server is sent on: the chain has a new last handler.
LEMMA LongerChain ==
    ASSUME HandlersLead, NEW c \in Call, ChainOf(c), LinksOf(c), NEW i \in Id, Last(i, c),
           NEW n \in Id, n \notin Of(c),
           Of(c)' = Of(c) \cup {n}, \A j \in Of(c) : handlers'[j] = handlers[j],
           handlers'[n] = Forward(c, i), Kind[c] \in Auth, Unanswered(c)' <=> Unanswered(c)
    PROVE  ChainOf(c)' /\ LinksOf(c)' /\ Last(n, c)'
  <1>1. /\ handlers'[n].kind = "forward" /\ handlers'[n].to = i /\ handlers'[n].call = c
        /\ i \in Of(c) /\ i # n /\ Of(c) # {} /\ n # NoId /\ i # NoId
    BY OfFacts DEF Forward, Last
  <1>2. Unanswered(c) /\ \E k \in Id : Answers(k, c)
    BY <1>1 DEF ChainOf
  <1>3. \E k \in Id : Answers(k, c)'
    BY <1>2 DEF Answers, Of
  <1>4. Last(n, c)'
    <2>1. \A j \in Of(c)' : handlers'[j].to # n
      BY <1>1 DEF LinksOf
    <2>2. ASSUME NEW S \in SUBSET Of(c)', n \in S,
                 \A j \in S : handlers'[j].to # NoId => handlers'[j].to \in S
          PROVE  S = Of(c)'
      <3> DEFINE R == S \ {n}
      <3>1. R \in SUBSET Of(c) /\ i \in R
        BY <1>1, <2>2
      <3>2. \A j \in R : handlers[j].to # NoId => handlers[j].to \in R
        BY <1>1, <2>1, <2>2
      <3>3. R = Of(c)
        BY <3>1, <3>2 DEF Last
      <3>4. QED
        BY <2>2, <3>3
    <2>3. n \in Of(c)'
      OBVIOUS
    <2>4. QED
      BY <2>1, <2>2, <2>3 DEF Last
  <1>5. LinksOf(c)'
    <2>1. handlers[i].kind # "step"
      BY <1>1 DEF LinksOf, Auth
    <2>2. handlers'[n].kind # "step" /\ Kind[c] # "message"
      BY <1>1 DEF Auth
    <2>3. QED
      BY <1>1, <2>1, <2>2 DEF LinksOf
  <1>6. QED
    BY <1>2, <1>3, <1>4, <1>5 DEF ChainOf

\* The next message of an exchange is sent: its step takes the place of the last one.
LEMMA NextInChain ==
    ASSUME HandlersLead, NEW c \in Call, ChainOf(c), LinksOf(c), NEW i \in Id, Last(i, c),
           handlers[i].kind = "step",
           NEW n \in Id, n \notin Of(c), NEW l,
           Of(c)' = (Of(c) \ {i}) \cup {n}, \A j \in Of(c) \ {i} : handlers'[j] = handlers[j],
           handlers'[n] = Step(c, handlers[i].to, l), Unanswered(c)' <=> Unanswered(c)
    PROVE  ChainOf(c)' /\ LinksOf(c)' /\ Last(n, c)'
  <1> DEFINE t == handlers[i].to
  <1>1. /\ handlers'[n].kind = "step" /\ handlers'[n].to = t /\ handlers'[n].call = c
        /\ i \in Of(c) /\ i # n /\ n # NoId /\ i # NoId /\ handlers'[n] # Nobody
    BY OfFacts DEF Step, Last, Nobody
  <1>2. /\ Kind[c] \in {"message", "tx", "ota"} /\ (Kind[c] = "message" => t = NoId)
        /\ t # NoId => t \in Of(c) /\ t # i /\ t # n /\ handlers[t].kind # "step"
    BY <1>1 DEF LinksOf, Last
  <1> HIDE DEF t
  <1>3. Unanswered(c) /\ \E k \in Id : Answers(k, c)
    BY <1>1 DEF ChainOf
  <1>4. \E k \in Id : Answers(k, c)'
    <2>1. CASE Kind[c] = "message"
      BY <1>1, <2>1 DEF Answers
    <2>2. CASE Kind[c] # "message"
      <3>1. PICK k \in Id : Answers(k, c)
        BY <1>3
      <3>2. k \in Of(c) \ {i}
        BY <2>2, <3>1, OfFacts DEF Answers
      <3>3. QED
        BY <3>1, <3>2 DEF Answers
    <2>3. QED
      BY <2>1, <2>2
  <1>5. Last(n, c)'
    <2>1. \A j \in Of(c)' : handlers'[j].to # n
      BY <1>1, <1>2 DEF LinksOf
    <2>2. ASSUME NEW S \in SUBSET Of(c)', n \in S,
                 \A j \in S : handlers'[j].to # NoId => handlers'[j].to \in S
          PROVE  S = Of(c)'
      <3> DEFINE R == (S \ {n}) \cup {i}
      <3>1. R \in SUBSET Of(c) /\ i \in R
        BY <1>1, <2>2
      <3>2. \A j \in R : handlers[j].to # NoId => handlers[j].to \in R
        <4> SUFFICES ASSUME NEW j \in R, handlers[j].to # NoId PROVE handlers[j].to \in R
          OBVIOUS
        <4>1. CASE j = i
          BY <1>1, <1>2, <2>2, <4>1 DEF t
        <4>2. CASE j # i
          <5>1. j \in S /\ j \in Of(c) /\ handlers'[j] = handlers[j]
            BY <2>2, <4>2
          <5>2. QED
            BY <2>1, <2>2, <5>1
        <4>3. QED
          BY <4>1, <4>2
      <3>3. R = Of(c)
        BY <3>1, <3>2 DEF Last
      <3>4. QED
        BY <1>1, <2>2, <3>3
    <2>3. n \in Of(c)'
      OBVIOUS
    <2>4. QED
      BY <2>1, <2>2, <2>3 DEF Last
  <1>6. LinksOf(c)'
    <2> SUFFICES ASSUME NEW j \in Of(c)'
                 PROVE  /\ handlers'[j].kind = "forward" => Kind[c] \in Auth
                        /\ handlers'[j].kind = "step" => Kind[c] \in {"message", "tx", "ota"}
                        /\ handlers'[j].kind = "client" \/ Kind[c] = "message" => handlers'[j].to = NoId
                        /\ handlers'[j].to # NoId =>
                               handlers'[j].to \in Of(c)' /\ handlers'[handlers'[j].to].kind # "step"
      BY DEF LinksOf
    <2>1. CASE j = n
      BY <1>1, <1>2, <2>1
    <2>2. CASE j # n
      <3>1. j \in Of(c) /\ j # i /\ handlers'[j] = handlers[j]
        BY <2>2
      <3>2. handlers[j].to # i
        BY <3>1 DEF Last
      <3>3. QED
        BY <3>1, <3>2 DEF LinksOf
    <2>3. QED
      BY <2>1, <2>2
  <1>7. QED
    BY <1>3, <1>4, <1>5, <1>6 DEF ChainOf

\* The end of an upload is sent under the id of the client's handler.
LEMMA ShorterChain ==
    ASSUME HandlersLead, NEW c \in Call, ChainOf(c), LinksOf(c), NEW i \in Id, Last(i, c),
           handlers[i].kind = "step", NEW t, handlers[i].to = t, t # NoId,
           Of(c)' = Of(c) \ {i}, \A j \in Of(c) \ {i} : handlers'[j] = handlers[j],
           Unanswered(c)' <=> Unanswered(c)
    PROVE  ChainOf(c)' /\ LinksOf(c)' /\ Last(t, c)'
  <1>1. i \in Of(c) /\ t \in Of(c) /\ t # i /\ Kind[c] \in {"tx", "ota"}
    BY DEF LinksOf, Last
  <1>2. Unanswered(c) /\ \E k \in Id : Answers(k, c)
    BY <1>1 DEF ChainOf
  <1>3. \E k \in Id : Answers(k, c)'
    <2>1. PICK k \in Id : Answers(k, c)
      BY <1>2
    <2>2. k \in Of(c) \ {i}
      BY <1>1, <2>1, OfFacts DEF Answers
    <2>3. QED
      BY <2>1, <2>2 DEF Answers
  <1>4. ASSUME NEW j \in Of(c) \ {i} PROVE handlers[j].to = NoId
    <2>1. handlers[j].kind \in {"client", "forward", "step"}
      BY OfFacts DEF Handler
    <2>2. handlers[j].kind # "step"
      BY <1>4, StepIsLast
    <2>3. handlers[j].kind # "forward"
      BY <1>1, <1>4 DEF LinksOf, Auth
    <2>4. QED
      BY <2>1, <2>2, <2>3 DEF LinksOf
  <1>5. Last(t, c)'
    <2>1. t # NoId /\ t \in Of(c)'
      BY <1>1
    <2>2. \A j \in Of(c)' : handlers'[j].to # t
      BY <1>4, <2>1
    <2>3. ASSUME NEW S \in SUBSET Of(c)', t \in S PROVE S = Of(c)'
      <3>1. S \cup {i} \in SUBSET Of(c)
        BY <1>1
      <3>2. \A j \in S \cup {i} : handlers[j].to # NoId => handlers[j].to \in S \cup {i}
        BY <1>4, <2>3
      <3>3. S \cup {i} = Of(c)
        BY <3>1, <3>2 DEF Last
      <3>4. QED
        BY <3>3
    <2>4. QED
      BY <2>1, <2>2, <2>3 DEF Last
  <1>6. LinksOf(c)'
    BY <1>4 DEF LinksOf
  <1>7. t \in Id
    BY <1>1, OfFacts
  <1>8. QED
    BY <1>2, <1>3, <1>5, <1>6, <1>7 DEF ChainOf

-----------------------------------------------------------------------------
(* Messages are in one place. *)

\* What is under way is a message.
LEMMA MessageFacts ==
    ASSUME MessagesAreKnown
    PROVE  /\ UnderWay \subseteq Message /\ Queued \subseteq Message /\ OnWire \subseteq Message
           /\ \A m \in Message : m = [id |-> m.id, call |-> m.call] /\ m.id \in Id /\ m.call \in Call
           /\ \A w \in wire : /\ w.id \in Id /\ w.call \in Call
                              /\ [id |-> w.id, call |-> w.call] \in OnWire
           /\ DOMAIN queue = 1 .. Len(queue) /\ Len(queue) \in Nat
           /\ \A c : Waiting(c) <=> \E m \in Queued : m.call = c
  <1>1. Queued \subseteq Message
    BY DEF Queued, MessagesAreKnown
  <1>2. \A w \in wire : w.id \in Id /\ w.call \in Call
    BY DEF MessagesAreKnown
  <1>3. OnWire \subseteq Message
    BY <1>2 DEF OnWire, Message
  <1>4. \A m \in Message : m = [id |-> m.id, call |-> m.call] /\ m.id \in Id /\ m.call \in Call
    BY DEF Message
  <1>5. \A w \in wire : [id |-> w.id, call |-> w.call] \in OnWire
    BY DEF OnWire
  <1>6. DOMAIN queue = 1 .. Len(queue) /\ Len(queue) \in Nat
    BY DEF MessagesAreKnown
  <1>7. \A c : Waiting(c) <=> \E m \in Queued : m.call = c
    BY DEF Waiting, Queued
  <1>8. UnderWay \subseteq Message
    BY <1>1, <1>3 DEF UnderWay, MessagesAreKnown
  <1>9. QED
    BY <1>1, <1>2, <1>3, <1>4, <1>5, <1>6, <1>7, <1>8

\* A message is sent, and others are taken from the wire and the clients.
LEMMA SentNext ==
    ASSUME SentOnce, NEW m, m \notin UnderWay, device' \subseteq device \cup {m},
           queue' = queue, wire' \subseteq wire, http' \subseteq http
    PROVE  /\ SentOnce' /\ UnderWay' \subseteq UnderWay \cup {m} /\ Queued' = Queued
           /\ OnWire' \subseteq OnWire
  <1>1. Queued' = Queued
    BY DEF Queued
  <1>2. OnWire' \subseteq OnWire
    BY DEF OnWire
  <1>3. UnderWay' \subseteq UnderWay \cup {m}
    BY <1>1, <1>2 DEF UnderWay
  <1>4. SentOnce'
    <2>1. m \notin Queued /\ m \notin OnWire /\ m \notin http
      BY DEF UnderWay
    <2>2. /\ \A k, l \in DOMAIN queue' : queue'[k] = queue'[l] => k = l
          /\ \A v, w \in wire' : v.id = w.id /\ v.call = w.call => v = w
      BY DEF SentOnce
    <2>3. /\ Queued' \cap device' = {} /\ Queued' \cap OnWire' = {} /\ Queued' \cap http' = {}
          /\ device' \cap OnWire' = {} /\ device' \cap http' = {} /\ OnWire' \cap http' = {}
      BY <1>1, <1>2, <2>1 DEF SentOnce
    <2>4. QED
      BY <2>2, <2>3 DEF SentOnce
  <1>5. QED
    BY <1>1, <1>2, <1>3, <1>4

\* What is read from the wire is nowhere else.
LEMMA ReadOnce ==
    ASSUME MessagesAreKnown, SentOnce, NEW w \in wire, wire' = wire \ {w}, NEW m,
           device' \subseteq device \cup {m}, queue' = queue, http' \subseteq http,
           m # [id |-> w.id, call |-> w.call]
    PROVE  [id |-> w.id, call |-> w.call] \notin UnderWay'
  <1> DEFINE x == [id |-> w.id, call |-> w.call]
  <1>1. x \in OnWire
    BY DEF OnWire
  <1>2. x \notin Queued /\ x \notin device /\ x \notin http
    BY <1>1 DEF SentOnce
  <1>3. x \notin OnWire'
    <2>1. SUFFICES ASSUME NEW v \in wire', x = [id |-> v.id, call |-> v.call] PROVE FALSE
      BY DEF OnWire
    <2>2. v.id = w.id /\ v.call = w.call
      BY <2>1
    <2>3. QED
      BY <2>1, <2>2 DEF SentOnce
  <1>4. Queued' = Queued
    BY DEF Queued
  <1> HIDE DEF x
  <1>5. x \notin UnderWay'
    BY <1>2, <1>3, <1>4 DEF UnderWay, x
  <1>6. QED
    BY <1>5 DEF x

\* The answer of the HTTP server leaves the client.
LEMMA TakenOnce ==
    ASSUME SentOnce, NEW x \in http, http' = http \ {x}, NEW m, m # x,
           device' \subseteq device \cup {m}, queue' = queue, wire' = wire
    PROVE  x \notin UnderWay'
  <1>1. x \notin Queued /\ x \notin device /\ x \notin OnWire
    BY DEF SentOnce
  <1>2. Queued' = Queued /\ OnWire' = OnWire
    BY DEF Queued, OnWire
  <1>3. QED
    BY <1>1, <1>2 DEF UnderWay

\* A call is queued, or sent with nothing in flight.
LEMMA EnqueueOnce ==
    ASSUME MessagesAreKnown, SentOnce, NEW m \in Message, m \notin UnderWay, Enqueue(m),
           UNCHANGED <<wire, http>>
    PROVE  /\ SentOnce' /\ UnderWay' \subseteq UnderWay \cup {m}
           /\ inflight \subseteq inflight' /\ Queued \subseteq Queued'
           /\ m \in Queued' \/ m.id \in inflight'
           /\ Queued' \subseteq Queued \cup {m}
           /\ m \notin Queued' => queue = <<>> /\ inflight = {}
  <1>1. CASE inflight = {} /\ queue = <<>>
    <2>1. Send(m, inflight) /\ queue' = queue
      BY <1>1 DEF Enqueue
    <2>2. device' \subseteq device \cup {m} /\ inflight' = inflight \cup {m.id}
      BY <2>1 DEF Send
    <2>3. QED
      BY <1>1, <2>1, <2>2, SentNext
  <1>2. CASE ~(inflight = {} /\ queue = <<>>)
    <2>1. queue' = Append(queue, m) /\ inflight' = inflight /\ device' = device
      BY <1>2 DEF Enqueue, sendVars
    <2>2. /\ DOMAIN queue = 1 .. Len(queue) /\ Len(queue) \in Nat /\ queue \in Seq(Message)
          /\ DOMAIN queue' = 1 .. Len(queue) + 1
          /\ \A k \in 1 .. Len(queue) : queue'[k] = queue[k]
          /\ queue'[Len(queue) + 1] = m
      BY <2>1 DEF MessagesAreKnown
    <2>3. \A k \in DOMAIN queue' : k \in DOMAIN queue \/ k = Len(queue) + 1
      BY <2>2
    <2>4. Queued' = Queued \cup {m}
      <3>1. \A k \in DOMAIN queue : k \in DOMAIN queue'
        BY <2>2
      <3>2. Len(queue) + 1 \in DOMAIN queue'
        BY <2>2
      <3>3. QED
        BY <2>2, <2>3, <3>1, <3>2 DEF Queued
    <2>5. OnWire' = OnWire
      BY DEF OnWire
    <2>6. m \notin Queued /\ m \notin device /\ m \notin OnWire /\ m \notin http
      BY DEF UnderWay
    <2>7. \A k, l \in DOMAIN queue' : queue'[k] = queue'[l] => k = l
      <3>1. \A k \in DOMAIN queue : queue'[k] = queue[k] /\ queue[k] # m
        BY <2>2, <2>6 DEF Queued
      <3>2. QED
        BY <2>2, <2>3, <3>1 DEF SentOnce
    <2>8. SentOnce'
      <3>1. /\ Queued' \cap device' = {} /\ Queued' \cap OnWire' = {} /\ Queued' \cap http' = {}
            /\ device' \cap OnWire' = {} /\ device' \cap http' = {} /\ OnWire' \cap http' = {}
        BY <2>1, <2>4, <2>5, <2>6 DEF SentOnce
      <3>2. \A v, w \in wire' : v.id = w.id /\ v.call = w.call => v = w
        BY DEF SentOnce
      <3>3. QED
        BY <2>7, <3>1, <3>2 DEF SentOnce
    <2>9. QED
      BY <2>1, <2>4, <2>5, <2>8 DEF UnderWay
  <1>3. QED
    BY <1>1, <1>2

\* The head of the queue is sent when nothing is in flight any more.
LEMMA DrainOnce ==
    ASSUME MessagesAreKnown, SentOnce, NEW fl, Drain(fl), UNCHANGED <<wire, http>>
    PROVE  /\ SentOnce' /\ UnderWay' \subseteq UnderWay /\ fl \subseteq inflight'
           /\ \/ Queued' = Queued
              \/ /\ fl = {} /\ queue # <<>> /\ Head(queue) \in Queued
                 /\ Queued' = Queued \ {Head(queue)} /\ Head(queue).id \in inflight'
  <1>1. CASE fl = {} /\ queue # <<>>
    <2> DEFINE m == Head(queue)
    <2>1. /\ queue' = Tail(queue) /\ device' \subseteq device \cup {m}
          /\ inflight' = fl \cup {m.id}
      BY <1>1 DEF Drain, Send
    <2>2. /\ DOMAIN queue = 1 .. Len(queue) /\ Len(queue) \in Nat /\ Len(queue) > 0
          /\ queue \in Seq(Message) /\ m = queue[1] /\ 1 \in DOMAIN queue
          /\ DOMAIN queue' = 1 .. Len(queue) - 1
          /\ \A k \in 1 .. Len(queue) - 1 : queue'[k] = queue[k + 1]
      BY <1>1, <2>1 DEF MessagesAreKnown
    <2> HIDE DEF m
    <2>3. /\ \A k \in DOMAIN queue' : k + 1 \in DOMAIN queue /\ k + 1 # 1
          /\ \A k \in DOMAIN queue : k = 1 \/ (k - 1 \in DOMAIN queue' /\ queue'[k - 1] = queue[k])
      BY <2>2
    <2>4. \A k, l \in DOMAIN queue : queue[k] = queue[l] => k = l
      BY DEF SentOnce
    <2>5. Queued' = Queued \ {m}
      <3>1. ASSUME NEW x \in Queued' PROVE x \in Queued \ {m}
        <4>1. PICK k \in DOMAIN queue' : x = queue'[k]
          BY DEF Queued
        <4>2. x = queue[k + 1] /\ k + 1 \in DOMAIN queue /\ x # m
          BY <2>2, <2>3, <2>4, <4>1
        <4>3. QED
          BY <4>2 DEF Queued
      <3>2. ASSUME NEW x \in Queued \ {m} PROVE x \in Queued'
        <4>1. PICK k \in DOMAIN queue : x = queue[k]
          BY DEF Queued
        <4>2. k # 1
          BY <2>2, <3>2, <4>1
        <4>3. QED
          BY <2>3, <4>1, <4>2 DEF Queued
      <3>3. QED
        BY <3>1, <3>2
    <2>6. m \in Queued /\ OnWire' = OnWire
      BY <2>2 DEF Queued, OnWire
    <2>7. \A k, l \in DOMAIN queue' : queue'[k] = queue'[l] => k = l
      <3> SUFFICES ASSUME NEW k \in DOMAIN queue', NEW l \in DOMAIN queue', queue'[k] = queue'[l]
                   PROVE  k = l
        OBVIOUS
      <3>1. queue[k + 1] = queue[l + 1]
        BY <2>2
      <3>2. k + 1 = l + 1
        BY <2>3, <2>4, <3>1
      <3>3. QED
        BY <2>2, <3>2
    <2>8. SentOnce'
      <3>1. m \notin device /\ m \notin OnWire /\ m \notin http
        BY <2>6 DEF SentOnce
      <3>2. /\ Queued' \cap device' = {} /\ Queued' \cap OnWire' = {} /\ Queued' \cap http' = {}
            /\ device' \cap OnWire' = {} /\ device' \cap http' = {} /\ OnWire' \cap http' = {}
        BY <2>1, <2>5, <2>6, <3>1 DEF SentOnce
      <3>3. \A v, w \in wire' : v.id = w.id /\ v.call = w.call => v = w
        BY DEF SentOnce
      <3>4. QED
        BY <2>7, <3>2, <3>3 DEF SentOnce
    <2>9. QED
      BY <1>1, <2>1, <2>5, <2>6, <2>8 DEF UnderWay, m
  <1>2. CASE ~(fl = {} /\ queue # <<>>)
    <2>1. inflight' = fl /\ queue' = queue /\ device' = device
      BY <1>2 DEF Drain
    <2>2. Queued' = Queued /\ OnWire' = OnWire
      BY <2>1 DEF Queued, OnWire
    <2>3. SentOnce' /\ UnderWay' = UnderWay
      BY <2>1, <2>2 DEF SentOnce, UnderWay
    <2>4. QED
      BY <2>1, <2>2, <2>3
  <1>3. QED
    BY <1>1, <1>2

-----------------------------------------------------------------------------
(* One step, of one call or of none. *)

\* A chain has one last handler, in the next state.
LEMMA OneLastNext ==
    ASSUME HandlersLead', NEW c \in Call, LinksOf(c)', NEW i, NEW j, Last(i, c)', Last(j, c)'
    PROVE  i = j
  <1>1. SUFFICES ASSUME i # j PROVE FALSE
    OBVIOUS
  <1> DEFINE S == Of(c)' \ {j}
  <1>2. i \in S /\ S \in SUBSET Of(c)'
    BY <1>1 DEF Last
  <1>3. \A k \in S : handlers'[k].to # NoId => handlers'[k].to \in S
    BY DEF Last, LinksOf
  <1>4. S = Of(c)'
    BY <1>2, <1>3 DEF Last
  <1>5. QED
    BY <1>4 DEF Last

\* What the step does to a call it is not of.
Stays(d) ==
    /\ Same(d) /\ (Unanswered(d)' <=> Unanswered(d))
    /\ outcome[d] # "idle" => outcome'[d] # "idle"

\* What ExchangeInv says until an id is drawn that is in use.
Orderly ==
    /\ CallsInv /\ Chained /\ SentOnce /\ MessagesHaveHandlers
    /\ TimersInOrder /\ LastInFlight

\* The types of the proxies and of the two variables about ids.
TableTypes ==
    /\ proxies \in [Id -> {"none", "empty"} \cup Auth]
    /\ repeats \in 0..MaxRepeats /\ clashed \in BOOLEAN

\* What it says of a message.
HasHandler(m) ==
    /\ outcome[m.call] # "idle"
    /\ handlers[m.id] # Nobody => Last(m.id, m.call)
    /\ Kind[m.call] \notin Timed \/ Unanswered(m.call) => handlers[m.id] # Nobody
    /\ Kind[m.call] = "unlock" => proxies[m.id] # "auth"

\* The step registers nothing under an id that is in use, or that has a timeout.
Undisturbed == \A i \in Id : InUse(i) => /\ handlers'[i] \in {handlers[i], Nobody}
                                        /\ proxies'[i] \in {proxies[i], "none", "empty"}
TimedStay == \A i \in Id : i \in timeouts => handlers'[i] \in {handlers[i], Nobody}

\* A registered handler is one of its call.
LEMMA UsedFacts ==
    ASSUME HandlersLead, Chained
    PROVE  /\ \A i \in Id : handlers[i] # Nobody =>
                  handlers[i].call \in Call /\ i \in Of(handlers[i].call)
           /\ \A c \in Call : Of(c) # {} => Unanswered(c) /\ \E i \in Id : Last(i, c)
  <1>1. \A i \in Id : handlers[i] # Nobody => handlers[i].call \in Call /\ i \in Of(handlers[i].call)
    BY HandlerFields DEF Of
  <1>2. QED
    BY <1>1 DEF Chained, ChainOf, LinksOf

\* An id that is drawn without a clash.
LEMMA DrawnFacts ==
    ASSUME NEW n \in Id, ~InUse(n)
    PROVE  /\ handlers[n] = Nobody /\ \A d : n \notin Of(d)
           /\ \A m \in UnderWay : m.id # n
           /\ n \notin inflight /\ frame.id # n /\ ~(timers[n] > 0)
           /\ \A i : InUse(i) => i # n
  BY DEF InUse, Of

\* What Draw says, when no id has clashed after it.
LEMMA DrawFacts ==
    ASSUME NEW D, NEW twice, NEW c, Draw(D, twice, c), ~clashed'
    PROVE  ~twice /\ \A n \in D : ~InUse(n) /\ (n \in timeouts => Kind[c] \in Timed)
  BY DEF Draw, Clash

\* A message under way keeps its id in use.
LEMMA UnderWayInUse == \A m \in UnderWay : InUse(m.id)
  BY DEF InUse

\* A call that waits has one message under way at most: that of its last handler.
LEMMA OneMessage ==
    ASSUME Orderly, NEW m \in UnderWay, NEW i, Last(i, m.call),
           Kind[m.call] \notin Timed \/ Unanswered(m.call)
    PROVE  m = [id |-> i, call |-> m.call]
  <1>1. m = [id |-> m.id, call |-> m.call] /\ m.call \in Call
    BY MessageFacts DEF Orderly, CallsInv
  <1>2. Last(m.id, m.call)
    BY DEF Orderly, MessagesHaveHandlers
  <1>3. m.id = i
    BY <1>1, <1>2, OneLast DEF Orderly, CallsInv, Chained
  <1>4. QED
    BY <1>1, <1>3

\* A step that is of c alone leaves the other chains.
LEMMA ChainedNext ==
    ASSUME Chained, NEW c, \A d \in Call \ {c} : Stays(d),
           c \in Call => ChainOf(c)' /\ LinksOf(c)'
    PROVE  Chained'
  <1>1. \A d \in Call \ {c} : ChainOf(d)' /\ LinksOf(d)'
    BY SameChain DEF Stays, Chained
  <1>2. QED
    BY <1>1 DEF Chained

\* A message of another call has its handler as before.
LEMMA MessageStays ==
    ASSUME Orderly, NEW m \in UnderWay, Stays(m.call), Undisturbed
    PROVE  HasHandler(m)'
  <1>1. m.id \in Id /\ m.call \in Call /\ InUse(m.id)
    BY MessageFacts, UnderWayInUse DEF Orderly, CallsInv
  <1>2. HasHandler(m)
    BY DEF Orderly, MessagesHaveHandlers, HasHandler
  <1>3. Kind[m.call] = "unlock" => proxies'[m.id] # "auth"
    BY <1>1, <1>2 DEF Undisturbed, HasHandler
  <1>4. CASE handlers[m.id] = Nobody
    BY <1>1, <1>2, <1>3, <1>4 DEF Stays, Undisturbed, HasHandler
  <1>5. CASE handlers[m.id] # Nobody
    <2>1. Last(m.id, m.call)
      BY <1>2, <1>5 DEF HasHandler
    <2>2. m.id \in Of(m.call) /\ Same(m.call)
      BY <2>1 DEF Last, Stays
    <2>3. handlers'[m.id] = handlers[m.id] /\ Last(m.id, m.call)'
      BY <1>1, <2>1, <2>2, SameChain
    <2>4. QED
      BY <1>2, <1>3, <1>5, <2>3 DEF Stays, HasHandler
  <1>6. QED
    BY <1>4, <1>5

\* A step that is of c alone leaves the messages of others with their handlers.
LEMMA MessagesNext ==
    ASSUME Orderly, NEW c, \A d \in Call \ {c} : Stays(d), Undisturbed,
           \A m \in UnderWay' : (m \in UnderWay /\ m.call # c) \/ HasHandler(m)',
           \A m \in http' : Kind[m.call] \in Auth,
           \A w \in wire' : w.result = "http" => Kind[w.call] \in Auth
    PROVE  MessagesHaveHandlers'
  <1>1. ASSUME NEW m \in UnderWay' PROVE HasHandler(m)'
    <2>1. CASE m \in UnderWay /\ m.call # c
      <3>1. Stays(m.call)
        BY <2>1, MessageFacts DEF Orderly, CallsInv
      <3>2. QED
        BY <2>1, <3>1, MessageStays
    <2>2. QED
      BY <2>1
  <1>2. QED
    BY <1>1 DEF MessagesHaveHandlers, HasHandler

\* The timer of a message is armed.
LEMMA ArmedNext ==
    ASSUME TimersInOrder, NEW m, NEW fl, Send(m, fl), timeouts \subseteq timeouts', m.id \in Id
    PROVE  timers' \in [Id -> Nat] /\ \A i \in Id : timers'[i] > 0 => i \in timeouts'
  <1>1. timers' = [timers EXCEPT ![m.id] = IF m.id \in timeouts' THEN @ + 1 ELSE @]
    BY DEF Send, Armed
  <1>2. QED
    BY <1>1 DEF TimersInOrder

\* A step that remembers no timeout.
LEMMA TimersNext ==
    ASSUME TimersInOrder, timeouts' = timeouts, TimedStay,
           timers' \in [Id -> Nat] /\ \A i \in Id : timers'[i] > 0 => i \in timeouts'
    PROVE  TimersInOrder'
  BY DEF TimersInOrder, TimedStay

\* What is in flight of a call the step is not of.
LEMMA FlightStays ==
    ASSUME Orderly, NEW d \in Call, Stays(d), NEW i \in Id, Last(i, d)', Kind[d] # "auth"
    PROVE  /\ Last(i, d) /\ (Waiting(d) \/ i \in inflight)
           /\ frame.by \in {"message", "timer"} => frame.id # i
  BY SameChain DEF Orderly, LastInFlight, Stays

\* A step that changes neither the handlers nor who waits for them.
LEMMA QuietExchange ==
    ASSUME Orderly, CallsInv', UNCHANGED <<handlers, timeouts>>,
           \A i \in Id : proxies'[i] \in {proxies[i], "none"},
           \A d \in Call : /\ Unanswered(d)' <=> Unanswered(d)
                           /\ outcome[d] # "idle" => outcome'[d] # "idle",
           SentOnce', UnderWay' \subseteq UnderWay,
           \A m \in http' : Kind[m.call] \in Auth,
           \A w \in wire' : w.result = "http" => Kind[w.call] \in Auth,
           timers' \in [Id -> Nat] /\ \A i \in Id : timers'[i] > 0 => i \in timeouts,
           \A c \in Call, i \in Id : Last(i, c) /\ Kind[c] # "auth" =>
               /\ Waiting(c)' \/ i \in inflight'
               /\ frame'.by \in {"message", "timer"} => frame'.id # i
    PROVE  Orderly'
  <1>1. \A d \in Call : Stays(d)
    BY DEF Stays, Same
  <1>2. Chained'
    <2>1. \A d \in Call : ChainOf(d)' /\ LinksOf(d)'
      BY <1>1, SameChain DEF Stays, Orderly, Chained
    <2>2. QED
      BY <2>1 DEF Chained
  <1>3. MessagesHaveHandlers'
    <2>1. \A m \in UnderWay : m.call \in Call
      BY MessageFacts DEF Orderly, CallsInv
    <2>2. ASSUME NEW m \in UnderWay' PROVE HasHandler(m)'
      BY <1>1, <2>1, MessageStays DEF Undisturbed
    <2>3. QED
      BY <2>2 DEF MessagesHaveHandlers, HasHandler
  <1>4. TimersInOrder'
    BY DEF Orderly, TimersInOrder
  <1>5. LastInFlight'
    <2>1. \A c \in Call, i \in Id : Last(i, c)' <=> Last(i, c)
      BY <1>1, SameChain DEF Stays
    <2>2. QED
      BY <2>1 DEF LastInFlight
  <1>6. QED
    BY <1>2, <1>3, <1>4, <1>5 DEF Orderly

\* What it is to wait in the queue, before a step and after it.
LEMMA WaitingFacts ==
    /\ \A c : Waiting(c) <=> \E m \in Queued : m.call = c
    /\ \A c : Waiting(c)' <=> \E m \in Queued' : m.call = c
  BY DEF Waiting, Queued

\* A step of the link, or of the firmware update controller.
LEMMA UnmovedExchange ==
    ASSUME Orderly, CallsInv', SentOnce', UnderWay' \subseteq UnderWay,
           UNCHANGED <<outcome, posted, handlers, proxies, timeouts, queue, inflight, timers, frame,
                       http>>,
           \A w \in wire' : w.result = "http" => Kind[w.call] \in Auth
    PROVE  Orderly'
  <1>1. /\ \A m \in http' : Kind[m.call] \in Auth
        /\ timers' \in [Id -> Nat] /\ \A i \in Id : timers'[i] > 0 => i \in timeouts
    BY DEF Orderly, MessagesHaveHandlers, TimersInOrder, LastInFlight
  <1>2. \A d \in Call : /\ Unanswered(d)' <=> Unanswered(d)
                        /\ outcome[d] # "idle" => outcome'[d] # "idle"
    BY DEF Unanswered
  <1>3. \A c \in Call, i \in Id : Last(i, c) /\ Kind[c] # "auth" =>
            /\ Waiting(c)' \/ i \in inflight'
            /\ frame'.by \in {"message", "timer"} => frame'.id # i
    BY DEF Orderly, LastInFlight, Waiting
  <1>4. QED
    BY <1>1, <1>2, <1>3, QuietExchange

\* The firmware update controller, a link that comes back, and stuttering.
LEMMA LockExchange ==
    ASSUME Orderly, CallsInv', Lock \/ Unlock \/ Connect \/ UNCHANGED vars
    PROVE  Orderly'
  <1>1. /\ UNCHANGED <<outcome, posted, handlers, proxies, timeouts, queue, inflight, timers, frame,
                       http>>
        /\ UNCHANGED <<device, wire>>
    BY DEF Lock, Unlock, Connect, vars, clientVars, lockVars, tableVars, sendVars, linkVars
  <1>2. SentOnce' /\ UnderWay' = UnderWay
    BY <1>1 DEF Orderly, SentOnce, UnderWay, Queued, OnWire
  <1>3. QED
    BY <1>1, <1>2, UnmovedExchange DEF Orderly, MessagesHaveHandlers

\* What is lost with the link was in one place.
LEMMA DisconnectExchange == ASSUME Orderly, CallsInv', Disconnect PROVE Orderly'
  <1>1. /\ UNCHANGED <<outcome, posted, handlers, proxies, timeouts, queue, inflight, timers, frame,
                       http>>
        /\ device' = {} /\ wire' = {}
    BY DEF Disconnect, clientVars, lockVars, tableVars
  <1>2. OnWire' = {} /\ Queued' = Queued
    BY <1>1 DEF OnWire, Queued
  <1>3. SentOnce' /\ UnderWay' \subseteq UnderWay
    BY <1>1, <1>2 DEF Orderly, SentOnce, UnderWay
  <1>4. QED
    BY <1>1, <1>3, UnmovedExchange

\* The device's answer takes the place of the message.
LEMMA DeviceExchange ==
    ASSUME Orderly, CallsInv', NEW m \in device, DeviceAnswer(m) PROVE Orderly'
  <1>1. PICK r \in {"ok", "error", "http"} :
            /\ r = "http" => Kind[m.call] \in Auth
            /\ wire' = wire \cup {[id |-> m.id, call |-> m.call, result |-> r]}
    BY DEF DeviceAnswer
  <1>2. /\ UNCHANGED <<outcome, posted, handlers, proxies, timeouts, queue, inflight, timers, frame,
                       http>>
        /\ device' = device \ {m}
    BY DEF DeviceAnswer, clientVars, lockVars, tableVars
  <1> DEFINE w == [id |-> m.id, call |-> m.call, result |-> r]
  <1>3. m \in Message /\ m = [id |-> m.id, call |-> m.call]
    BY MessageFacts DEF Orderly, CallsInv, UnderWay
  <1>4. OnWire' = OnWire \cup {m} /\ Queued' = Queued
    <2>1. Queued' = Queued
      BY <1>2 DEF Queued
    <2>2. [id |-> w.id, call |-> w.call] = m
      BY <1>3
    <2>3. wire' = wire \cup {w}
      BY <1>1
    <2> HIDE DEF w
    <2>4. QED
      BY <2>1, <2>2, <2>3 DEF OnWire
  <1>5. m \notin Queued /\ m \notin OnWire /\ m \notin http
    BY DEF Orderly, SentOnce
  <1>6. \A v \in wire : ~(v.id = w.id /\ v.call = w.call)
    <2>1. SUFFICES ASSUME NEW v \in wire, v.id = w.id, v.call = w.call PROVE FALSE
      OBVIOUS
    <2>2. [id |-> v.id, call |-> v.call] = m
      BY <1>3, <2>1
    <2>3. QED
      BY <1>5, <2>2 DEF OnWire
  <1>7. \A v, x \in wire' : v.id = x.id /\ v.call = x.call => v = x
    <2>1. wire' = wire \cup {w}
      BY <1>1
    <2> HIDE DEF w
    <2>2. QED
      BY <1>6, <2>1 DEF Orderly, SentOnce
  <1>8. SentOnce' /\ UnderWay' \subseteq UnderWay
    <2>1. \A k, l \in DOMAIN queue' : queue'[k] = queue'[l] => k = l
      BY <1>2 DEF Orderly, SentOnce
    <2>2. /\ Queued' \cap device' = {} /\ Queued' \cap OnWire' = {} /\ Queued' \cap http' = {}
          /\ device' \cap OnWire' = {} /\ device' \cap http' = {} /\ OnWire' \cap http' = {}
      BY <1>2, <1>4, <1>5 DEF Orderly, SentOnce
    <2>3. UnderWay' \subseteq UnderWay
      BY <1>2, <1>4 DEF UnderWay
    <2>4. QED
      BY <1>7, <2>1, <2>2, <2>3 DEF SentOnce
  <1>9. \A v \in wire' : v.result = "http" => Kind[v.call] \in Auth
    BY <1>1 DEF Orderly, MessagesHaveHandlers
  <1>10. QED
    BY <1>2, <1>8, <1>9, UnmovedExchange

\* The head of the queue is sent, and the function on the stack returns.
LEMMA DrainExchange ==
    ASSUME Orderly, CallsInv', NEW fl, Drain(fl), frame' = Idle,
           UNCHANGED <<outcome, posted, handlers, proxies, timeouts, wire, http>>,
           \A c \in Call, i \in Id : Last(i, c) /\ Kind[c] # "auth" => Waiting(c) \/ i \in fl
    PROVE  Orderly'
  <1>1. /\ SentOnce' /\ UnderWay' \subseteq UnderWay /\ fl \subseteq inflight'
        /\ \/ Queued' = Queued
           \/ /\ fl = {} /\ queue # <<>> /\ Head(queue) \in Queued
              /\ Queued' = Queued \ {Head(queue)} /\ Head(queue).id \in inflight'
    BY DrainOnce DEF Orderly, CallsInv
  <1>2. /\ \A m \in http' : Kind[m.call] \in Auth
        /\ \A w \in wire' : w.result = "http" => Kind[w.call] \in Auth
        /\ frame'.by = "loop"
    BY DEF Orderly, MessagesHaveHandlers, Idle
  <1>3. \A d \in Call : /\ Unanswered(d)' <=> Unanswered(d)
                        /\ outcome[d] # "idle" => outcome'[d] # "idle"
    BY DEF Unanswered
  <1>4. timers' \in [Id -> Nat] /\ \A i \in Id : timers'[i] > 0 => i \in timeouts
    <2>1. CASE fl = {} /\ queue # <<>>
      <3>1. Send(Head(queue), fl)
        BY <2>1 DEF Drain
      <3>2. Head(queue) \in Queued
        BY <2>1, MessageFacts DEF Queued, Orderly, CallsInv, MessagesAreKnown
      <3>3. Head(queue).id \in Id
        BY <3>2, MessageFacts DEF Orderly, CallsInv
      <3>4. QED
        BY <3>1, <3>3, ArmedNext DEF Orderly
    <2>2. CASE ~(fl = {} /\ queue # <<>>)
      BY <2>2 DEF Drain, Orderly, TimersInOrder
    <2>3. QED
      BY <2>1, <2>2
  <1>5. ASSUME NEW c \in Call, NEW i \in Id, Last(i, c), Kind[c] # "auth"
        PROVE  Waiting(c)' \/ i \in inflight'
    <2>1. CASE Waiting(c)
      <3>1. PICK m \in Queued : m.call = c
        BY <2>1, WaitingFacts
      <3>2. Unanswered(c)
        BY <1>5, UsedFacts DEF Orderly, CallsInv, Last
      <3>3. m.id = i
        BY <1>5, <3>1, <3>2, OneMessage DEF UnderWay
      <3>4. m \in Queued' \/ i \in inflight'
        BY <1>1, <3>3
      <3>5. QED
        BY <3>1, <3>4, WaitingFacts
    <2>2. CASE i \in fl
      BY <1>1, <2>2
    <2>3. QED
      BY <1>5, <2>1, <2>2
  <1>6. QED
    BY <1>1, <1>2, <1>3, <1>4, <1>5, QuietExchange

\* What the function on the stack releases is in flight for no call.
LEMMA ReturnExchange == ASSUME Orderly, CallsInv', Return PROVE Orderly'
  <1>1. frame' = Idle /\ UNCHANGED <<outcome, posted, handlers, proxies, timeouts, wire, http>>
    BY DEF Return, clientVars, lockVars, tableVars, linkVars
  <1>2. CASE ReturnFromTimer
    <2>1. Drain(inflight \ {frame.id}) /\ frame.by = "timer"
      BY <1>2 DEF ReturnFromTimer
    <2>2. \A c \in Call, i \in Id : Last(i, c) /\ Kind[c] # "auth" =>
              Waiting(c) \/ i \in inflight \ {frame.id}
      BY <2>1 DEF Orderly, LastInFlight
    <2>3. QED
      BY <1>1, <2>1, <2>2, DrainExchange
  <1>3. CASE ReturnFromMessage \/ ReturnFromPost
    <2>1. /\ UNCHANGED <<queue, timers, device>>
          /\ inflight' = inflight \/ (frame.by = "message" /\ inflight' = inflight \ {frame.id})
      BY <1>3 DEF ReturnFromMessage, ReturnFromPost, sendVars
    <2>2. SentOnce' /\ UnderWay' = UnderWay
      BY <1>1, <2>1 DEF Orderly, SentOnce, UnderWay, Queued, OnWire
    <2>3. /\ \A m \in http' : Kind[m.call] \in Auth
          /\ \A w \in wire' : w.result = "http" => Kind[w.call] \in Auth
          /\ timers' \in [Id -> Nat] /\ \A i \in Id : timers'[i] > 0 => i \in timeouts
          /\ frame'.by = "loop"
      BY <1>1, <2>1 DEF Orderly, MessagesHaveHandlers, TimersInOrder, Idle
    <2>4. \A d \in Call : /\ Unanswered(d)' <=> Unanswered(d)
                          /\ outcome[d] # "idle" => outcome'[d] # "idle"
      BY <1>1 DEF Unanswered
    <2>5. \A c \in Call, i \in Id : Last(i, c) /\ Kind[c] # "auth" => Waiting(c)' \/ i \in inflight'
      BY <2>1 DEF Orderly, LastInFlight, Waiting
    <2>6. QED
      BY <1>1, <2>2, <2>3, <2>4, <2>5, QuietExchange
  <1>4. QED
    BY <1>2, <1>3 DEF Return

\* The posted drain.
LEMMA DrainEventExchange == ASSUME Orderly, CallsInv', DrainEvent PROVE Orderly'
  <1>1. /\ Drain(inflight) /\ frame' = Idle
        /\ UNCHANGED <<outcome, posted, handlers, proxies, timeouts, wire, http>>
    BY DEF DrainEvent, clientVars, lockVars, tableVars, linkVars
  <1>2. QED
    BY <1>1, DrainExchange DEF Orderly, LastInFlight

\* The answer to a call made while locked concerns nobody else.
LEMMA PostedExchange ==
    ASSUME Orderly, CallsInv', NEW c \in Call, Posted(c) PROVE Orderly'
  <1>1. /\ outcome' = [outcome EXCEPT ![c] = "ok"] /\ c \in posted /\ posted' = posted \ {c}
        /\ frame' = [by |-> "post", id |-> NoId, client |-> TRUE]
        /\ UNCHANGED <<handlers, proxies, timeouts, queue, inflight, timers, device, wire, http>>
    BY DEF Posted, tableVars, sendVars, linkVars
  <1>2. \A d \in Call : outcome'[d] = IF d = c THEN "ok" ELSE outcome[d]
    BY <1>1 DEF Orderly, CallsInv, AnsweredOnce
  <1>3. \A d \in Call : /\ Unanswered(d)' <=> Unanswered(d)
                        /\ outcome[d] # "idle" => outcome'[d] # "idle"
    BY <1>1, <1>2 DEF Unanswered
  <1>4. SentOnce' /\ UnderWay' = UnderWay
    BY <1>1 DEF Orderly, SentOnce, UnderWay, Queued, OnWire
  <1>5. /\ \A m \in http' : Kind[m.call] \in Auth
        /\ \A w \in wire' : w.result = "http" => Kind[w.call] \in Auth
        /\ timers' \in [Id -> Nat] /\ \A i \in Id : timers'[i] > 0 => i \in timeouts
        /\ frame'.by = "post"
    BY <1>1 DEF Orderly, MessagesHaveHandlers, TimersInOrder
  <1>6. \A d \in Call, i \in Id : Last(i, d) /\ Kind[d] # "auth" => Waiting(d)' \/ i \in inflight'
    BY <1>1 DEF Orderly, LastInFlight, Waiting
  <1>7. QED
    BY <1>1, <1>3, <1>4, <1>5, <1>6, QuietExchange

\* At the start there is nothing.
LEMMA ExchangeStart == Init => Orderly
  <1> SUFFICES ASSUME Init PROVE Orderly
    OBVIOUS
  <1>1. /\ \A i \in Id : handlers[i] = Nobody
        /\ \A c \in Call : outcome[c] = "idle"
        /\ queue = <<>> /\ device = {} /\ wire = {} /\ http = {}
        /\ timers \in [Id -> Nat] /\ (\A i \in Id : timers[i] = 0) /\ timeouts = {}
        /\ frame = Idle
    BY DEF Init
  <1>2. \A c : Of(c) = {}
    BY <1>1 DEF Of
  <1>3. Chained
    BY <1>1, <1>2 DEF Chained, ChainOf, LinksOf, Unanswered
  <1>4. Queued = {} /\ OnWire = {} /\ DOMAIN queue = {}
    BY <1>1 DEF Queued, OnWire
  <1>5. SentOnce
    BY <1>1, <1>4 DEF SentOnce
  <1>6. MessagesHaveHandlers
    BY <1>1, <1>4 DEF MessagesHaveHandlers, UnderWay
  <1>7. TimersInOrder
    BY <1>1 DEF TimersInOrder
  <1>8. LastInFlight
    BY <1>1, <1>2 DEF LastInFlight, Last, Idle
  <1>9. QED
    BY <1>3, <1>5, <1>6, <1>7, <1>8, CallsStart DEF Orderly

\* An HTTP request that the client of auth_user does later.
LEMMA KeptExchange ==
    ASSUME Orderly, CallsInv', NEW w \in wire, wire' = wire \ {w}, Kind[w.call] = "auth",
           http' = http \cup {[id |-> w.id, call |-> w.call]}, frame'.id = w.id,
           UNCHANGED <<outcome, posted, handlers, proxies, timeouts, queue, inflight, timers, device>>
    PROVE  Orderly'
  <1> DEFINE x == [id |-> w.id, call |-> w.call]
  <1>1. x \in OnWire /\ x \in UnderWay /\ w.id \in Id /\ w.call \in Call
    BY MessageFacts DEF Orderly, CallsInv, UnderWay
  <1>2. x \notin Queued /\ x \notin device /\ x \notin http
    BY <1>1 DEF Orderly, SentOnce
  <1>3. x \notin OnWire'
    <2>1. SUFFICES ASSUME NEW v \in wire', x = [id |-> v.id, call |-> v.call] PROVE FALSE
      BY DEF OnWire
    <2>2. v.id = w.id /\ v.call = w.call
      BY <2>1
    <2>3. QED
      BY <2>1, <2>2 DEF Orderly, SentOnce
  <1>4. Queued' = Queued /\ OnWire' \subseteq OnWire
    BY DEF Queued, OnWire
  <1>5. SentOnce' /\ UnderWay' \subseteq UnderWay
    <2> HIDE DEF x
    <2>1. http' = http \cup {x}
      BY DEF x
    <2>2. /\ Queued' \cap device' = {} /\ Queued' \cap OnWire' = {} /\ Queued' \cap http' = {}
          /\ device' \cap OnWire' = {} /\ device' \cap http' = {} /\ OnWire' \cap http' = {}
      BY <1>2, <1>3, <1>4, <2>1 DEF Orderly, SentOnce
    <2>3. /\ \A k, l \in DOMAIN queue' : queue'[k] = queue'[l] => k = l
          /\ \A u, v \in wire' : u.id = v.id /\ u.call = v.call => u = v
      BY DEF Orderly, SentOnce
    <2>4. QED
      BY <1>1, <1>4, <2>1, <2>2, <2>3 DEF SentOnce, UnderWay
  <1>6. \A m \in http' : Kind[m.call] \in Auth
    BY DEF Orderly, MessagesHaveHandlers, Auth
  <1>7. /\ \A v \in wire' : v.result = "http" => Kind[v.call] \in Auth
        /\ timers' \in [Id -> Nat] /\ \A i \in Id : timers'[i] > 0 => i \in timeouts
    BY DEF Orderly, MessagesHaveHandlers, TimersInOrder
  <1>8. handlers[w.id] # Nobody => Last(w.id, w.call)
    BY <1>1 DEF Orderly, MessagesHaveHandlers
  <1>9. \A d \in Call, i \in Id : Last(i, d) /\ Kind[d] # "auth" => frame'.id # i
    BY <1>8 DEF Last, Of
  <1>10. \A d \in Call, i \in Id : Last(i, d) /\ Kind[d] # "auth" => Waiting(d)' \/ i \in inflight'
    BY DEF Orderly, LastInFlight, Waiting
  <1>11. \A d \in Call : /\ Unanswered(d)' <=> Unanswered(d)
                         /\ outcome[d] # "idle" => outcome'[d] # "idle"
    BY DEF Unanswered
  <1>12. QED
    BY <1>5, <1>6, <1>7, <1>8, <1>9, <1>10, <1>11, QuietExchange

\* An HTTP request with an empty proxy, which ends the program.
LEMMA ThrownExchange ==
    ASSUME Orderly, CallsInv', wire' \subseteq wire, frame'.by = "end",
           UNCHANGED <<outcome, posted, handlers, proxies, timeouts, queue, inflight, timers, device,
                       http>>
    PROVE  Orderly'
  <1>1. Queued' = Queued /\ OnWire' \subseteq OnWire
    BY DEF Queued, OnWire
  <1>2. SentOnce' /\ UnderWay' \subseteq UnderWay
    BY <1>1 DEF Orderly, SentOnce, UnderWay
  <1>3. /\ \A m \in http' : Kind[m.call] \in Auth
        /\ \A w \in wire' : w.result = "http" => Kind[w.call] \in Auth
        /\ timers' \in [Id -> Nat] /\ \A i \in Id : timers'[i] > 0 => i \in timeouts
    BY DEF Orderly, MessagesHaveHandlers, TimersInOrder
  <1>4. \A c \in Call, i \in Id : Last(i, c) /\ Kind[c] # "auth" => Waiting(c)' \/ i \in inflight'
    BY DEF Orderly, LastInFlight, Waiting
  <1>5. \A d \in Call : /\ Unanswered(d)' <=> Unanswered(d)
                        /\ outcome[d] # "idle" => outcome'[d] # "idle"
    BY DEF Unanswered
  <1>6. QED
    BY <1>2, <1>3, <1>4, <1>5, QuietExchange

-----------------------------------------------------------------------------
(* A call is made. *)

\* A handler is registered under a new id.
LEMMA RegisteredFacts ==
    ASSUME NEW table, NEW i \in Id, table \in [Id -> Handler \cup {Nobody}], table[i] = Nobody,
           NEW h \in Handler, handlers' = Registered(table, i, h)
    PROVE  /\ handlers'[i] = h /\ h # Nobody /\ \A j \in Id \ {i} : handlers'[j] = table[j]
           /\ Of(h.call)' = {j \in Id : table[j] # Nobody /\ table[j].call = h.call} \cup {i}
           /\ \A d \in Call \ {h.call} : \A j \in Id :
                 handlers'[j] # Nobody /\ handlers'[j].call = d
                     <=> j # i /\ table[j] # Nobody /\ table[j].call = d
  <1>1. h # Nobody
    BY DEF Handler, Nobody
  <1>2. handlers'[i] = h /\ \A j \in Id \ {i} : handlers'[j] = table[j]
    BY DEF Registered
  <1>3. QED
    BY <1>1, <1>2 DEF Of

\* A call that is made and goes to the device.
LEMMA AskedExchange ==
    ASSUME Orderly, CallsInv', NEW c \in Call, Asked(c), posted' = posted,
           NEW n \in Id, ~InUse(n),
           \/ Enqueue([id |-> n, call |-> c])
           \/ Send([id |-> n, call |-> c], inflight) /\ UNCHANGED queue,
           timeouts \subseteq timeouts', timeouts' \subseteq timeouts \cup {n},
           n \in timeouts' => Kind[c] \in Timed,
           \A i \in Id : i \in timeouts => i = n \/ handlers'[i] = handlers[i],
           Kind[c] = "unlock" => proxies'[n] # "auth",
           \A d \in Call \ {c} : Same(d), Undisturbed,
           Unanswered(c)' => ChainOf(c)' /\ LinksOf(c)' /\ Last(n, c)'
    PROVE  Orderly'
  <1> DEFINE m == [id |-> n, call |-> c]
  <1>1. /\ outcome[c] = "idle" /\ frame' = frame /\ UNCHANGED <<wire, http>>
        /\ \A d \in Call : outcome'[d] = IF d = c THEN "asked" ELSE outcome[d]
    BY DEF Asked, linkVars, Orderly, CallsInv, AnsweredOnce
  <1>2. c \notin posted
    BY <1>1 DEF Orderly, CallsInv, PostedAreAsked
  <1>3. ChainOf(c)' /\ LinksOf(c)' /\ Last(n, c)' /\ Unanswered(c)'
    BY <1>1, <1>2 DEF Unanswered
  <1>4. \A d \in Call \ {c} : Stays(d)
    BY <1>1 DEF Stays, Unanswered
  <1>5. Chained'
    BY <1>3, <1>4, ChainedNext DEF Orderly
  <1>6. /\ m \in Message /\ m.id = n /\ m.call = c
        /\ \A x \in UnderWay : x.call # c /\ x.id # n
    BY <1>1, DrawnFacts DEF Message, Orderly, MessagesHaveHandlers
  <1> HIDE DEF m
  <1>7. /\ SentOnce' /\ UnderWay' \subseteq UnderWay \cup {m}
        /\ inflight \subseteq inflight' /\ Queued \subseteq Queued'
        /\ m \in Queued' \/ m.id \in inflight'
        /\ timers' \in [Id -> Nat] /\ \A i \in Id : timers'[i] > 0 => i \in timeouts'
    <2>1. m \notin UnderWay
      BY <1>6
    <2>2. CASE Send(m, inflight) /\ queue' = queue
      <3>1. device' \subseteq device \cup {m} /\ inflight' = inflight \cup {m.id}
        BY <2>2 DEF Send
      <3>2. SentOnce' /\ UnderWay' \subseteq UnderWay \cup {m} /\ Queued' = Queued
        BY <1>1, <2>1, <2>2, <3>1, SentNext DEF Orderly
      <3>3. timers' \in [Id -> Nat] /\ \A i \in Id : timers'[i] > 0 => i \in timeouts'
        BY <1>6, <2>2, ArmedNext DEF Orderly
      <3>4. QED
        BY <3>1, <3>2, <3>3
    <2>3. CASE Enqueue(m)
      <3>1. /\ SentOnce' /\ UnderWay' \subseteq UnderWay \cup {m}
            /\ inflight \subseteq inflight' /\ Queued \subseteq Queued'
            /\ m \in Queued' \/ m.id \in inflight'
        BY <1>1, <1>6, <2>1, <2>3, EnqueueOnce DEF Orderly, CallsInv
      <3>2. Send(m, inflight) \/ timers' = timers
        BY <2>3 DEF Enqueue, sendVars
      <3>3. timers' \in [Id -> Nat] /\ \A i \in Id : timers'[i] > 0 => i \in timeouts'
        <4>1. CASE Send(m, inflight)
          BY <1>6, <4>1, ArmedNext DEF Orderly
        <4>2. CASE timers' = timers
          BY <4>2 DEF Orderly, TimersInOrder
        <4>3. QED
          BY <3>2, <4>1, <4>2
      <3>4. QED
        BY <3>1, <3>3
    <2>4. QED
      BY <2>2, <2>3 DEF m
  <1>8. MessagesHaveHandlers'
    <2>1. handlers'[n] # Nobody
      BY <1>3 DEF Last, Of
    <2>2. ASSUME NEW x \in UnderWay' PROVE (x \in UnderWay /\ x.call # c) \/ HasHandler(x)'
      BY <1>1, <1>3, <1>6, <1>7, <2>1 DEF HasHandler
    <2>3. /\ \A x \in http' : Kind[x.call] \in Auth
          /\ \A w \in wire' : w.result = "http" => Kind[w.call] \in Auth
      BY <1>1 DEF Orderly, MessagesHaveHandlers
    <2>4. QED
      BY <1>4, <2>2, <2>3, MessagesNext
  <1>9. TimersInOrder'
    <2>1. ASSUME NEW i \in Id, i \in timeouts', handlers'[i] # Nobody
          PROVE  Kind[handlers'[i].call] \in Timed
      <3>1. CASE i # n
        BY <2>1, <3>1 DEF Orderly, TimersInOrder
      <3>2. CASE i = n
        BY <1>3, <2>1, <3>2 DEF Last, Of
      <3>3. QED
        BY <3>1, <3>2
    <2>2. QED
      BY <1>7, <2>1 DEF TimersInOrder
  <1>10. LastInFlight'
    <2>1. frame.id # n
      BY DrawnFacts
    <2>2. ASSUME NEW d \in Call, NEW i \in Id, Last(i, d)', Kind[d] # "auth"
          PROVE  /\ Waiting(d)' \/ i \in inflight'
                 /\ frame'.by \in {"message", "timer"} => frame'.id # i
      <3>1. CASE d = c
        <4>1. i = n
          BY <1>3, <2>2, <3>1, OneLastNext DEF CallsInv
        <4>2. QED
          BY <1>1, <1>6, <1>7, <2>1, <3>1, <4>1, WaitingFacts
      <3>2. CASE d # c
        <4>1. /\ Waiting(d) \/ i \in inflight
              /\ frame.by \in {"message", "timer"} => frame.id # i
          BY <1>4, <2>2, <3>2, FlightStays
        <4>2. QED
          BY <1>1, <1>7, <4>1, WaitingFacts
      <3>3. QED
        BY <3>1, <3>2
    <2>3. QED
      BY <1>1, <2>1, <2>2 DEF LastInFlight
  <1>11. QED
    BY <1>5, <1>7, <1>8, <1>9, <1>10 DEF Orderly

\* A call of one message, whose handler is h.
LEMMA OneMessageExchange ==
    ASSUME Orderly, CallsInv', ~clashed', NEW c \in Call, Asked(c), posted' = posted,
           NEW n \in Id, Draw({n}, FALSE, c), NEW h \in Handler, h.call = c, h.to = NoId,
           h.kind = "client" \/ (h.kind = "step" /\ Kind[c] = "message"),
           handlers' = Registered(handlers, n, h),
           \A j \in Id \ {n} : proxies'[j] = proxies[j], Kind[c] = "unlock" => proxies'[n] # "auth",
           \/ Enqueue([id |-> n, call |-> c])
           \/ Send([id |-> n, call |-> c], inflight) /\ UNCHANGED queue,
           timeouts' = IF Kind[c] \in Timed THEN timeouts \cup {n} ELSE timeouts
    PROVE  Orderly'
  <1>1. /\ ~InUse(n) /\ (n \in timeouts => Kind[c] \in Timed)
        /\ handlers[n] = Nobody /\ (\A d : n \notin Of(d)) /\ \A i : InUse(i) => i # n
    BY DrawFacts, DrawnFacts
  <1>2. handlers \in [Id -> Handler \cup {Nobody}] /\ Chained
    BY DEF Orderly, CallsInv, HandlersLead
  <1>3. /\ handlers'[n] = h /\ \A j \in Id \ {n} : handlers'[j] = handlers[j]
        /\ Of(c)' = Of(c) \cup {n}
        /\ \A d \in Call \ {c} : \A j \in Id :
              handlers'[j] # Nobody /\ handlers'[j].call = d
                  => j # n /\ handlers[j] # Nobody /\ handlers[j].call = d
    BY <1>1, <1>2, RegisteredFacts DEF Of
  <1>4. Of(c) = {}
    BY <1>2 DEF Asked, Unanswered, Chained, ChainOf
  <1>5. \A d \in Call \ {c} : Same(d)
    BY <1>1, <1>3 DEF Same
  <1>6. Unanswered(c)' => ChainOf(c)' /\ LinksOf(c)' /\ Last(n, c)'
    BY <1>1, <1>3, <1>4, NewChain
  <1>7. Undisturbed
    BY <1>1, <1>3 DEF Undisturbed
  <1>8. /\ timeouts \subseteq timeouts' /\ timeouts' \subseteq timeouts \cup {n}
        /\ n \in timeouts' => Kind[c] \in Timed
        /\ \A i \in Id : i \in timeouts => i = n \/ handlers'[i] = handlers[i]
    BY <1>1, <1>3
  <1>9. QED
    BY <1>1, <1>5, <1>6, <1>7, <1>8, AskedExchange

\* A call made while locked concerns neither handlers nor messages.
LEMMA AskLockedExchange ==
    ASSUME Orderly, CallsInv', NEW c \in Call, AskLocked(c) PROVE Orderly'
  <1>1. /\ outcome[c] = "idle" /\ frame' = frame /\ posted' = posted \cup {c}
        /\ UNCHANGED <<handlers, proxies, timeouts, queue, inflight, timers, device, wire, http>>
        /\ \A d \in Call : outcome'[d] = IF d = c THEN "asked" ELSE outcome[d]
    BY DEF AskLocked, Asked, linkVars, tableVars, sendVars, Orderly, CallsInv, AnsweredOnce
  <1>2. \A d \in Call : /\ Unanswered(d)' <=> Unanswered(d)
                        /\ outcome[d] # "idle" => outcome'[d] # "idle"
    BY <1>1 DEF Unanswered
  <1>3. SentOnce' /\ UnderWay' = UnderWay
    BY <1>1 DEF Orderly, SentOnce, UnderWay, Queued, OnWire
  <1>4. /\ \A m \in http' : Kind[m.call] \in Auth
        /\ \A w \in wire' : w.result = "http" => Kind[w.call] \in Auth
        /\ timers' \in [Id -> Nat] /\ \A i \in Id : timers'[i] > 0 => i \in timeouts
    BY <1>1 DEF Orderly, MessagesHaveHandlers, TimersInOrder, LastInFlight
  <1>5. \A d \in Call, i \in Id : Last(i, d) /\ Kind[d] # "auth" =>
            /\ Waiting(d)' \/ i \in inflight'
            /\ frame'.by \in {"message", "timer"} => frame'.id # i
    BY <1>1 DEF Orderly, LastInFlight, Waiting
  <1>6. QED
    BY <1>1, <1>2, <1>3, <1>4, <1>5, QuietExchange

\* signTx, signLiquidTx, otaUpdate: two handlers are registered.
LEMMA AskExchangeExchange ==
    ASSUME Orderly, CallsInv', ~clashed', NEW c \in Call, AskExchange(c) PROVE Orderly'
  <1>1. PICK i \in Id, j \in Id :
            /\ handlers' = Registered(Registered(handlers, i, Client(c)), j, Step(c, i, Messages))
            /\ Draw({i, j}, i = j, c)
            /\ UNCHANGED <<proxies, timeouts>>
            /\ Enqueue([id |-> j, call |-> c])
    BY DrawnIds DEF AskExchange
  <1>2. /\ i # j /\ ~InUse(i) /\ ~InUse(j)
        /\ Kind[c] \notin Timed => i \notin timeouts /\ j \notin timeouts
        /\ handlers[i] = Nobody /\ (\A d : i \notin Of(d))
        /\ handlers[j] = Nobody /\ (\A d : j \notin Of(d))
        /\ \A k : InUse(k) => k # i /\ k # j
    <2>1. i # j /\ \A n \in {i, j} : ~InUse(n) /\ (n \in timeouts => Kind[c] \in Timed)
      BY <1>1, DrawFacts
    <2>2. QED
      BY <2>1, DrawnFacts
  <1>3. Asked(c) /\ posted' = posted /\ Kind[c] \in {"tx", "ota"}
    BY DEF AskExchange
  <1>4. handlers \in [Id -> Handler \cup {Nobody}] /\ Chained
    BY DEF Orderly, CallsInv, HandlersLead
  <1>5. Client(c) \in Handler /\ Step(c, i, Messages) \in Handler
    BY <1>2, JadeAssumption DEF Client, Step, Handler
  <1>6. Client(c) # Nobody /\ Step(c, i, Messages) # Nobody
    BY DEF Client, Step, Nobody
  <1>7. /\ handlers'[i] = Client(c) /\ handlers'[j] = Step(c, i, Messages)
        /\ \A k \in Id \ {i, j} : handlers'[k] = handlers[k]
    BY <1>1, <1>2, <1>4, <1>5 DEF Registered
  <1>8. handlers'[i].call = c /\ handlers'[j].call = c
    BY <1>7 DEF Client, Step
  <1>9. Of(c) = {}
    BY <1>3, <1>4 DEF Asked, Unanswered, Chained, ChainOf
  <1>10. Of(c)' = {i, j}
    BY <1>2, <1>6, <1>7, <1>8, <1>9 DEF Of
  <1>11. \A d \in Call \ {c} : Same(d)
    BY <1>2, <1>7, <1>8 DEF Same
  <1>12. Unanswered(c)' => ChainOf(c)' /\ LinksOf(c)' /\ Last(j, c)'
    BY <1>1, <1>2, <1>3, <1>7, <1>10, NewExchange
  <1>13. Undisturbed
    BY <1>1, <1>2, <1>7 DEF Undisturbed
  <1>14. Kind[c] \notin Timed /\ Kind[c] # "unlock"
    BY <1>3 DEF Timed
  <1>15. /\ timeouts \subseteq timeouts' /\ timeouts' \subseteq timeouts \cup {j}
         /\ j \in timeouts' => Kind[c] \in Timed
         /\ \A k \in Id : k \in timeouts => k = j \/ handlers'[k] = handlers[k]
    BY <1>1, <1>2, <1>7, <1>14
  <1>16. QED
    BY <1>1, <1>2, <1>3, <1>11, <1>12, <1>13, <1>14, <1>15, AskedExchange

\* A call is made, of any kind.
LEMMA AskAnyExchange ==
    ASSUME Orderly, CallsInv', TableTypes, ~clashed', NEW c \in Call, Ask(c) PROVE Orderly'
  <1>1. CASE AskSimple(c)
    <2>1. PICK n \in Id :
              /\ handlers' = Registered(handlers, n, Client(c)) /\ Draw({n}, FALSE, c)
              /\ proxies' = IF Kind[c] \in Auth THEN [proxies EXCEPT ![n] = Kind[c]] ELSE proxies
              /\ timeouts' = IF Kind[c] \in Timed THEN timeouts \cup {n} ELSE timeouts
              /\ \/ Enqueue([id |-> n, call |-> c])
                 \/ Send([id |-> n, call |-> c], inflight) /\ UNCHANGED queue
      BY <1>1, DrawnIds DEF AskSimple, Remember
    <2>2. /\ Client(c) \in Handler /\ Client(c).call = c /\ Client(c).to = NoId
          /\ Client(c).kind = "client"
      BY JadeAssumption DEF Client, Handler
    <2>3. Asked(c) /\ posted' = posted
      BY <1>1 DEF AskSimple
    <2>4. /\ \A j \in Id \ {n} : proxies'[j] = proxies[j]
          /\ Kind[c] = "unlock" => proxies'[n] # "auth"
      BY <2>1 DEF TableTypes, Auth
    <2>5. QED
      BY <2>1, <2>2, <2>3, <2>4, OneMessageExchange
  <1>2. CASE AskMessage(c)
    <2>1. PICK n \in Id :
              /\ handlers' = Registered(handlers, n, Step(c, NoId, 1)) /\ Draw({n}, FALSE, c)
              /\ UNCHANGED <<proxies, timeouts>> /\ Enqueue([id |-> n, call |-> c])
      BY <1>2, DrawnIds DEF AskMessage
    <2>2. /\ Step(c, NoId, 1) \in Handler /\ Step(c, NoId, 1).call = c /\ Step(c, NoId, 1).to = NoId
          /\ Step(c, NoId, 1).kind = "step"
      BY JadeAssumption DEF Step, Handler
    <2>3. Asked(c) /\ posted' = posted /\ Kind[c] = "message"
      BY <1>2 DEF AskMessage
    <2>4. QED
      BY <2>1, <2>2, <2>3, OneMessageExchange DEF Timed
  <1>3. QED
    BY <1>1, <1>2, AskLockedExchange, AskExchangeExchange DEF Ask

-----------------------------------------------------------------------------
(* A response is processed, or the answer of an HTTP server. *)

\* Message x of c has been answered, and the next one is sent under n.
LEMMA SentOnExchange ==
    ASSUME Orderly, CallsInv', NEW c \in Call, NEW i \in Id, Last(i, c),
           NEW x \in UnderWay, x = [id |-> i, call |-> c], x \notin UnderWay',
           NEW n \in Id, n # i, Send([id |-> n, call |-> c], inflight), queue' = queue,
           wire' \subseteq wire, http' \subseteq http, UNCHANGED <<outcome, posted>>,
           timeouts' = timeouts, Undisturbed, TimedStay, Kind[c] = "unlock" => proxies'[n] # "auth",
           \A d \in Call \ {c} : Same(d), frame'.id \in {i, NoId},
           ChainOf(c)' /\ LinksOf(c)' /\ Last(n, c)'
    PROVE  Orderly'
  <1> DEFINE m == [id |-> n, call |-> c]
  <1>1. \A d \in Call \ {c} : Stays(d)
    BY DEF Stays, Unanswered
  <1>2. Chained'
    BY <1>1, ChainedNext DEF Orderly
  <1>3. m.id = n /\ m.call = c /\ x.id = i /\ x.call = c /\ m # x
    OBVIOUS
  <1> HIDE DEF m
  <1>4. \A y \in UnderWay : y.call = c => y = x
    <2>1. Unanswered(c)
      BY UsedFacts DEF Orderly, CallsInv, Last
    <2>2. QED
      BY <2>1, OneMessage
  <1>5. m \notin UnderWay /\ outcome[c] # "idle"
    BY <1>3, <1>4 DEF Orderly, MessagesHaveHandlers
  <1>6. device' \subseteq device \cup {m} /\ inflight' = inflight \cup {n}
    BY <1>3 DEF Send, m
  <1>7. SentOnce' /\ UnderWay' \subseteq UnderWay \cup {m} /\ Queued' = Queued
    BY <1>5, <1>6, SentNext DEF Orderly
  <1>8. MessagesHaveHandlers'
    <2>1. handlers'[n] # Nobody
      BY DEF Last, Of
    <2>2. ASSUME NEW y \in UnderWay' PROVE (y \in UnderWay /\ y.call # c) \/ HasHandler(y)'
      BY <1>3, <1>4, <1>5, <1>7, <2>1 DEF HasHandler
    <2>3. /\ \A y \in http' : Kind[y.call] \in Auth
          /\ \A w \in wire' : w.result = "http" => Kind[w.call] \in Auth
      BY DEF Orderly, MessagesHaveHandlers
    <2>4. QED
      BY <1>1, <2>2, <2>3, MessagesNext
  <1>9. TimersInOrder'
    <2>1. timers' \in [Id -> Nat] /\ \A j \in Id : timers'[j] > 0 => j \in timeouts'
      BY <1>3, ArmedNext DEF Orderly, m
    <2>2. QED
      BY <2>1, TimersNext DEF Orderly
  <1>10. LastInFlight'
    <2>1. i # NoId /\ n # NoId
      BY JadeAssumption DEF Id, NoId
    <2>2. ASSUME NEW d \in Call, NEW k \in Id, Last(k, d)', Kind[d] # "auth"
          PROVE  /\ Waiting(d)' \/ k \in inflight'
                 /\ frame'.by \in {"message", "timer"} => frame'.id # k
      <3>1. CASE d = c
        <4>1. k = n
          BY <2>2, <3>1, OneLastNext DEF CallsInv
        <4>2. QED
          BY <1>6, <2>1, <4>1
      <3>2. CASE d # c
        <4>1. Last(k, d) /\ (Waiting(d) \/ k \in inflight)
          BY <1>1, <2>2, <3>2, FlightStays
        <4>2. k # i /\ k # NoId
          BY <3>2, <4>1, JadeAssumption DEF Last, Of, Id, NoId
        <4>3. QED
          BY <1>6, <4>1, <4>2 DEF Waiting
      <3>3. QED
        BY <3>1, <3>2
    <2>3. QED
      BY <1>5, <2>2 DEF LastInFlight
  <1>11. QED
    BY <1>2, <1>7, <1>8, <1>9, <1>10 DEF Orderly

\* The answer of the HTTP server is sent on.
LEMMA ForwardedExchange ==
    ASSUME Orderly, CallsInv', TableTypes, ~clashed',
           NEW c \in Call, NEW i \in Id, Kind[c] \in Auth,
           NEW x \in UnderWay, x = [id |-> i, call |-> c], HandleHttpResponse(x),
           UNCHANGED <<outcome, posted, queue>>, frame'.id \in {i, NoId},
           \/ \E w \in wire : wire' = wire \ {w} /\ w.id = i /\ w.call = c /\ http' = http
           \/ x \in http /\ http' = http \ {x} /\ wire' = wire
    PROVE  Orderly'
  <1> DEFINE proxy == IF proxies[i] = "none" THEN "empty" ELSE proxies[i]
  <1>1. PICK n \in Id :
            /\ handlers' = Registered(handlers, n, Forward(c, i)) /\ Draw({n}, FALSE, c)
            /\ proxies' = [proxies EXCEPT ![i] = proxy, ![n] = proxy]
            /\ timeouts' = timeouts /\ Send([id |-> n, call |-> c], inflight)
    BY DrawnIds DEF HandleHttpResponse
  <1>2. /\ ~InUse(n) /\ n \notin timeouts
        /\ handlers[n] = Nobody /\ (\A d : n \notin Of(d)) /\ \A k : InUse(k) => k # n
    BY <1>1, DrawFacts, DrawnFacts DEF Auth, Timed
  <1>3. /\ Forward(c, i) \in Handler /\ Forward(c, i).call = c
        /\ handlers \in [Id -> Handler \cup {Nobody}] /\ Chained
    BY JadeAssumption DEF Forward, Handler, Orderly, CallsInv, HandlersLead
  <1>4. /\ handlers'[n] = Forward(c, i) /\ \A j \in Id \ {n} : handlers'[j] = handlers[j]
        /\ Of(c)' = Of(c) \cup {n}
        /\ \A d \in Call \ {c} : \A j \in Id :
              handlers'[j] # Nobody /\ handlers'[j].call = d
                  => j # n /\ handlers[j] # Nobody /\ handlers[j].call = d
    BY <1>1, <1>2, <1>3, RegisteredFacts DEF Of
  <1>5. x.id = i /\ x.call = c
    OBVIOUS
  <1>6. Last(i, c) /\ (Kind[c] = "unlock" => proxies[i] # "auth") /\ n # i
    BY <1>2, <1>5, UnderWayInUse DEF Orderly, MessagesHaveHandlers, Auth, Timed
  <1>7. ChainOf(c)' /\ LinksOf(c)' /\ Last(n, c)'
    <2>1. Unanswered(c)' <=> Unanswered(c)
      BY DEF Unanswered
    <2>2. \A j \in Of(c) : handlers'[j] = handlers[j]
      BY <1>2, <1>4 DEF Of
    <2>3. QED
      BY <1>1, <1>2, <1>3, <1>4, <1>6, <2>1, <2>2, LongerChain
         DEF Orderly, CallsInv, Chained
  <1>8. \A d \in Call \ {c} : Same(d)
    BY <1>2, <1>4 DEF Same
  <1>9. x \notin UnderWay' /\ wire' \subseteq wire /\ http' \subseteq http
    <2> DEFINE m == [id |-> n, call |-> c]
    <2>1. m # x /\ device' \subseteq device \cup {m}
      BY <1>1, <1>2, <1>6 DEF Send
    <2> HIDE DEF m
    <2>2. CASE \E w \in wire : wire' = wire \ {w} /\ w.id = i /\ w.call = c /\ http' = http
      <3>1. PICK w \in wire : wire' = wire \ {w} /\ w.id = i /\ w.call = c /\ http' = http
        BY <2>2
      <3>2. QED
        BY <2>1, <3>1, ReadOnce DEF Orderly, CallsInv
    <2>3. CASE x \in http /\ http' = http \ {x} /\ wire' = wire
      BY <2>1, <2>3, TakenOnce DEF Orderly
    <2>4. QED
      BY <2>2, <2>3
  <1>10. /\ proxies'[n] = proxy /\ proxies'[i] = proxy
         /\ \A j \in Id \ {i, n} : proxies'[j] = proxies[j]
    BY <1>1, <1>6 DEF TableTypes
  <1>11. Undisturbed /\ TimedStay /\ (Kind[c] = "unlock" => proxies'[n] # "auth")
    <2>1. Kind[c] = "unlock" => proxies'[n] # "auth"
      BY <1>6, <1>10
    <2>2. proxy \in {proxies[i], "none", "empty"}
      OBVIOUS
    <2> HIDE DEF proxy
    <2>3. \A j \in Id : j # n => proxies'[j] \in {proxies[j], "none", "empty"}
      BY <1>10, <2>2
    <2>4. QED
      BY <1>2, <1>4, <2>1, <2>3 DEF Undisturbed, TimedStay
  <1>12. QED
    BY <1>1, <1>6, <1>7, <1>8, <1>9, <1>11, SentOnExchange

\* The device asks for a HTTP request.
LEMMA HttpRequestExchange ==
    ASSUME Orderly, CallsInv', TableTypes, ~clashed', NEW w \in wire, HttpRequest(w)
    PROVE  Orderly'
  <1> DEFINE x == [id |-> w.id, call |-> w.call]
  <1>1. /\ w.id \in Id /\ w.call \in Call /\ x \in UnderWay
        /\ Kind[w.call] \in Auth
    BY MessageFacts DEF HttpRequest, Orderly, CallsInv, UnderWay, MessagesHaveHandlers
  <1>2. /\ wire' = wire \ {w} /\ frame'.id = w.id
        /\ UNCHANGED <<outcome, posted, queue>>
    BY DEF HttpRequest, clientVars, lockVars
  <1>3. CASE HandleHttpResponse(x) /\ http' = http
    BY <1>1, <1>2, <1>3, ForwardedExchange
  <1>4. CASE /\ proxies[w.id] = "auth" /\ http' = http \cup {x}
             /\ UNCHANGED <<tableVars, sendVars>>
    <2>1. Kind[w.call] = "auth"
      BY <1>1, <1>4 DEF Orderly, MessagesHaveHandlers, Auth
    <2>2. QED
      BY <1>2, <1>4, <2>1, KeptExchange DEF tableVars, sendVars
  <1>5. CASE /\ proxies[w.id] = "empty" /\ http' = http
             /\ UNCHANGED <<tableVars, sendVars>>
    <2>1. frame'.by = "end"
      BY <1>5 DEF HttpRequest
    <2>2. QED
      BY <1>2, <1>5, <2>1, ThrownExchange DEF tableVars, sendVars
  <1>6. QED
    BY <1>3, <1>4, <1>5 DEF HttpRequest

\* A client has done a HTTP request.
LEMMA HttpDoneExchange ==
    ASSUME Orderly, CallsInv', TableTypes, ~clashed', NEW m \in http, HttpDone(m)
    PROVE  Orderly'
  <1>1. /\ m \in UnderWay /\ Kind[m.call] \in Auth
        /\ m.id \in Id /\ m.call \in Call /\ m = [id |-> m.id, call |-> m.call]
    BY MessageFacts DEF Orderly, CallsInv, UnderWay, MessagesHaveHandlers
  <1>2. /\ HandleHttpResponse(m) /\ http' = http \ {m} /\ frame' = Idle
        /\ UNCHANGED <<outcome, posted, queue, wire>>
    BY DEF HttpDone, clientVars, lockVars, linkVars
  <1>3. frame'.id = NoId
    BY <1>2 DEF Idle
  <1>4. QED
    BY <1>1, <1>2, <1>3, ForwardedExchange

\* An exchange goes on with its next message.
LEMMA GoesOnExchange ==
    ASSUME Orderly, CallsInv', ~clashed', NEW w \in wire, wire' = wire \ {w},
           NEW h \in Finally(w.id, w.result), GoesOn(h, w.result),
           SendNext(h, Without(Passes(w.id, w.result))), frame'.id = w.id,
           proxies' = WithoutProxies(Passes(w.id, w.result)),
           UNCHANGED <<outcome, posted, queue, http>>
    PROVE  Orderly'
  <1> DEFINE i == w.id
             c == w.call
             x == [id |-> i, call |-> c]
  <1>1. i \in Id /\ c \in Call /\ x \in UnderWay /\ Chained /\ HandlersLead
    BY MessageFacts DEF Orderly, CallsInv, UnderWay
  <1>2. /\ Passes(i, w.result) = {i} /\ h = handlers[i] /\ h # Nobody /\ h.kind = "step"
        /\ h \in Handler
    BY <1>1, PassesStep
  <1>3. x.id = i /\ x.call = c
    OBVIOUS
  <1> HIDE DEF i, c, x
  <1>4. Last(i, c) /\ InUse(i)
    BY <1>1, <1>2, <1>3, UnderWayInUse DEF Orderly, MessagesHaveHandlers
  <1>5. h.call = c /\ i \in Of(c) /\ ChainOf(c) /\ LinksOf(c)
    BY <1>1, <1>2, <1>4 DEF Last, Of, Chained
  <1> DEFINE table == Without({i})
  <1>6. /\ table \in [Id -> Handler \cup {Nobody}] /\ table[i] = Nobody
        /\ \A j \in Id \ {i} : table[j] = handlers[j]
    BY <1>1, TakenLemma
  <1> HIDE DEF table
  <1>7. /\ Unanswered(c)' <=> Unanswered(c)
        /\ \A j \in Id : proxies'[j] \in {proxies[j], "none", "empty"}
        /\ Kind[c] \in {"message", "tx", "ota"}
    BY <1>2, <1>5 DEF Unanswered, WithoutProxies, LinksOf
  <1>8. \A m : device' \subseteq device \cup {m} /\ m # x => x \notin UnderWay'
    BY ReadOnce DEF Orderly, CallsInv, i, c, x
  <1>9. CASE /\ h.left = 0 /\ handlers' = table /\ UNCHANGED timeouts
             /\ Send([id |-> h.to, call |-> c], inflight)
    <2>1. h.to \in Id /\ h.to # NoId
      BY <1>1, <1>2, <1>9, JadeAssumption DEF GoesOn, HandlersLead, Id, NoId
    <2>2. h.to \in Of(c) /\ h.to # i
      BY <1>2, <1>4, <1>5, <2>1 DEF LinksOf, Last
    <2>3. Of(c)' = Of(c) \ {i} /\ \A j \in Of(c) \ {i} : handlers'[j] = handlers[j]
      BY <1>6, <1>9 DEF Of
    <2>4. ChainOf(c)' /\ LinksOf(c)' /\ Last(h.to, c)'
      <3> DEFINE t == h.to
      <3>1. handlers[i].to = t /\ t # NoId /\ handlers[i].kind = "step"
        BY <1>2, <1>9, <2>1
      <3> HIDE DEF t
      <3>2. ChainOf(c)' /\ LinksOf(c)' /\ Last(t, c)'
        BY <1>1, <1>4, <1>5, <1>7, <2>3, <3>1, ShorterChain
      <3>3. QED
        BY <3>2 DEF t
    <2>5. \A d \in Call \ {c} : Same(d)
      BY <1>5, <1>6, <1>9 DEF Same, Of
    <2>6. x \notin UnderWay'
      BY <1>3, <1>8, <1>9, <2>2 DEF Send
    <2>7. Undisturbed /\ TimedStay /\ Kind[c] # "unlock"
      BY <1>6, <1>7, <1>9 DEF Undisturbed, TimedStay
    <2>8. /\ wire' \subseteq wire /\ frame'.id \in {i, NoId}
          /\ timeouts' = timeouts /\ http' \subseteq http
      BY <1>9 DEF i
    <2>9. x = [id |-> i, call |-> c]
      BY DEF x
    <2> DEFINE t == h.to
    <2>10. /\ t \in Id /\ t # i /\ Last(t, c)' /\ ChainOf(c)' /\ LinksOf(c)'
           /\ Send([id |-> t, call |-> c], inflight)
      BY <1>9, <2>1, <2>2, <2>4, <2>8
    <2> HIDE DEF t
    <2>11. QED
      BY <1>1, <1>4, <2>5, <2>6, <2>7, <2>8, <2>9, <2>10, SentOnExchange
  <1>10. CASE \E n \in Drawable(Remembered) :
                 /\ handlers' = Registered(table, n, Step(c, h.to, h.left - 1))
                 /\ h.left > 0 /\ Draw({n}, FALSE, c) /\ UNCHANGED timeouts
                 /\ Send([id |-> n, call |-> c], inflight)
    <2>1. PICK n \in Id :
                 /\ handlers' = Registered(table, n, Step(c, h.to, h.left - 1))
                 /\ h.left > 0 /\ Draw({n}, FALSE, c) /\ UNCHANGED timeouts
                 /\ Send([id |-> n, call |-> c], inflight)
      BY <1>10, DrawnIds
    <2>2. /\ ~InUse(n) /\ n \notin timeouts
          /\ handlers[n] = Nobody /\ (\A d : n \notin Of(d)) /\ \A k : InUse(k) => k # n
      BY <1>7, <2>1, DrawFacts, DrawnFacts DEF Timed
    <2>3. n # i /\ table[n] = Nobody
      BY <1>4, <1>6, <2>2
    <2> DEFINE s == Step(c, h.to, h.left - 1)
    <2>4. s \in Handler /\ s.call = c
      BY <1>1, <1>2, <2>1, JadeAssumption DEF Step, Handler
    <2> HIDE DEF s
    <2>5. handlers' = Registered(table, n, s)
      BY <2>1 DEF s
    <2>6. /\ handlers'[n] = s /\ \A j \in Id \ {n} : handlers'[j] = table[j]
          /\ Of(c)' = {j \in Id : table[j] # Nobody /\ table[j].call = c} \cup {n}
          /\ \A d \in Call \ {c} : \A j \in Id :
                handlers'[j] # Nobody /\ handlers'[j].call = d
                    <=> j # n /\ table[j] # Nobody /\ table[j].call = d
      BY <1>6, <2>2, <2>3, <2>4, <2>5, RegisteredFacts
    <2>7. {j \in Id : table[j] # Nobody /\ table[j].call = c} = Of(c) \ {i}
      BY <1>6 DEF Of
    <2>8. Of(c)' = (Of(c) \ {i}) \cup {n} /\ \A j \in Of(c) \ {i} : handlers'[j] = handlers[j]
      BY <1>6, <2>2, <2>6, <2>7 DEF Of
    <2>9. ChainOf(c)' /\ LinksOf(c)' /\ Last(n, c)'
      <3> DEFINE l == h.left - 1
      <3>1. handlers'[n] = Step(c, handlers[i].to, l) /\ handlers[i].kind = "step"
        BY <1>2, <2>6 DEF s
      <3> HIDE DEF l
      <3>2. QED
        BY <1>1, <1>4, <1>5, <1>7, <2>2, <2>8, <3>1, NextInChain
    <2>10. \A d \in Call \ {c} : Same(d)
      BY <1>5, <1>6, <2>2, <2>6 DEF Same, Of
    <2>11. x \notin UnderWay'
      <3> DEFINE m == [id |-> n, call |-> c]
      <3>1. m.id = n
        OBVIOUS
      <3>2. device' \subseteq device \cup {m}
        BY <2>1 DEF Send
      <3> HIDE DEF m
      <3>3. m # x
        BY <1>3, <2>3, <3>1
      <3>4. QED
        BY <1>8, <3>2, <3>3
    <2>12. Undisturbed /\ TimedStay /\ Kind[c] # "unlock"
      BY <1>6, <1>7, <2>2, <2>6 DEF Undisturbed, TimedStay
    <2>13. /\ wire' \subseteq wire /\ frame'.id \in {i, NoId}
           /\ timeouts' = timeouts /\ http' \subseteq http
      BY <2>1 DEF i
    <2>14. x = [id |-> i, call |-> c]
      BY DEF x
    <2>15. QED
      BY <1>1, <1>4, <2>1, <2>2, <2>3, <2>9, <2>10, <2>11, <2>12, <2>13, <2>14, SentOnExchange
  <1>11. QED
    BY <1>2, <1>5, <1>9, <1>10 DEF SendNext, table, i

\* The end of a call: all its handlers are taken and nothing of it is under way, unless
\* it is one that timed out.
LEMMA ConcludeExchange ==
    ASSUME Orderly, CallsInv', NEW i \in Id, NEW r \in Results, NEW by, Conclude(i, r, by),
           \A h \in Finally(i, r) : ~GoesOn(h, r), posted' = posted,
           \A j \in Id : proxies'[j] \in {proxies[j], "none"},
           NEW c, handlers[i] # Nobody, handlers[i].call = c, Last(i, c),
           Kind[c] \in Timed \/ [id |-> i, call |-> c] \notin UnderWay',
           UNCHANGED <<queue, inflight, device, http>>, wire' \subseteq wire,
           timers' \in [Id -> Nat] /\ \A j \in Id : timers'[j] > 0 => j \in timeouts'
    PROVE  Orderly'
  <1>1. c \in Call /\ HandlersLead /\ LinksOf(c) /\ ChainOf(c) /\ Chained
    BY HandlerFields DEF Orderly, CallsInv, Chained
  <1>2. Passes(i, r) = Of(c)
    BY <1>1, PassesAll
  <1>3. /\ handlers' = Without(Of(c)) /\ frame'.id = i
        /\ timeouts' = timeouts
    BY <1>2 DEF Conclude
  <1>4. /\ \A j \in Id : j \in Of(c) => handlers'[j] = Nobody
        /\ \A j \in Id : j \notin Of(c) => handlers'[j] = handlers[j]
    BY <1>1, <1>3, TakenLemma
  <1>5. PICK k \in Id : Answers(k, c)
    BY <1>1 DEF ChainOf, Last
  <1>6. Finally(i, r) = {handlers[k]}
    <2>1. k \in Of(c) /\ ~HandsOver(k, r)
      BY <1>1, <1>5, OfFacts DEF Answers, HandsOver
    <2>2. handlers[k] \in Finally(i, r)
      BY <1>2, <1>5, <2>1 DEF Finally, Answers
    <2>3. QED
      BY <1>1, <2>2, FinallyFacts
  <1>7. \A d \in Call : outcome'[d] = IF d = c THEN r ELSE outcome[d]
    <2>1. {h.call : h \in Finally(i, r)} = {c}
      BY <1>5, <1>6 DEF Answers
    <2>2. QED
      BY <2>1 DEF Conclude
  <1>8. outcome[c] # "idle"
    BY <1>1 DEF ChainOf, Unanswered, Last
  <1>9. ~Unanswered(c)' /\ outcome'[c] # "idle"
    BY <1>1, <1>7 DEF Unanswered, Results
  <1>10. Of(c)' = {}
    BY <1>4 DEF Of, Nobody
  <1>11. \A d \in Call \ {c} : Stays(d)
    BY <1>4, <1>7 DEF Stays, Same, Unanswered, Of
  <1>12. Chained'
    <2>1. ChainOf(c)' /\ LinksOf(c)'
      BY <1>9, <1>10 DEF ChainOf, LinksOf
    <2>2. QED
      BY <1>3, <1>11, <2>1, ChainedNext DEF Orderly
  <1>13. Queued' = Queued /\ OnWire' \subseteq OnWire
    BY DEF Queued, OnWire
  <1>14. SentOnce' /\ UnderWay' \subseteq UnderWay
    BY <1>13 DEF Orderly, SentOnce, UnderWay
  <1>15. Undisturbed /\ TimedStay
    BY <1>4 DEF Undisturbed, TimedStay
  <1>16. MessagesHaveHandlers'
    <2>1. ASSUME NEW m \in UnderWay', m.call = c
          PROVE  handlers'[m.id] = Nobody /\ Kind[c] \in Timed
      <3>1. m \in UnderWay /\ m.id \in Id
        BY <1>14, MessageFacts DEF Orderly, CallsInv
      <3>2. handlers[m.id] # Nobody => m.id \in Of(c)
        BY <2>1, <3>1 DEF Orderly, MessagesHaveHandlers, Last
      <3>3. Kind[c] \in Timed
        <4>1. SUFFICES ASSUME Kind[c] \notin Timed PROVE FALSE
          OBVIOUS
        <4>2. m = [id |-> i, call |-> c]
          BY <2>1, <3>1, <4>1, OneMessage
        <4>3. QED
          BY <2>1, <4>1, <4>2
      <3>4. QED
        BY <1>3, <1>4, <3>1, <3>2, <3>3
    <2>2. ASSUME NEW m \in UnderWay' PROVE (m \in UnderWay /\ m.call # c) \/ HasHandler(m)'
      BY <1>9, <1>14, <2>1 DEF HasHandler, Timed
    <2>3. /\ \A m \in http' : Kind[m.call] \in Auth
          /\ \A w \in wire' : w.result = "http" => Kind[w.call] \in Auth
      BY DEF Orderly, MessagesHaveHandlers
    <2>4. QED
      BY <1>3, <1>11, <1>15, <2>2, <2>3, MessagesNext
  <1>17. TimersInOrder'
    BY <1>3, <1>15, TimersNext DEF Orderly, TimersInOrder
  <1>18. LastInFlight'
    <2>1. ASSUME NEW d \in Call, NEW j \in Id, Last(j, d)', Kind[d] # "auth"
          PROVE  /\ Waiting(d)' \/ j \in inflight'
                 /\ frame'.by \in {"message", "timer"} => frame'.id # j
      <3>1. d # c
        BY <1>10, <2>1 DEF Last
      <3>2. Last(j, d) /\ (Waiting(d) \/ j \in inflight)
        BY <1>11, <2>1, <3>1, FlightStays
      <3>3. j # i
        BY <3>1, <3>2 DEF Last, Of
      <3>4. QED
        BY <1>3, <3>2, <3>3 DEF Waiting
    <2>2. QED
      BY <1>3, <2>1 DEF LastInFlight
  <1>19. QED
    BY <1>12, <1>14, <1>16, <1>17, <1>18 DEF Orderly

\* A response that nobody waits for any more.
LEMMA LateExchange ==
    ASSUME Orderly, CallsInv', NEW i \in Id, NEW r, NEW by, Conclude(i, r, by),
           handlers[i] = Nobody, posted' = posted,
           \A j \in Id : proxies'[j] \in {proxies[j], "none"},
           UNCHANGED <<queue, inflight, timers, device, http>>, wire' \subseteq wire
    PROVE  Orderly'
  <1>1. Passes(i, r) = {i} /\ Finally(i, r) = {}
    BY PassesNobody DEF Orderly, CallsInv
  <1>2. /\ timeouts' = timeouts /\ frame'.id = i
        /\ handlers' = Without({i}) /\ \A d \in Call : outcome'[d] = outcome[d]
    BY <1>1 DEF Conclude
  <1>3. handlers' = handlers
    <2>1. handlers \in [Id -> Handler \cup {Nobody}]
      BY DEF Orderly, CallsInv, HandlersLead
    <2>2. QED
      BY <1>2, <2>1, TakenLemma DEF Orderly, CallsInv
  <1>4. SentOnce' /\ UnderWay' \subseteq UnderWay
    <2>1. Queued' = Queued /\ OnWire' \subseteq OnWire
      BY DEF Queued, OnWire
    <2>2. QED
      BY <2>1 DEF Orderly, SentOnce, UnderWay
  <1>5. /\ \A m \in http' : Kind[m.call] \in Auth
        /\ \A w \in wire' : w.result = "http" => Kind[w.call] \in Auth
        /\ timers' \in [Id -> Nat] /\ \A j \in Id : timers'[j] > 0 => j \in timeouts
    BY <1>2 DEF Orderly, MessagesHaveHandlers, TimersInOrder
  <1>6. \A d \in Call : /\ Unanswered(d)' <=> Unanswered(d)
                        /\ outcome[d] # "idle" => outcome'[d] # "idle"
    BY <1>2 DEF Unanswered
  <1>7. \A d \in Call, j \in Id : Last(j, d) /\ Kind[d] # "auth" =>
            /\ Waiting(d)' \/ j \in inflight'
            /\ frame'.by \in {"message", "timer"} => frame'.id # j
    BY <1>2 DEF Orderly, LastInFlight, Waiting, Last, Of
  <1>8. QED
    BY <1>2, <1>3, <1>4, <1>5, <1>6, <1>7, QuietExchange

\* A response goes on with its exchange, ends it, or is late.
LEMMA ResponseExchange ==
    ASSUME Orderly, CallsInv', ~clashed', NEW w \in wire, Response(w) PROVE Orderly'
  <1> DEFINE i == w.id
             c == w.call
             x == [id |-> i, call |-> c]
  <1>1. /\ i \in Id /\ c \in Call /\ x \in UnderWay
        /\ wire' = wire \ {w} /\ w.result \in Results
        /\ UNCHANGED <<posted, queue, http>>
        /\ proxies' = WithoutProxies(Passes(i, w.result))
    BY MessageFacts
       DEF Response, Orderly, CallsInv, UnderWay, MessagesAreKnown, Results, lockVars
  <1>2. /\ handlers[i] # Nobody => Last(i, c)
        /\ \A j \in Id : proxies'[j] \in {proxies[j], "none"}
    BY <1>1 DEF Orderly, MessagesHaveHandlers, WithoutProxies
  <1>3. CASE \E h \in Finally(i, w.result) :
                 /\ GoesOn(h, w.result) /\ SendNext(h, Without(Passes(i, w.result)))
                 /\ frame'.id = i /\ outcome' = outcome
    BY <1>1, <1>3, GoesOnExchange
  <1>4. CASE /\ \A h \in Finally(i, w.result) : ~GoesOn(h, w.result)
             /\ Conclude(i, w.result, "message") /\ UNCHANGED sendVars
    <2>1. UNCHANGED <<inflight, device, timers>>
      BY <1>4 DEF sendVars
    <2>2. CASE handlers[i] = Nobody
      BY <1>1, <1>2, <1>4, <2>1, <2>2, LateExchange
    <2>3. CASE handlers[i] # Nobody
      <3>1. Last(i, c) /\ handlers[i].call = c
        BY <1>2, <2>3 DEF Last, Of
      <3>2. x \notin UnderWay'
        <4> DEFINE m == [id |-> NoId, call |-> c]
        <4>1. m # x
          BY <1>1, JadeAssumption DEF Id, NoId
        <4>2. device' \subseteq device \cup {m} /\ queue' = queue /\ http' \subseteq http
          BY <1>1, <2>1
        <4> HIDE DEF m
        <4>3. QED
          BY <1>1, <4>1, <4>2, ReadOnce DEF Orderly, CallsInv
      <3>3. /\ timers' \in [Id -> Nat] /\ \A j \in Id : timers'[j] > 0 => j \in timeouts'
        BY <1>4, <2>1 DEF Orderly, TimersInOrder, Conclude
      <3>4. wire' \subseteq wire /\ posted' = posted /\ UNCHANGED <<queue, inflight, device, http>>
        BY <1>1, <2>1
      <3> HIDE DEF i, c, x
      <3>5. [id |-> i, call |-> c] \notin UnderWay'
        BY <3>2 DEF x
      <3>6. QED
        BY <1>1, <1>2, <1>4, <2>3, <3>1, <3>3, <3>4, <3>5, ConcludeExchange
    <2>4. QED
      BY <2>2, <2>3
  <1>5. QED
    BY <1>3, <1>4 DEF Response, clientVars

\* A timer ends a call of one message, whose handler is alone, or comes late.
LEMMA TimeoutExchange ==
    ASSUME Orderly, CallsInv', NEW i \in Id, Timeout(i) PROVE Orderly'
  <1>1. /\ timers' = [timers EXCEPT ![i] = @ - 1] /\ timers[i] > 0
        /\ UNCHANGED <<posted, queue, inflight, device, wire, http>>
    BY DEF Timeout, lockVars, linkVars
  <1>2. /\ timers' \in [Id -> Nat] /\ i \in timeouts
        /\ \A j \in Id : timers'[j] > 0 => j \in timeouts
    BY <1>1 DEF Orderly, TimersInOrder
  <1>3. CASE handlers[i] = Nobody
    <2>1. UNCHANGED <<outcome, handlers, proxies, timeouts, frame>>
      BY <1>3 DEF Timeout, clientVars, tableVars
    <2>2. SentOnce' /\ UnderWay' = UnderWay
      BY <1>1 DEF Orderly, SentOnce, UnderWay, Queued, OnWire
    <2>3. /\ \A m \in http' : Kind[m.call] \in Auth
          /\ \A w \in wire' : w.result = "http" => Kind[w.call] \in Auth
      BY <1>1, <2>1 DEF Orderly, MessagesHaveHandlers, LastInFlight
    <2>4. \A d \in Call : /\ Unanswered(d)' <=> Unanswered(d)
                          /\ outcome[d] # "idle" => outcome'[d] # "idle"
      BY <1>1, <2>1 DEF Unanswered
    <2>5. \A d \in Call, j \in Id : Last(j, d) /\ Kind[d] # "auth" =>
              /\ Waiting(d)' \/ j \in inflight'
              /\ frame'.by \in {"message", "timer"} => frame'.id # j
      BY <1>1, <2>1 DEF Orderly, LastInFlight, Waiting
    <2>6. QED
      BY <1>1, <1>2, <2>1, <2>2, <2>3, <2>4, <2>5, QuietExchange
  <1>4. CASE handlers[i] # Nobody
    <2>1. Conclude(i, "timeout", "timer")
      BY <1>4 DEF Timeout
    <2>2. \A h : ~GoesOn(h, "timeout")
      BY DEF GoesOn
    <2>3. PICK c \in Call : handlers[i].call = c /\ Kind[c] \in Timed /\ i \in Of(c)
      BY <1>2, <1>4, UsedFacts DEF Orderly, CallsInv, TimersInOrder
    <2>4. Last(i, c)
      <3>1. ChainOf(c) /\ LinksOf(c) /\ HandlersLead
        BY DEF Orderly, CallsInv, Chained
      <3>2. PICK j \in Id : Last(j, c)
        BY <2>3, <3>1 DEF ChainOf
      <3>3. \A k \in Of(c) : handlers[k].to = NoId
        <4>1. SUFFICES ASSUME NEW k \in Of(c) PROVE handlers[k].to = NoId
          OBVIOUS
        <4>2. handlers[k].kind \in {"client", "forward", "step"}
          BY <3>1, OfFacts DEF Handler
        <4>3. handlers[k].kind = "client"
          BY <2>3, <3>1, <4>2 DEF LinksOf, Timed, Auth
        <4>4. QED
          BY <3>1, <4>3 DEF LinksOf
      <3>4. {j} = Of(c)
        BY <3>2, <3>3 DEF Last
      <3>5. QED
        BY <2>3, <3>2, <3>4
    <2>5. /\ timeouts' = timeouts /\ wire' \subseteq wire
          /\ \A j \in Id : proxies'[j] \in {proxies[j], "none"}
      BY <1>1, <1>4, <2>1 DEF Conclude, Timeout, WithoutProxies
    <2>6. QED
      BY <1>1, <1>2, <1>4, <2>1, <2>2, <2>3, <2>4, <2>5, ConcludeExchange DEF Results
  <1>5. QED
    BY <1>3, <1>4

\* Until an id is drawn that is in use, every step keeps it.
LEMMA OrderlyNext ==
    ASSUME Orderly, TableTypes, ~clashed', [Next]_vars PROVE Orderly'
  <1>1. CallsInv'
    BY CallsNext DEF Orderly
  <1>2. CASE \E c \in Call : Ask(c)
    BY <1>1, <1>2, AskAnyExchange
  <1>3. CASE Receive
    BY <1>1, <1>3, ResponseExchange, HttpRequestExchange DEF Receive
  <1>4. CASE \E i \in Id : Timeout(i)
    BY <1>1, <1>4, TimeoutExchange
  <1>5. CASE \E c \in Call : Posted(c)
    BY <1>1, <1>5, PostedExchange
  <1>6. CASE DrainEvent \/ Return
    BY <1>1, <1>6, DrainEventExchange, ReturnExchange
  <1>7. CASE (\E m \in http : HttpDone(m)) \/ (\E m \in device : DeviceAnswer(m))
    BY <1>1, <1>7, HttpDoneExchange, DeviceExchange
  <1>8. CASE Lock \/ Unlock \/ Connect \/ UNCHANGED vars
    BY <1>1, <1>8, LockExchange
  <1>9. CASE Disconnect
    BY <1>1, <1>9, DisconnectExchange
  <1>10. QED
    BY <1>2, <1>3, <1>4, <1>5, <1>6, <1>7, <1>8, <1>9 DEF Next, Loop

-----------------------------------------------------------------------------
(* Ids that are drawn again. *)

\* An id that is remembered is drawn only within the bound.
LEMMA DrawTypes ==
    ASSUME TableTypes, NEW D, NEW twice \in BOOLEAN, NEW c, Draw(D, twice, c),
           twice \/ D \cap Remembered # {} => repeats < MaxRepeats
    PROVE  repeats' \in 0..MaxRepeats /\ clashed' \in BOOLEAN /\ (clashed => clashed')
  <1>1. repeats' \in 0..MaxRepeats
    BY JadeAssumption DEF Draw, TableTypes
  <1>2. clashed' \in BOOLEAN /\ (clashed => clashed')
    BY DEF Draw
  <1>3. QED
    BY <1>1, <1>2

\* One id is drawn.
LEMMA DrawOne ==
    ASSUME TableTypes, NEW n \in Drawable(Remembered), NEW c, Draw({n}, FALSE, c)
    PROVE  repeats' \in 0..MaxRepeats /\ clashed' \in BOOLEAN /\ (clashed => clashed')
  <1>1. {n} \cap Remembered # {} => repeats < MaxRepeats
    BY DEF Drawable
  <1>2. QED
    BY <1>1, DrawTypes

\* The types of the tables at the start.
LEMMA TableTypesStart == Init => TableTypes
  <1> SUFFICES ASSUME Init PROVE TableTypes
    OBVIOUS
  <1>1. proxies \in [Id -> {"none", "empty"} \cup Auth]
    BY DEF Init
  <1>2. repeats \in 0..MaxRepeats /\ clashed \in BOOLEAN
    <2>1. repeats = 0 /\ clashed = FALSE
      BY DEF Init
    <2>2. 0 \in 0..MaxRepeats
      BY JadeAssumption
    <2>3. QED
      BY <2>1, <2>2, Zenon
  <1>3. QED
    BY <1>1, <1>2 DEF TableTypes

\* A call is made.
LEMMA AskTable ==
    ASSUME TableTypes, NEW c \in Call, Ask(c) PROVE TableTypes' /\ (clashed => clashed')
  <1>1. CASE AskLocked(c)
    BY <1>1 DEF AskLocked, tableVars, idVars, TableTypes
  <1>2. CASE AskSimple(c)
    <2>1. PICK n \in Drawable(Remembered) :
              /\ Draw({n}, FALSE, c)
              /\ proxies' = IF Kind[c] \in Auth THEN [proxies EXCEPT ![n] = Kind[c]] ELSE proxies
      BY <1>2 DEF AskSimple
    <2>2. proxies' \in [Id -> {"none", "empty"} \cup Auth]
      BY <2>1 DEF TableTypes
    <2>3. QED
      BY <2>1, <2>2, DrawOne DEF TableTypes
  <1>3. CASE AskMessage(c)
    <2>1. PICK n \in Drawable(Remembered) : Draw({n}, FALSE, c) /\ proxies' = proxies
      BY <1>3 DEF AskMessage
    <2>2. QED
      BY <2>1, DrawOne DEF TableTypes
  <1>4. CASE AskExchange(c)
    <2>0. PICK i \in Drawable(Remembered) : \E j \in Drawable(Remembered \cup {i}) :
              Draw({i, j}, i = j, c) /\ proxies' = proxies
      BY <1>4 DEF AskExchange
    <2>1. PICK j \in Drawable(Remembered \cup {i}) : Draw({i, j}, i = j, c) /\ proxies' = proxies
      BY <2>0
    <2>2. i = j \/ {i, j} \cap Remembered # {} => repeats < MaxRepeats
      BY DEF Drawable
    <2>3. repeats' \in 0..MaxRepeats /\ clashed' \in BOOLEAN /\ (clashed => clashed')
      <3> DEFINE twice == i = j
      <3>1. twice \in BOOLEAN /\ Draw({i, j}, twice, c)
        BY <2>1
      <3>2. twice \/ {i, j} \cap Remembered # {} => repeats < MaxRepeats
        BY <2>2
      <3> HIDE DEF twice
      <3>3. QED
        BY <3>1, <3>2, DrawTypes
    <2>4. QED
      BY <2>1, <2>3 DEF TableTypes
  <1>5. QED
    BY <1>1, <1>2, <1>3, <1>4 DEF Ask

\* A response is processed, or the answer of an HTTP server.
LEMMA AnswerTable ==
    ASSUME TableTypes, CallsInv,
           Receive \/ (\E i \in Id : Timeout(i)) \/ (\E m \in http : HttpDone(m))
    PROVE  TableTypes' /\ (clashed => clashed')
  <1>1. ASSUME NEW P PROVE WithoutProxies(P) \in [Id -> {"none", "empty"} \cup Auth]
    BY DEF WithoutProxies, TableTypes
  <1>2. ASSUME NEW m, m.id \in Id, HandleHttpResponse(m) PROVE TableTypes' /\ (clashed => clashed')
    <2>1. PICK n \in Drawable(Remembered) :
              /\ Draw({n}, FALSE, m.call)
              /\ LET proxy == IF proxies[m.id] = "none" THEN "empty" ELSE proxies[m.id]
                 IN  proxies' = [proxies EXCEPT ![m.id] = proxy, ![n] = proxy]
      BY <1>2 DEF HandleHttpResponse
    <2>2. proxies' \in [Id -> {"none", "empty"} \cup Auth]
      BY <1>2, <2>1 DEF TableTypes
    <2>3. QED
      BY <2>1, <2>2, DrawOne DEF TableTypes
  <1>3. ASSUME NEW w \in wire, HttpRequest(w) PROVE TableTypes' /\ (clashed => clashed')
    <2> DEFINE m == [id |-> w.id, call |-> w.call]
    <2>1. m.id \in Id
      BY MessageFacts DEF CallsInv
    <2>2. HandleHttpResponse(m) \/ UNCHANGED tableVars
      BY <1>3 DEF HttpRequest
    <2> HIDE DEF m
    <2>3. QED
      BY <1>2, <2>1, <2>2 DEF TableTypes, tableVars, idVars
  <1>4. ASSUME NEW w \in wire, Response(w) PROVE TableTypes' /\ (clashed => clashed')
    <2>1. proxies' \in [Id -> {"none", "empty"} \cup Auth]
      BY <1>1, <1>4 DEF Response
    <2>2. UNCHANGED idVars \/ \E n \in Drawable(Remembered) : \E c : Draw({n}, FALSE, c)
      BY <1>4 DEF Response, SendNext, Conclude, idVars
    <2>3. QED
      BY <2>1, <2>2, DrawOne DEF TableTypes, idVars
  <1>5. ASSUME NEW i \in Id, Timeout(i) PROVE TableTypes' /\ (clashed => clashed')
    <2>1. UNCHANGED idVars /\ (proxies' = proxies \/ \E P : proxies' = WithoutProxies(P))
      BY <1>5 DEF Timeout, Conclude, tableVars, idVars
    <2>2. QED
      BY <1>1, <2>1 DEF TableTypes, idVars
  <1>6. ASSUME NEW m \in http, HttpDone(m) PROVE TableTypes' /\ (clashed => clashed')
    BY <1>2, <1>6 DEF HttpDone, CallsInv, MessagesAreKnown, Message
  <1>7. QED
    BY <1>3, <1>4, <1>5, <1>6 DEF Receive

\* Every step keeps these types, and an id that has clashed stays so.
LEMMA TableTypesNext ==
    ASSUME TableTypes, CallsInv, [Next]_vars PROVE TableTypes' /\ (clashed => clashed')
  <1>1. CASE \E c \in Call : Ask(c)
    BY <1>1, AskTable
  <1>2. CASE Receive \/ (\E i \in Id : Timeout(i)) \/ (\E m \in http : HttpDone(m))
    BY <1>2, AnswerTable
  <1>3. CASE \/ Lock \/ Unlock \/ Return \/ DrainEvent \/ Disconnect \/ Connect \/ UNCHANGED vars
             \/ (\E c \in Call : Posted(c)) \/ (\E m \in device : DeviceAnswer(m))
    <2>1. UNCHANGED tableVars
      BY <1>3 DEF Lock, Unlock, Return, DrainEvent, Disconnect, Connect, Posted, DeviceAnswer, vars
    <2>2. QED
      BY <2>1 DEF TableTypes, tableVars, idVars
  <1>4. QED
    BY <1>1, <1>2, <1>3 DEF Next, Loop

\* The strengthening of ExchangeInv is inductive.
LEMMA ExchangeNext ==
    ASSUME ExchangeInv, TableTypes, [Next]_vars PROVE ExchangeInv'
  <1>1. CallsInv'
    BY CallsNext DEF ExchangeInv
  <1>2. ASSUME ~clashed' PROVE Exchanges'
    <2>1. ~clashed
      BY <1>2, TableTypesNext DEF ExchangeInv
    <2>2. Orderly
      BY <2>1 DEF ExchangeInv, Exchanges, Orderly
    <2>3. QED
      BY <1>2, <2>2, OrderlyNext DEF Orderly, Exchanges
  <1>3. QED
    BY <1>1, <1>2 DEF ExchangeInv

\* The tables keep their types, and the steps that draw an id again their bound.
LEMMA TablesInOrder == Spec => []TableTypes
  <1>1. TableTypes /\ CallsInv /\ [Next]_vars => TableTypes'
    BY TableTypesNext
  <1>2. QED
    BY <1>1, TableTypesStart, HandlersInOrder, PTL DEF Spec

\* Until getNewId gives an id that is in use, the handlers of a call that waits are one
\* chain, its message is in one place, and it is in flight.
THEOREM ExchangesInOrder == Spec => []ExchangeInv
  <1>1. Init => ExchangeInv
    BY ExchangeStart DEF ExchangeInv, Exchanges, Orderly
  <1>2. ExchangeInv /\ TableTypes /\ [Next]_vars => ExchangeInv'
    BY ExchangeNext
  <1>3. QED
    BY <1>1, <1>2, TablesInOrder, PTL DEF Spec

\* isBusy is true exactly while a client waits for the device.
THEOREM BusyMeansWaiting == Spec => []BusyTellsTheTruth
  <1>1. ExchangeInv => BusyTellsTheTruth
    <2> SUFFICES ASSUME ExchangeInv, ~clashed
                 PROVE  (\E i \in Id : handlers[i] # Nobody)
                            <=> (\E c \in Call \ posted : outcome[c] = "asked")
      BY DEF BusyTellsTheTruth
    <2> USE DEF Exchanges
    <2>1. ASSUME NEW i \in Id, handlers[i] # Nobody
          PROVE  \E c \in Call \ posted : outcome[c] = "asked"
      BY <2>1, UsedFacts DEF ExchangeInv, CallsInv, Unanswered
    <2>2. ASSUME NEW c \in Call \ posted, outcome[c] = "asked"
          PROVE  \E i \in Id : handlers[i] # Nobody
      BY <2>2 DEF ExchangeInv, Chained, ChainOf, Unanswered, Answers
    <2>3. QED
      BY <2>1, <2>2
  <1>2. QED
    BY <1>1, ExchangesInOrder, PTL

-----------------------------------------------------------------------------
(* Calls start in order, one at a time. *)

\* A call starts when it is made, or when it leaves the queue.
LEMMA NotStarting ==
    ASSUME NEW c \in Call, Waiting(c) => Waiting(c)', outcome'[c] = "asked" => outcome[c] = "asked",
           c \in posted /\ outcome'[c] = "asked" => c \in posted'
    PROVE  ~Starts(c)
  BY DEF Starts, InProgress

\* What enqueue does not send waits.
LEMMA EnqueueStart ==
    ASSUME MessagesAreKnown, NEW m, Enqueue(m)
    PROVE  /\ \A c : Waiting(c) => Waiting(c)'
           /\ (queue = <<>> /\ inflight = {}) \/ Waiting(m.call)'
  <1>1. CASE inflight = {} /\ queue = <<>>
    BY <1>1 DEF Enqueue, Waiting
  <1>2. CASE ~(inflight = {} /\ queue = <<>>)
    <2>1. queue' = Append(queue, m)
      BY <1>2 DEF Enqueue
    <2>2. /\ DOMAIN queue = 1 .. Len(queue) /\ Len(queue) \in Nat
          /\ DOMAIN queue' = 1 .. Len(queue) + 1
          /\ \A k \in 1 .. Len(queue) : queue'[k] = queue[k]
          /\ queue'[Len(queue) + 1] = m
      BY <2>1 DEF MessagesAreKnown
    <2>3. Len(queue) + 1 \in DOMAIN queue' /\ \A k \in DOMAIN queue : k \in DOMAIN queue'
      BY <2>2
    <2>4. QED
      BY <2>2, <2>3 DEF Waiting
  <1>3. QED
    BY <1>1, <1>2

\* drain takes the head of the queue, with nothing in flight.
LEMMA DrainStart ==
    ASSUME MessagesAreKnown, NEW fl, Drain(fl), NEW c \in Call, Waiting(c), ~Waiting(c)'
    PROVE  fl = {} /\ queue # <<>> /\ Head(queue).call = c
  <1>1. fl = {} /\ queue # <<>>
    BY DEF Drain, Waiting
  <1>2. queue' = Tail(queue)
    BY <1>1 DEF Drain
  <1>3. /\ DOMAIN queue = 1 .. Len(queue) /\ Len(queue) \in Nat /\ Head(queue) = queue[1]
        /\ DOMAIN queue' = 1 .. Len(queue) - 1
        /\ \A k \in 1 .. Len(queue) - 1 : queue'[k] = queue[k + 1]
    BY <1>1, <1>2 DEF MessagesAreKnown
  <1>4. PICK k \in DOMAIN queue : queue[k].call = c
    BY DEF Waiting
  <1>5. k = 1
    <2>1. SUFFICES ASSUME k # 1 PROVE FALSE
      OBVIOUS
    <2>2. k - 1 \in DOMAIN queue' /\ queue'[k - 1] = queue[k]
      BY <1>3, <1>4, <2>1
    <2>3. QED
      BY <1>4, <2>2 DEF Waiting
  <1>6. QED
    BY <1>1, <1>3, <1>4, <1>5

\* A response or a timeout makes no call start.
LEMMA ConcludeStart ==
    ASSUME CallsInv, NEW i, NEW r \in Results, NEW by, Conclude(i, r, by), NEW c \in Call,
           UNCHANGED <<posted, queue>>
    PROVE  ~Starts(c)
  <1>1. outcome'[c] = "asked" => outcome[c] = "asked"
    BY DEF Conclude, Results
  <1>2. QED
    BY <1>1, NotStarting DEF Waiting

\* When a call starts that is no ping, nothing is in flight but what the timer on the
\* stack has given up, and it is the head of the queue if there is one.
LEMMA StartStep ==
    ASSUME CallsInv, [Next]_vars, NEW c \in Call, Starts(c), Kind[c] # "ping"
    PROVE  /\ queue = <<>> \/ Head(queue).call = c
           /\ inflight = {} \/ (frame.by = "timer" /\ inflight \subseteq {frame.id})
  <1>1. MessagesAreKnown
    BY DEF CallsInv
  <1>2. CASE \E d \in Call : Ask(d)
    <2>1. PICK d \in Call : Ask(d)
      BY <1>2
    <2>2. /\ \A e \in Call : outcome'[e] = IF e = d THEN "asked" ELSE outcome[e]
          /\ posted \subseteq posted'
      BY <2>1 DEF Ask, AskLocked, AskSimple, AskMessage, AskExchange, Asked, CallsInv, AnsweredOnce
    <2>3. CASE AskLocked(d)
      <3>1. queue' = queue /\ d \in posted'
        BY <2>3 DEF AskLocked
      <3>2. c # d
        BY <3>1 DEF Starts, InProgress
      <3>3. QED
        BY <2>2, <3>1, <3>2, NotStarting DEF Waiting
    <2>4. CASE AskSimple(d) \/ AskMessage(d) \/ AskExchange(d)
      <3>1. PICK m : m.call = d /\ (Enqueue(m) \/ (queue' = queue /\ Kind[d] = "ping"))
        <4>1. CASE AskSimple(d)
          <5>1. PICK i :
                    \/ Enqueue([id |-> i, call |-> d])
                    \/ queue' = queue /\ Kind[d] = "ping"
            BY <4>1 DEF AskSimple
          <5>2. [id |-> i, call |-> d].call = d
            OBVIOUS
          <5>3. QED
            BY <5>1, <5>2
        <4>2. CASE AskMessage(d) \/ AskExchange(d)
          <5>1. PICK i : Enqueue([id |-> i, call |-> d])
            BY <4>2 DEF AskMessage, AskExchange
          <5>2. [id |-> i, call |-> d].call = d
            OBVIOUS
          <5>3. QED
            BY <5>1, <5>2
        <4>3. QED
          BY <2>4, <4>1, <4>2
      <3>2. CASE Enqueue(m)
        <4>1. CASE c = d
          BY <1>1, <3>1, <3>2, <4>1, EnqueueStart DEF Starts, InProgress
        <4>2. CASE c # d
          BY <1>1, <2>2, <3>2, <4>2, EnqueueStart, NotStarting
        <4>3. QED
          BY <4>1, <4>2
      <3>3. CASE queue' = queue /\ Kind[d] = "ping"
        BY <2>2, <3>3, NotStarting DEF Waiting
      <3>4. QED
        BY <3>1, <3>2, <3>3
    <2>5. QED
      BY <2>1, <2>3, <2>4 DEF Ask
  <1>3. CASE Return \/ DrainEvent
    <2>1. UNCHANGED <<outcome, posted>>
      BY <1>3 DEF Return, DrainEvent, clientVars, lockVars
    <2>2. Waiting(c) /\ ~Waiting(c)'
      BY <2>1 DEF Starts, InProgress
    <2>3. CASE DrainEvent
      BY <1>1, <2>2, <2>3, DrainStart DEF DrainEvent
    <2>4. CASE ReturnFromTimer
      <3>1. Drain(inflight \ {frame.id}) /\ frame.by = "timer"
        BY <2>4 DEF ReturnFromTimer
      <3>2. inflight \ {frame.id} = {} /\ queue # <<>> /\ Head(queue).call = c
        BY <1>1, <2>2, <3>1, DrainStart
      <3>3. QED
        BY <3>1, <3>2
    <2>5. CASE ReturnFromMessage \/ ReturnFromPost
      BY <2>2, <2>5 DEF ReturnFromMessage, ReturnFromPost, Waiting
    <2>6. QED
      BY <1>3, <2>3, <2>4, <2>5 DEF Return
  <1>4. CASE Receive
    <2>1. PICK w \in wire : Response(w) \/ HttpRequest(w)
      BY <1>4 DEF Receive
    <2>2. queue' = queue /\ posted' = posted
      BY <2>1 DEF Response, HttpRequest, lockVars
    <2>3. CASE outcome' = outcome
      BY <2>2, <2>3, NotStarting DEF Waiting
    <2>4. CASE Response(w) /\ Conclude(w.id, w.result, "message")
      <3>1. w.result \in Results
        BY <2>4 DEF Response, CallsInv, MessagesAreKnown, Results
      <3>2. QED
        BY <2>2, <2>4, <3>1, ConcludeStart
    <2>5. QED
      BY <2>1, <2>3, <2>4 DEF Response, HttpRequest, clientVars
  <1>5. CASE \E i \in Id : Timeout(i)
    <2>1. PICK i \in Id : Timeout(i)
      BY <1>5
    <2>2. queue' = queue /\ posted' = posted
      BY <2>1 DEF Timeout, lockVars
    <2>3. outcome' = outcome \/ Conclude(i, "timeout", "timer")
      BY <2>1 DEF Timeout, clientVars
    <2>4. QED
      BY <2>2, <2>3, ConcludeStart, NotStarting DEF Waiting, Results
  <1>6. CASE \E d \in Call : Posted(d)
    <2>1. PICK d \in Call : Posted(d)
      BY <1>6
    <2>2. /\ queue' = queue /\ posted' = posted \ {d}
          /\ \A e \in Call : outcome'[e] = IF e = d THEN "ok" ELSE outcome[e]
      BY <2>1 DEF Posted, CallsInv, AnsweredOnce
    <2>3. QED
      BY <2>2, NotStarting DEF Waiting
  <1>7. CASE \/ Lock \/ Unlock \/ Connect \/ Disconnect \/ UNCHANGED vars
             \/ (\E m \in http : HttpDone(m)) \/ (\E m \in device : DeviceAnswer(m))
    <2>1. UNCHANGED <<outcome, posted, queue>>
      BY <1>7 DEF Lock, Unlock, Connect, Disconnect, HttpDone, DeviceAnswer, vars, clientVars,
                  lockVars
    <2>2. QED
      BY <2>1, NotStarting DEF Waiting
  <1>8. QED
    BY <1>2, <1>3, <1>4, <1>5, <1>6, <1>7 DEF Next, Loop

\* Queued calls start in the order they were made, for ids that clash too.
THEOREM CallsStartInOrder == Spec => NoOvertaking
  <1>1. CallsInv /\ [Next]_vars =>
            [\A c \in Call : Starts(c) /\ Kind[c] # "ping" => queue = <<>> \/ Head(queue).call = c]_vars
    BY StartStep
  <1>2. QED
    BY <1>1, HandlersInOrder, PTL DEF Spec, NoOvertaking

\* While a call is in progress none but ping starts, except between the messages of
\* auth_user: the last message of a call is in flight until the call is answered.
THEOREM ExchangesAreNotMixed == Spec => OneExchangeAtATime
  <1>1. ExchangeInv /\ TableTypes /\ [Next]_vars =>
            [~clashed' => \A c \in Call : Starts(c) /\ Kind[c] # "ping" =>
                \A d \in Call \ {c} : InProgress(d) /\ InProgress(d)' => Kind[d] = "auth"]_vars
    <2> SUFFICES ASSUME ExchangeInv, TableTypes, [Next]_vars, ~clashed',
                        NEW c \in Call, Starts(c), Kind[c] # "ping",
                        NEW d \in Call \ {c}, InProgress(d), Kind[d] # "auth"
                 PROVE  FALSE
      OBVIOUS
    <2>0. CallsInv /\ Exchanges
      BY TableTypesNext DEF ExchangeInv
    <2>1. inflight = {} \/ (frame.by = "timer" /\ inflight \subseteq {frame.id})
      BY <2>0, StartStep
    <2>2. PICK i \in Id : Last(i, d)
      BY <2>0 DEF InProgress, Exchanges, Chained, ChainOf, Unanswered
    <2>3. i \in inflight /\ (frame.by = "timer" => frame.id # i)
      BY <2>0, <2>2 DEF InProgress, Exchanges, LastInFlight
    <2>4. QED
      BY <2>1, <2>3
  <1>2. QED
    BY <1>1, ExchangesInOrder, TablesInOrder, PTL DEF Spec, OneExchangeAtATime

-----------------------------------------------------------------------------
(* Types. *)

Frames == [by : {"loop", "message", "timer", "post", "end"}, id : Id \cup {NoId}, client : BOOLEAN]

\* What CallsInv and TableTypes do not say of the types.
StateTypes ==
    /\ locked \in BOOLEAN /\ drainDue \in BOOLEAN /\ connected \in BOOLEAN
    /\ timeouts \subseteq Id /\ inflight \subseteq Id
    /\ timers \in [Id -> Nat] /\ frame \in Frames
    /\ rounds \in [Call -> 0..MaxHttp] /\ drops \in 0..MaxDrops

\* Unless ids clash a message is sent, and its timer armed, once.
ArmedOnce ==
    /\ \A k, l \in DOMAIN queue : queue[k].id = queue[l].id => k = l
    /\ \A i \in Id : /\ timers[i] <= 1
                     /\ timers[i] > 0 => \A k \in DOMAIN queue : queue[k].id # i

\* A message is sent, queued, or taken from the queue.
LEMMA SendTypes ==
    ASSUME StateTypes, MessagesAreKnown, NEW m, m.id \in Id, NEW fl, fl \subseteq Id,
           \/ Send(m, fl)
           \/ fl = inflight /\ Enqueue(m)
           \/ Drain(fl)
    PROVE  inflight' \subseteq Id /\ timers' \in [Id -> Nat]
  <1>1. ASSUME NEW x, x.id \in Id, Send(x, fl)
        PROVE  inflight' \subseteq Id /\ timers' \in [Id -> Nat]
    BY <1>1 DEF StateTypes, Send, Armed
  <1>2. queue # <<>> => Head(queue).id \in Id
    <2>1. queue # <<>> => Head(queue) \in Message
      BY DEF MessagesAreKnown
    <2>2. QED
      BY <2>1 DEF Message
  <1>3. QED
    BY <1>1, <1>2 DEF Enqueue, Drain, sendVars, StateTypes

\* The types at the start.
LEMMA StateTypesStart == Init => StateTypes
  <1>1. 0 \in 0..MaxHttp /\ 0 \in 0..MaxDrops /\ Idle \in Frames
    BY JadeAssumption DEF Frames, Idle
  <1>2. Init => rounds \in [Call -> 0..MaxHttp] /\ drops \in 0..MaxDrops
    BY <1>1 DEF Init
  <1>3. Init => timers \in [Id -> Nat] /\ frame \in Frames
    BY <1>1 DEF Init
  <1>4. QED
    BY <1>2, <1>3 DEF Init, StateTypes

\* A call is made.
LEMMA AskTypes ==
    ASSUME StateTypes, MessagesAreKnown, NEW c \in Call, Ask(c) PROVE StateTypes'
  <1>1. Asked(c)
    BY DEF Ask, AskLocked, AskSimple, AskMessage, AskExchange
  <1>2. UNCHANGED <<locked, drainDue, connected, frame, rounds, drops>>
    BY <1>1 DEF Asked, linkVars
  <1>3. timeouts' \subseteq Id /\ inflight' \subseteq Id /\ timers' \in [Id -> Nat]
    <2>1. CASE AskLocked(c)
      BY <2>1 DEF AskLocked, tableVars, sendVars, StateTypes
    <2>2. ASSUME NEW n \in Id, timeouts' \subseteq timeouts \cup {n},
                 \/ Enqueue([id |-> n, call |-> c])
                 \/ Send([id |-> n, call |-> c], inflight)
          PROVE  timeouts' \subseteq Id /\ inflight' \subseteq Id /\ timers' \in [Id -> Nat]
      <3> DEFINE m == [id |-> n, call |-> c]
      <3>1. m.id \in Id /\ inflight \subseteq Id
        BY DEF StateTypes
      <3> HIDE DEF m
      <3>2. inflight' \subseteq Id /\ timers' \in [Id -> Nat]
        BY <2>2, <3>1, SendTypes DEF m
      <3>3. QED
        BY <2>2, <3>2 DEF StateTypes
    <2>3. CASE AskSimple(c)
      <3>1. PICK n \in Id : /\ timeouts' \in {timeouts, timeouts \cup {n}}
                            /\ \/ Enqueue([id |-> n, call |-> c])
                               \/ Send([id |-> n, call |-> c], inflight)
        BY <2>3, DrawnIds DEF AskSimple, Remember
      <3>2. QED
        BY <2>2, <3>1
    <2>4. CASE AskMessage(c) \/ AskExchange(c)
      <3>1. PICK n \in Id : timeouts' = timeouts /\ Enqueue([id |-> n, call |-> c])
        BY <2>4, DrawnIds DEF AskMessage, AskExchange
      <3>2. QED
        BY <2>2, <3>1
    <2>5. QED
      BY <2>1, <2>3, <2>4 DEF Ask
  <1>4. QED
    BY <1>2, <1>3 DEF StateTypes

\* A response is processed, or the answer of an HTTP server.
LEMMA AnswerTypes ==
    ASSUME StateTypes, CallsInv,
           Receive \/ (\E i \in Id : Timeout(i)) \/ (\E m \in http : HttpDone(m))
    PROVE  StateTypes'
  <1> USE DEF CallsInv
  <1>1. \A w \in wire : w.id \in Id /\ w.call \in Call
    BY MessageFacts
  <1>2. ASSUME NEW n \in Id, NEW c, Send([id |-> n, call |-> c], inflight)
        PROVE  inflight' \subseteq Id /\ timers' \in [Id -> Nat]
    <2> DEFINE m == [id |-> n, call |-> c]
    <2>1. m.id \in Id /\ inflight \subseteq Id
      BY DEF StateTypes
    <2> HIDE DEF m
    <2>2. QED
      BY <1>2, <2>1, SendTypes DEF m
  <1>3. ASSUME NEW m, HandleHttpResponse(m)
        PROVE  timeouts' \subseteq Id /\ inflight' \subseteq Id /\ timers' \in [Id -> Nat]
    <2>1. PICK n \in Id : timeouts' = timeouts /\ Send([id |-> n, call |-> m.call], inflight)
      BY <1>3, DrawnIds DEF HandleHttpResponse
    <2>2. QED
      BY <1>2, <2>1 DEF StateTypes
  <1>4. ASSUME NEW i \in Id, NEW r, NEW by \in {"message", "timer"}, Conclude(i, r, by)
        PROVE  timeouts' \subseteq Id /\ frame' \in Frames
    BY <1>4 DEF Conclude, Frames, StateTypes
  <1>5. CASE \E w \in wire : HttpRequest(w)
    <2>1. PICK w \in wire : HttpRequest(w)
      BY <1>5
    <2>2. /\ UNCHANGED <<locked, drainDue, connected, rounds, drops>>
          /\ frame' \in {[by |-> b, id |-> w.id, client |-> FALSE] : b \in {"message", "end"}}
      BY <2>1 DEF HttpRequest, lockVars
    <2>3. frame' \in Frames
      <3>1. PICK b \in {"message", "end"} : frame' = [by |-> b, id |-> w.id, client |-> FALSE]
        BY <2>2
      <3>2. w.id \in Id
        BY <1>1
      <3>3. QED
        BY <3>1, <3>2 DEF Frames
    <2>4. CASE UNCHANGED <<tableVars, sendVars>>
      BY <2>2, <2>3, <2>4 DEF tableVars, sendVars, StateTypes
    <2>5. CASE \E m : HandleHttpResponse(m)
      BY <1>3, <2>2, <2>3, <2>5 DEF StateTypes
    <2>6. QED
      BY <2>1, <2>4, <2>5 DEF HttpRequest
  <1>6. CASE \E w \in wire : Response(w)
    <2>1. PICK w \in wire : Response(w)
      BY <1>6
    <2>2. UNCHANGED <<locked, drainDue, connected, rounds, drops>>
      BY <2>1 DEF Response, lockVars
    <2>3. CASE Conclude(w.id, w.result, "message") /\ UNCHANGED sendVars
      <3>1. timeouts' \subseteq Id /\ frame' \in Frames
        BY <1>1, <1>4, <2>3
      <3>2. QED
        BY <2>2, <2>3, <3>1 DEF StateTypes, sendVars
    <2>4. CASE \E h \in Finally(w.id, w.result) :
                   /\ GoesOn(h, w.result) /\ SendNext(h, Without(Passes(w.id, w.result)))
                   /\ frame' = [by |-> "message", id |-> w.id, client |-> FALSE]
      <3>1. PICK h \in Finally(w.id, w.result) :
                   /\ GoesOn(h, w.result) /\ SendNext(h, Without(Passes(w.id, w.result)))
                   /\ frame' = [by |-> "message", id |-> w.id, client |-> FALSE]
        BY <2>4
      <3>2. frame' \in Frames
        BY <1>1, <3>1 DEF Frames
      <3>3. PICK k \in Id : h = handlers[k] /\ h # Nobody
        BY <1>1, FinallyFacts
      <3>4. PICK n \in Id : timeouts' = timeouts /\ Send([id |-> n, call |-> h.call], inflight)
        <4>1. CASE h.left = 0 /\ timeouts' = timeouts
                      /\ Send([id |-> h.to, call |-> h.call], inflight)
          <5>1. h.to \in Id
            BY <3>1, <3>3, <4>1 DEF GoesOn, HandlersLead
          <5>2. QED
            BY <4>1, <5>1
        <4>2. CASE \E n \in Drawable(Remembered) :
                      timeouts' = timeouts /\ Send([id |-> n, call |-> h.call], inflight)
          BY <4>2, DrawnIds
        <4>3. QED
          BY <3>1, <4>1, <4>2 DEF SendNext
      <3>5. inflight' \subseteq Id /\ timers' \in [Id -> Nat]
        BY <1>2, <3>4
      <3>6. QED
        BY <2>2, <3>2, <3>4, <3>5 DEF StateTypes
    <2>5. QED
      BY <2>1, <2>3, <2>4 DEF Response
  <1>7. CASE \E i \in Id : Timeout(i)
    <2>1. PICK i \in Id : Timeout(i)
      BY <1>7
    <2>2. /\ UNCHANGED <<locked, drainDue, connected, rounds, drops, inflight>>
          /\ timers' = [timers EXCEPT ![i] = @ - 1] /\ timers[i] > 0
      BY <2>1 DEF Timeout, lockVars, linkVars
    <2>3. timers' \in [Id -> Nat]
      BY <2>2 DEF StateTypes
    <2>4. CASE Conclude(i, "timeout", "timer")
      <3>1. timeouts' \subseteq Id /\ frame' \in Frames
        BY <1>4, <2>4
      <3>2. QED
        BY <2>2, <2>3, <2>4, <3>1 DEF StateTypes
    <2>5. CASE UNCHANGED <<tableVars, frame>>
      BY <2>2, <2>3, <2>5 DEF StateTypes, tableVars
    <2>6. QED
      BY <2>1, <2>4, <2>5 DEF Timeout
  <1>8. CASE \E m \in http : HttpDone(m)
    <2>1. PICK m \in http : HttpDone(m)
      BY <1>8
    <2>2. /\ UNCHANGED <<locked, drainDue, connected, rounds, drops, frame>>
          /\ HandleHttpResponse(m)
      BY <2>1 DEF HttpDone, lockVars, linkVars
    <2>3. QED
      BY <1>3, <2>2 DEF StateTypes
  <1>9. QED
    BY <1>5, <1>6, <1>7, <1>8 DEF Receive

\* A function returns, or the posted drain runs.
LEMMA ReturnTypes ==
    ASSUME StateTypes, MessagesAreKnown, Return \/ DrainEvent PROVE StateTypes'
  <1>1. UNCHANGED <<locked, tableVars, connected, rounds, drops>> /\ frame' = Idle
    BY DEF Return, DrainEvent, lockVars, linkVars
  <1>2. frame' \in Frames
    BY <1>1 DEF Idle, Frames
  <1>3. drainDue' \in BOOLEAN
    BY DEF Return, DrainEvent, ReturnFromMessage, ReturnFromTimer, ReturnFromPost, StateTypes
  <1>4. inflight' \subseteq Id /\ timers' \in [Id -> Nat]
    <2>1. ASSUME NEW fl, fl \subseteq Id, Drain(fl)
          PROVE  inflight' \subseteq Id /\ timers' \in [Id -> Nat]
      <3> DEFINE m == Head(queue)
      <3>1. CASE queue = <<>>
        BY <2>1, <3>1 DEF Drain, StateTypes
      <3>2. CASE queue # <<>>
        <4>1. m \in Message
          BY <3>2 DEF MessagesAreKnown
        <4> HIDE DEF m
        <4>2. m.id \in Id
          BY <4>1 DEF Message
        <4>3. QED
          BY <2>1, <4>2, SendTypes
      <3>3. QED
        BY <3>1, <3>2
    <2>2. inflight \subseteq Id /\ inflight \ {frame.id} \subseteq Id
      BY DEF StateTypes
    <2>3. \/ Drain(inflight) \/ Drain(inflight \ {frame.id})
          \/ inflight' \subseteq inflight /\ timers' = timers
      BY DEF Return, DrainEvent, ReturnFromMessage, ReturnFromTimer, ReturnFromPost, sendVars
    <2>4. QED
      BY <2>1, <2>2, <2>3 DEF StateTypes
  <1>5. QED
    BY <1>1, <1>2, <1>3, <1>4 DEF StateTypes, tableVars

\* Every step keeps the types.
LEMMA StateTypesNext == ASSUME StateTypes, CallsInv, [Next]_vars PROVE StateTypes'
  <1>1. CASE \E c \in Call : Ask(c)
    BY <1>1, AskTypes DEF CallsInv
  <1>2. CASE Receive \/ (\E i \in Id : Timeout(i)) \/ (\E m \in http : HttpDone(m))
    BY <1>2, AnswerTypes
  <1>3. CASE Return \/ DrainEvent
    BY <1>3, ReturnTypes DEF CallsInv
  <1>4. CASE Lock \/ Unlock \/ UNCHANGED vars
    BY <1>4 DEF Lock, Unlock, vars, lockVars, tableVars, sendVars, linkVars, StateTypes
  <1>5. CASE Disconnect \/ Connect
    <2>1. /\ UNCHANGED <<locked, tableVars, inflight, timers, drainDue, frame, rounds>>
          /\ connected' \in BOOLEAN
      BY <1>5 DEF Disconnect, Connect, lockVars, sendVars
    <2>2. drops' = drops \/ (drops < MaxDrops /\ drops' = drops + 1)
      BY <1>5 DEF Disconnect, Connect
    <2>3. drops' \in 0..MaxDrops
      BY <2>2, JadeAssumption DEF StateTypes
    <2>4. QED
      BY <2>1, <2>3 DEF StateTypes, tableVars
  <1>6. CASE \E c \in Call : Posted(c)
    BY <1>6 DEF Posted, tableVars, sendVars, linkVars, StateTypes, Frames
  <1>7. CASE \E m \in device : DeviceAnswer(m)
    <2>1. PICK m \in device : DeviceAnswer(m)
      BY <1>7
    <2>2. /\ UNCHANGED <<locked, tableVars, inflight, timers, drainDue, frame, connected, drops>>
          /\ rounds' = rounds \/ (/\ rounds[m.call] < MaxHttp
                                  /\ rounds' = [rounds EXCEPT ![m.call] = @ + 1])
      BY <2>1 DEF DeviceAnswer, lockVars
    <2>3. m.call \in Call
      BY DEF CallsInv, MessagesAreKnown, Message
    <2>4. rounds' \in [Call -> 0..MaxHttp]
      BY <2>2, <2>3, JadeAssumption DEF StateTypes
    <2>5. QED
      BY <2>2, <2>4 DEF StateTypes, tableVars
  <1>8. QED
    BY <1>1, <1>2, <1>3, <1>4, <1>5, <1>6, <1>7 DEF Next, Loop

\* Timers that are armed or stopped, but not those of queued messages.
LEMMA ArmedQuiet ==
    ASSUME ArmedOnce, StateTypes, StateTypes', queue' = queue,
           \A i \in Id : timers'[i] <= timers[i]
    PROVE  ArmedOnce'
  <1>1. \A i \in Id : timers[i] \in Nat /\ timers'[i] \in Nat
    BY DEF StateTypes
  <1>2. QED
    BY <1>1 DEF ArmedOnce

\* A message that has no timeout.
LEMMA SendUnarmed ==
    ASSUME StateTypes, NEW m, NEW fl, Send(m, fl), m.id \notin timeouts'
    PROVE  \A i \in Id : timers'[i] <= timers[i]
  BY DEF StateTypes, Send, Armed

\* Message m is sent or queued under an id that is new.
LEMMA ArmedNew ==
    ASSUME CallsInv, ArmedOnce, StateTypes, StateTypes', NEW m \in Message, ~InUse(m.id),
           Enqueue(m) \/ (Send(m, inflight) /\ queue' = queue)
    PROVE  ArmedOnce'
  <1>1. m.id \in Id /\ timers[m.id] = 0
    BY DEF Message, StateTypes, InUse
  <1>2. \A k \in DOMAIN queue : queue[k].id # m.id
    BY DEF InUse, UnderWay, Queued
  <1>3. CASE Send(m, inflight) /\ queue' = queue
    <2>1. \A i \in Id : timers'[i] = timers[i] \/ (i = m.id /\ timers'[i] <= 1)
      BY <1>1, <1>3 DEF StateTypes, Send, Armed
    <2>2. QED
      BY <1>2, <1>3, <2>1 DEF ArmedOnce
  <1>4. CASE queue' = Append(queue, m) /\ timers' = timers
    <2>1. /\ DOMAIN queue = 1 .. Len(queue) /\ Len(queue) \in Nat
          /\ DOMAIN queue' = 1 .. Len(queue) + 1
          /\ \A k \in 1 .. Len(queue) : queue'[k] = queue[k]
          /\ queue'[Len(queue) + 1] = m
      BY <1>4 DEF CallsInv, MessagesAreKnown
    <2>2. \A k \in DOMAIN queue' : k \in DOMAIN queue \/ k = Len(queue) + 1
      BY <2>1
    <2>3. \A k, l \in DOMAIN queue' : queue'[k].id = queue'[l].id => k = l
      BY <1>2, <2>1, <2>2 DEF ArmedOnce
    <2>4. ASSUME NEW i \in Id
          PROVE  /\ timers'[i] <= 1
                 /\ timers'[i] > 0 => \A k \in DOMAIN queue' : queue'[k].id # i
      <3>1. timers'[i] = timers[i] /\ timers[i] <= 1
        BY <1>4 DEF ArmedOnce
      <3>2. ASSUME timers[i] > 0, NEW k \in DOMAIN queue' PROVE queue'[k].id # i
        <4>1. i # m.id
          BY <1>1, <3>2
        <4>2. k \in DOMAIN queue => queue[k].id # i
          BY <3>2 DEF ArmedOnce
        <4>3. QED
          BY <2>1, <2>2, <4>1, <4>2
      <3>3. QED
        BY <3>1, <3>2
    <2>5. QED
      BY <2>3, <2>4 DEF ArmedOnce
  <1>5. QED
    BY <1>3, <1>4 DEF Enqueue, sendVars

\* The timer of the head of the queue is armed when it is sent.
LEMMA ArmedDrain ==
    ASSUME ArmedOnce, StateTypes, StateTypes', MessagesAreKnown, NEW fl, Drain(fl)
    PROVE  ArmedOnce'
  <1>1. CASE fl = {} /\ queue # <<>>
    <2> DEFINE m == Head(queue)
    <2>1. Send(m, fl) /\ queue' = Tail(queue)
      BY <1>1 DEF Drain
    <2>2. /\ DOMAIN queue = 1 .. Len(queue) /\ Len(queue) \in Nat /\ m = queue[1]
          /\ 1 \in DOMAIN queue
          /\ DOMAIN queue' = 1 .. Len(queue) - 1
          /\ \A k \in 1 .. Len(queue) - 1 : queue'[k] = queue[k + 1]
      BY <1>1, <2>1 DEF MessagesAreKnown
    <2>3. m \in Message
      BY <1>1 DEF MessagesAreKnown
    <2> HIDE DEF m
    <2>4. m.id \in Id /\ timers[m.id] = 0
      BY <2>2, <2>3 DEF Message, ArmedOnce, StateTypes
    <2>5. \A i \in Id : timers'[i] = timers[i] \/ (i = m.id /\ timers'[i] <= 1)
      BY <2>1, <2>4 DEF StateTypes, Send, Armed
    <2>6. \A k \in DOMAIN queue' : k + 1 \in DOMAIN queue /\ queue'[k] = queue[k + 1] /\ k + 1 # 1
      BY <2>2
    <2>7. \A k \in DOMAIN queue' : queue'[k].id # m.id
      BY <2>2, <2>6 DEF ArmedOnce
    <2>8. \A k, l \in DOMAIN queue' : queue'[k].id = queue'[l].id => k = l
      <3> SUFFICES ASSUME NEW k \in DOMAIN queue', NEW l \in DOMAIN queue',
                          queue'[k].id = queue'[l].id
                   PROVE  k = l
        OBVIOUS
      <3>1. k + 1 = l + 1
        BY <2>6 DEF ArmedOnce
      <3>2. QED
        BY <2>2, <3>1
    <2>9. QED
      BY <2>5, <2>6, <2>7, <2>8 DEF ArmedOnce
  <1>2. CASE ~(fl = {} /\ queue # <<>>)
    <2>1. timers' = timers /\ queue' = queue
      BY <1>2 DEF Drain
    <2>2. QED
      BY <2>1 DEF ArmedOnce
  <1>3. QED
    BY <1>1, <1>2

\* What is sent under an id that has been sent before has no timeout.
LEMMA ArmedOnceNext ==
    ASSUME Orderly, ~clashed', ArmedOnce, StateTypes, StateTypes', [Next]_vars PROVE ArmedOnce'
  <1>1. \A i \in Id : timers[i] \in Nat
    BY DEF StateTypes
  <1>2. ASSUME queue' = queue, timers' = timers PROVE ArmedOnce'
    BY <1>2 DEF ArmedOnce
  <1>3. CASE \E c \in Call : Ask(c)
    <2>1. PICK c \in Call : Ask(c)
      BY <1>3
    <2>2. ASSUME NEW n \in Id, ~InUse(n),
                 \/ Enqueue([id |-> n, call |-> c])
                 \/ Send([id |-> n, call |-> c], inflight) /\ queue' = queue
          PROVE  ArmedOnce'
      <3> DEFINE m == [id |-> n, call |-> c]
      <3>1. m \in Message /\ m.id = n
        BY <2>2 DEF Message
      <3> HIDE DEF m
      <3>2. QED
        BY <2>2, <3>1, ArmedNew DEF m, Orderly
    <2>3. CASE AskLocked(c)
      BY <1>2, <2>3 DEF AskLocked, sendVars
    <2>4. CASE AskSimple(c) \/ AskMessage(c)
      <3>1. PICK n \in Id :
                /\ Draw({n}, FALSE, c)
                /\ \/ Enqueue([id |-> n, call |-> c])
                   \/ Send([id |-> n, call |-> c], inflight) /\ queue' = queue
        BY <2>4, DrawnIds DEF AskSimple, AskMessage
      <3>2. ~InUse(n)
        BY <3>1, DrawFacts
      <3>3. QED
        BY <2>2, <3>1, <3>2
    <2>5. CASE AskExchange(c)
      <3>1. PICK i \in Id, j \in Id : Draw({i, j}, i = j, c) /\ Enqueue([id |-> j, call |-> c])
        BY <2>5, DrawnIds DEF AskExchange
      <3>2. \A k \in {i, j} : ~InUse(k)
        BY <3>1, DrawFacts
      <3>3. QED
        BY <2>2, <3>1, <3>2
    <2>6. QED
      BY <2>1, <2>3, <2>4, <2>5 DEF Ask
  <1>4. CASE Return \/ DrainEvent
    <2>1. \/ Drain(inflight) \/ Drain(inflight \ {frame.id})
          \/ queue' = queue /\ timers' = timers
      BY <1>4 DEF Return, DrainEvent, ReturnFromMessage, ReturnFromTimer, ReturnFromPost, sendVars
    <2>2. QED
      BY <1>2, <2>1, ArmedDrain DEF Orderly, CallsInv
  <1>5. CASE \E i \in Id : Timeout(i)
    <2>1. queue' = queue /\ \A i \in Id : timers'[i] <= timers[i]
      BY <1>1, <1>5 DEF Timeout, StateTypes
    <2>2. QED
      BY <2>1, ArmedQuiet
  <1>6. ASSUME NEW m, Kind[m.call] \in Auth, HandleHttpResponse(m), queue' = queue PROVE ArmedOnce'
    <2>1. PICK n \in Id : /\ Draw({n}, FALSE, m.call)
                          /\ timeouts' = timeouts /\ Send([id |-> n, call |-> m.call], inflight)
      BY <1>6, DrawnIds DEF HandleHttpResponse
    <2>2. n \notin timeouts'
      BY <1>6, <2>1, DrawFacts DEF Auth, Timed
    <2> DEFINE x == [id |-> n, call |-> m.call]
    <2>3. x.id \notin timeouts'
      BY <2>2
    <2> HIDE DEF x
    <2>4. \A i \in Id : timers'[i] <= timers[i]
      BY <2>1, <2>3, SendUnarmed DEF x
    <2>5. QED
      BY <1>6, <2>4, ArmedQuiet
  <1>7. CASE \E m \in http : HttpDone(m)
    BY <1>6, <1>7 DEF HttpDone, Orderly, MessagesHaveHandlers
  <1>8. CASE \E w \in wire : HttpRequest(w)
    <2>1. PICK w \in wire : HttpRequest(w)
      BY <1>8
    <2> DEFINE m == [id |-> w.id, call |-> w.call]
    <2>2. Kind[m.call] \in Auth
      BY <2>1 DEF HttpRequest, Orderly, MessagesHaveHandlers
    <2>3. queue' = queue /\ (HandleHttpResponse(m) \/ timers' = timers)
      BY <2>1 DEF HttpRequest, sendVars
    <2> HIDE DEF m
    <2>4. QED
      BY <1>2, <1>6, <2>2, <2>3
  <1>9. CASE \E w \in wire : Response(w)
    <2>1. PICK w \in wire : Response(w)
      BY <1>9
    <2>2. queue' = queue /\ w.id \in Id
      BY <2>1, MessageFacts DEF Response, Orderly, CallsInv
    <2>3. CASE UNCHANGED sendVars
      BY <1>2, <2>2, <2>3 DEF sendVars
    <2>4. CASE \E h \in Finally(w.id, w.result) :
                   GoesOn(h, w.result) /\ SendNext(h, Without(Passes(w.id, w.result)))
      <3>1. PICK h \in Finally(w.id, w.result) :
                   GoesOn(h, w.result) /\ SendNext(h, Without(Passes(w.id, w.result)))
        BY <2>4
      <3>2. h = handlers[w.id] /\ h # Nobody /\ h.kind = "step" /\ h.call \in Call /\ w.id \in Of(h.call)
        BY <2>2, <3>1, PassesStep DEF Orderly, CallsInv
      <3>3. ASSUME NEW n, timeouts' = timeouts, n \notin timeouts,
                   Send([id |-> n, call |-> h.call], inflight)
            PROVE  ArmedOnce'
        <4> DEFINE x == [id |-> n, call |-> h.call]
        <4>1. x.id \notin timeouts'
          BY <3>3
        <4> HIDE DEF x
        <4>2. \A i \in Id : timers'[i] <= timers[i]
          BY <3>3, <4>1, SendUnarmed DEF x
        <4>3. QED
          BY <2>2, <4>2, ArmedQuiet
      <3>4. CASE /\ h.left = 0 /\ timeouts' = timeouts
                 /\ Send([id |-> h.to, call |-> h.call], inflight)
        <4>1. h.to \in Id /\ h.to # NoId
          BY <2>2, <3>1, <3>2, <3>4, JadeAssumption
             DEF GoesOn, Orderly, CallsInv, HandlersLead, Id, NoId
        <4>2. h.to \in Of(h.call) /\ Kind[h.call] \in {"message", "tx", "ota"}
          BY <3>2, <4>1 DEF Orderly, Chained, LinksOf
        <4>3. h.to \notin timeouts
          BY <4>2 DEF Of, Timed, Orderly, TimersInOrder
        <4>4. QED
          BY <3>3, <3>4, <4>3
      <3>5. CASE \E n \in Drawable(Remembered) :
                     /\ Draw({n}, FALSE, h.call) /\ timeouts' = timeouts
                     /\ Send([id |-> n, call |-> h.call], inflight)
        <4>1. PICK n \in Id : /\ Draw({n}, FALSE, h.call) /\ timeouts' = timeouts
                              /\ Send([id |-> n, call |-> h.call], inflight)
          BY <3>5, DrawnIds
        <4>2. Kind[h.call] \in {"message", "tx", "ota"}
          BY <3>2 DEF Orderly, Chained, LinksOf
        <4>3. n \notin timeouts
          BY <4>1, <4>2, DrawFacts DEF Timed
        <4>4. QED
          BY <3>3, <4>1, <4>3
      <3>6. QED
        BY <3>1, <3>4, <3>5 DEF SendNext
    <2>5. QED
      BY <2>1, <2>3, <2>4 DEF Response
  <1>10. CASE \/ Lock \/ Unlock \/ Connect \/ Disconnect \/ UNCHANGED vars
              \/ (\E m \in device : DeviceAnswer(m)) \/ (\E c \in Call : Posted(c))
    <2>1. queue' = queue /\ timers' = timers
      BY <1>10 DEF Lock, Unlock, Connect, Disconnect, DeviceAnswer, Posted, vars, sendVars
    <2>2. QED
      BY <1>2, <2>1
  <1>11. QED
    BY <1>3, <1>4, <1>5, <1>7, <1>8, <1>9, <1>10 DEF Next, Loop, Receive

\* Every variable keeps its type, whatever ids are drawn; until one is drawn that is in
\* use, no message is sent twice, so that none has two timers.
THEOREM JadeTypes == Spec => []TypeOK
  <1> DEFINE Inv == /\ ExchangeInv /\ TableTypes /\ StateTypes
                    /\ ~clashed => ArmedOnce
  <1>1. Init => Inv
    <2> SUFFICES ASSUME Init PROVE Inv
      OBVIOUS
    <2>1. ArmedOnce
      BY DEF Init, ArmedOnce
    <2>2. ExchangeInv
      BY ExchangeStart DEF ExchangeInv, Exchanges, Orderly
    <2>3. QED
      BY <2>1, <2>2, TableTypesStart, StateTypesStart
  <1>2. Inv /\ [Next]_vars => Inv'
    <2> SUFFICES ASSUME Inv, [Next]_vars PROVE Inv'
      OBVIOUS
    <2>1. ExchangeInv' /\ TableTypes' /\ StateTypes'
      BY ExchangeNext, TableTypesNext, StateTypesNext DEF ExchangeInv
    <2>2. ASSUME ~clashed' PROVE ArmedOnce'
      <3>1. ~clashed
        BY <2>2, TableTypesNext DEF ExchangeInv
      <3>2. Orderly /\ ArmedOnce
        BY <3>1 DEF ExchangeInv, Exchanges, Orderly
      <3>3. QED
        BY <2>1, <2>2, <3>2, ArmedOnceNext
    <2>3. QED
      BY <2>1, <2>2
  <1>3. Inv => TypeOK
    <2> SUFFICES ASSUME Inv PROVE TypeOK
      OBVIOUS
    <2>0. CallsInv
      BY DEF ExchangeInv
    <2>1. timers \in [Id -> IF clashed THEN Nat ELSE 0..1]
      <3>1. CASE clashed
        BY <3>1 DEF StateTypes
      <3>2. CASE ~clashed
        BY <3>2 DEF StateTypes, ArmedOnce
      <3>3. QED
        BY <3>1, <3>2
    <2>2. answers \in [Call -> Nat]
      BY <2>0 DEF CallsInv, AnsweredOnce
    <2>3. \A w \in wire : [id |-> w.id, call |-> w.call] \in Message
      BY <2>0, MessageFacts DEF CallsInv
    <2>4. \A i \in Id : handlers[i] = Nobody \/ handlers[i] \in Handler
      BY <2>0 DEF CallsInv, HandlersLead
    <2>5. frame.by \in {"loop", "message", "timer", "post", "end"}
          /\ frame.id \in Id \cup {NoId} /\ frame.client \in BOOLEAN
      BY DEF StateTypes, Frames
    <2>6. QED
      BY <2>0, <2>1, <2>2, <2>3, <2>4, <2>5
         DEF TypeOK, TableTypes, StateTypes, CallsInv, AnsweredOnce, PostedAreAsked, MessagesAreKnown
  <1> HIDE DEF Inv
  <1>4. QED
    BY <1>1, <1>2, <1>3, PTL DEF Spec
==============================================================================
