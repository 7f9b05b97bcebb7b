--------------------------- MODULE NetworkLoginProofs --------------------------
(* The sessions of a network are accounted for, given back as often as the code  *)
(* promises, and never taken away from the wallet that is loaded or from the      *)
(* user, for any number of sessions and of connections lost.  NetworkInv is       *)
(* inductive.  A step changes the registry of sessions in one of four ways, so    *)
(* what the invariant says of sessions is proved by these, and what it says of    *)
(* the login tasks by the actions.                                                *)
EXTENDS NetworkLogin, TLAPS

Statuses == {"none", "Ready", "Active", "Finished", "Failed"}

\* The types, in the parts that the steps change.
RegistryTypes ==
    /\ mapped \in Session \cup {None} /\ listed \subseteq Session /\ managed \subseteq Session
    /\ garbage \in [Session -> Nat] /\ made \in 0 .. MaxSessions

LinkTypes ==
    /\ connected \subseteq Session /\ ready \subseteq Session /\ dialled \subseteq Session
    /\ drops \in 0 .. MaxDrops /\ torReady \in BOOLEAN

GroupTypes ==
    /\ group \in Statuses /\ on \in Session \cup {None}
    /\ (on = None) <=> (group = "none")
    /\ status \in [Kind -> Statuses] /\ asked \subseteq InGroup

RestTypes ==
    /\ timedOut \subseteq Session /\ user \in Session \cup {None}
    /\ alarm \in BOOLEAN /\ outage \in BOOLEAN /\ known \in BOOLEAN
    /\ open \in BOOLEAN /\ unreached \in BOOLEAN

\* The parts make the type invariant.
LEMMA TypeParts == TypeOK <=> RegistryTypes /\ LinkTypes /\ GroupTypes /\ RestTypes
  BY DEF TypeOK, RegistryTypes, LinkTypes, GroupTypes, RestTypes, Statuses

\* The same of the next state.
LEMMA TypePartsNext == TypeOK' <=> RegistryTypes' /\ LinkTypes' /\ GroupTypes' /\ RestTypes'
  BY DEF TypeOK, RegistryTypes, LinkTypes, GroupTypes, RestTypes, Statuses

\* A session is not None, and the next one is a session.
LEMMA SessionFacts ==
    /\ None \notin Session
    /\ \A n \in Nat : n < MaxSessions => n + 1 \in Session
    /\ \A n \in 0 .. MaxSessions : 1 .. n \subseteq Session
    /\ MaxSessions \in Nat
  BY BoundAssumption DEF Session, None

-----------------------------------------------------------------------------
(* Tasks that fail. *)

\* A task that fails had joined the group and not failed before.
LEMMA FailingFacts ==
    ASSUME NEW T \in SUBSET Kind
    PROVE  /\ Failing(T) \subseteq Kind
           /\ \A k \in Failing(T) : status[k] \notin {"none", "Failed"}
           /\ \A k \in T : status[k] \notin {"none", "Failed"} => k \in Failing(T)
  <1> DEFINE Down(k) == CASE k = "connect" /\ "assets" \in InGroup -> LoginTasks
                          [] k = "assets" -> {"login", "settings"}
                          [] k = "login" -> {"settings"}
                          [] OTHER -> {}
             D == UNION {Down(k) : k \in T}
  <1>1. Failing(T) = {k \in T \cup D : status[k] \notin {"none", "Failed"}}
    BY DEF Failing
  <1>2. \A k \in Kind : Down(k) \subseteq Kind
    BY DEF LoginTasks, Kind
  <1>3. D \subseteq Kind
    BY <1>2
  <1> HIDE DEF D
  <1>4. QED
    BY <1>1, <1>3

\* Which of the login tasks fail with one task.
LEMMA FailingOne ==
    ASSUME NEW k \in Kind
    PROVE  /\ "connect" \in Failing({k}) => k = "connect"
           /\ "assets" \in Failing({k}) => k \in {"connect", "assets"}
           /\ "login" \in Failing({k}) => k \in {"connect", "assets", "login"}
           /\ k = "assets" /\ status["login"] \notin {"none", "Failed"} => "login" \in Failing({k})
           /\ k = "connect" /\ status["assets"] \notin {"none", "Failed"} => "assets" \in Failing({k})
  <1> DEFINE Down(j) == CASE j = "connect" /\ "assets" \in InGroup -> LoginTasks
                          [] j = "assets" -> {"login", "settings"}
                          [] j = "login" -> {"settings"}
                          [] OTHER -> {}
  <1>1. UNION {Down(j) : j \in {k}} = Down(k)
    OBVIOUS
  <1>2. Failing({k}) = {j \in {k} \cup Down(k) : status[j] \notin {"none", "Failed"}}
    BY <1>1 DEF Failing
  <1>3. k = "assets" => "login" \in Down(k)
    OBVIOUS
  <1>4. k = "connect" /\ status["assets"] # "none" => "assets" \in Down(k)
    BY DEF InGroup, LoginTasks, Kind
  <1>5. k \notin {"connect"} => "connect" \notin {k} \cup Down(k) /\ ("assets" \in {k} \cup Down(k) => k = "assets")
    OBVIOUS
  <1>6. k \notin {"connect", "assets", "login"} => "login" \notin {k} \cup Down(k)
    OBVIOUS
  <1> HIDE DEF Down
  <1>7. QED
    BY <1>2, <1>3, <1>4, <1>5, <1>6

\* The status of the tasks afterwards, and what becomes of the registry.
LEMMA FailTasksFacts ==
    ASSUME GroupTypes, NEW T \in SUBSET Kind, NEW timeout \in BOOLEAN, FailTasks(T, timeout)
    PROVE  /\ status' \in [Kind -> Statuses]
           /\ \A k \in Kind : status'[k] = IF k \in Failing(T) THEN "Failed" ELSE status[k]
           /\ InGroup' = InGroup
           /\ ~timeout /\ "login" \notin Failing(T) => UNCHANGED registry
           /\ timeout \/ "login" \in Failing(T) =>
                  \E n \in {1, 2} :
                      /\ ReleaseSession(on, n)
                      /\ n = (IF "login" \in Failing(T) THEN 1 ELSE 0) + IF timeout THEN 1 ELSE 0
  <1> DEFINE F == Failing(T)
             n == Releases(F) + IF timeout THEN 1 ELSE 0
  <1>1. /\ status' = [k \in Kind |-> IF k \in F THEN "Failed" ELSE status[k]]
        /\ ReleaseSession(on, n)
    BY DEF FailTasks
  <1>2. \A k \in F : status[k] # "none"
    BY FailingFacts
  <1>3. n = (IF "login" \in F THEN 1 ELSE 0) + IF timeout THEN 1 ELSE 0
    BY DEF Releases
  <1> HIDE DEF F, n
  <1>4. status' \in [Kind -> Statuses]
    BY <1>1 DEF GroupTypes, Statuses
  <1>5. \A k \in Kind : status'[k] = IF k \in F THEN "Failed" ELSE status[k]
    BY <1>1
  <1>6. InGroup' = InGroup
    BY <1>2, <1>5 DEF InGroup
  <1>7. ~timeout /\ "login" \notin F => n = 0
    BY <1>3
  <1>8. n = 0 => UNCHANGED registry
    BY <1>1 DEF ReleaseSession, registry
  <1>9. timeout \/ "login" \in F => n \in {1, 2}
    BY <1>3
  <1>10. QED
    BY <1>1, <1>3, <1>4, <1>5, <1>6, <1>7, <1>8, <1>9 DEF F

-----------------------------------------------------------------------------
(* The registry of sessions changes in one of four ways. *)

\* A session is made where the network has none.
Making ==
    /\ mapped = None /\ made < MaxSessions
    /\ made' = made + 1 /\ mapped' = made + 1
    /\ listed' = listed \cup {made + 1} /\ managed' = managed \cup {made + 1}
    /\ garbage' = garbage

\* The group gives its session back: once if the login fails, once if the
\* connection times out.
GivingBack ==
    /\ Loading
    /\ \E n \in {1, 2} :
          /\ ReleaseSession(on, n)
          /\ n = (IF status["login"] # "Failed" /\ status'["login"] = "Failed" THEN 1 ELSE 0)
                 + IF on \notin timedOut /\ on \in timedOut' THEN 1 ELSE 0

\* Context::getOrCreateSession makes a session or returns the one there is.
LEMMA GetOrCreateFacts ==
    ASSUME RegistryTypes, GetOrCreateSession
    PROVE  /\ (mapped # None /\ UNCHANGED registry) \/ Making
           /\ mapped' \in Session
  <1>1. (mapped # None /\ UNCHANGED registry) \/ Making
    BY DEF GetOrCreateSession, Making, registry
  <1>2. CASE mapped # None /\ UNCHANGED registry
    BY <1>1, <1>2 DEF RegistryTypes, registry
  <1>3. CASE Making
    BY <1>1, <1>3, SessionFacts DEF RegistryTypes, Making
  <1>4. QED
    BY <1>1, <1>2, <1>3

\* A look at the session, whatever comes of it.
LEMMA EnterFacts ==
    ASSUME RegistryTypes, NEW st \in [Kind -> Statuses], NEW K \in SUBSET Kind, Enter(st, K)
    PROVE  /\ GetOrCreateSession
           /\ status' \in [Kind -> Statuses]
           /\ \A k \in Kind : \/ status'[k] = st[k]
                              \/ k \in K /\ status'[k] = "Ready"
           /\ mapped' \in ready' => status' = Joined(st, K)
  <1>1. Joined(st, K) \in [Kind -> Statuses]
    BY DEF Joined, Statuses
  <1>2. \A k \in Kind : Joined(st, K)[k] = IF k \in K THEN "Ready" ELSE st[k]
    BY DEF Joined
  <1>3. QED
    BY <1>1, <1>2 DEF Enter

\* What is loaded after the login is not part of it.
LEMMA LoadTasksFacts ==
    \A K \in LoadTasks : K \in SUBSET Kind /\ K \cap LoginTasks = {}
  BY DEF LoadTasks, LoginTasks, Kind

\* Tasks that fail while the group loads.
LEMMA FailGivesBack ==
    ASSUME NetworkInv, NEW T \in SUBSET Kind, NEW timeout \in BOOLEAN, FailTasks(T, timeout),
           "login" \in Failing(T) => Loading,
           timeout => Loading /\ status["connect"] = "Active"
    PROVE  UNCHANGED registry \/ GivingBack
  <1>0. RegistryTypes /\ GroupTypes
    BY TypeParts DEF NetworkInv
  <1>1. CASE ~timeout /\ "login" \notin Failing(T)
    BY <1>0, <1>1, FailTasksFacts
  <1>2. CASE timeout \/ "login" \in Failing(T)
    <2>1. PICK n \in {1, 2} :
              /\ ReleaseSession(on, n)
              /\ n = (IF "login" \in Failing(T) THEN 1 ELSE 0) + IF timeout THEN 1 ELSE 0
      BY <1>0, <1>2, FailTasksFacts
    <2>2. "login" \in Failing(T) <=> status["login"] # "Failed" /\ status'["login"] = "Failed"
      <3>1. "login" \in Kind
        BY DEF Kind, LoginTasks
      <3>2. status'["login"] = IF "login" \in Failing(T) THEN "Failed" ELSE status["login"]
        BY <1>0, <3>1, FailTasksFacts
      <3>3. "login" \in Failing(T) => status["login"] # "Failed"
        BY FailingFacts
      <3>4. QED
        BY <3>2, <3>3
    <2>3. timeout <=> on \notin timedOut /\ on \in timedOut'
      <3>1. timedOut' = IF timeout THEN timedOut \cup {on} ELSE timedOut
        BY DEF FailTasks
      <3>2. timeout => on \notin timedOut
        BY DEF NetworkInv, GroupSession
      <3>3. QED
        BY <3>1, <3>2
    <2>4. QED
      BY <1>2, <2>1, <2>2, <2>3 DEF GivingBack
  <1>3. QED
    BY <1>1, <1>2

\* The four ways: a session is given back only while the group loads, since after
\* that no answer to come can make the login fail.
LEMMA RegistryStep ==
    ASSUME NetworkInv, [Next]_vars
    PROVE  UNCHANGED registry \/ Making \/ GivingBack \/ Close
  <1> USE DEF links, tasks, rest
  <1>0. RegistryTypes /\ GroupTypes /\ LoginInOrder
    BY TypeParts DEF NetworkInv
  <1>1. CASE LoadActive \/ LoginNetwork
    BY <1>0, <1>1, GetOrCreateFacts DEF LoadActive, LoginNetwork, Enter
  <1>2. CASE PassFinished
    BY <1>2 DEF PassFinished
  <1>3. CASE PassFailed
    <2>1. FailTasks(InGroup, FALSE) /\ InGroup \in SUBSET Kind /\ Loading
      BY <1>3 DEF PassFailed, InGroup
    <2>2. QED
      BY <2>1, FailGivesBack
  <1>4. CASE PassUpdate
    <2>1. UNCHANGED registry \/ GetOrCreateSession
      BY <1>4 DEF PassUpdate, Enter
    <2>2. QED
      BY <1>0, <2>1, GetOrCreateFacts
  <1>5. ASSUME NEW k \in Kind, FailTasks({k}, FALSE), k \in asked, k # "connect"
        PROVE  UNCHANGED registry \/ GivingBack
    <2>1. {k} \in SUBSET Kind
      OBVIOUS
    <2>2. ASSUME "login" \in Failing({k}) PROVE Loading
      <3>1. k \in {"assets", "login"}
        BY <1>5, <2>2, FailingOne
      <3>2. status["login"] # "Failed"
        BY <2>1, <2>2, FailingFacts
      <3>3. QED
        BY <1>0, <1>5, <3>1, <3>2 DEF LoginInOrder
    <2>3. QED
      BY <1>5, <2>1, <2>2, FailGivesBack
  <1>6. ASSUME NEW timeout \in BOOLEAN, FailTasks({"connect"}, timeout), status["connect"] = "Active"
        PROVE  UNCHANGED registry \/ GivingBack
    <2>1. {"connect"} \in SUBSET Kind
      BY DEF Kind, LoginTasks
    <2>2. Loading
      BY <1>0, <1>6 DEF LoginInOrder
    <2>3. QED
      BY <1>6, <2>1, <2>2, FailGivesBack
  <1>7. CASE ConnectTimeout
    BY <1>6, <1>7 DEF ConnectTimeout
  <1>8. ASSUME NEW k \in Kind, Answer(k) PROVE UNCHANGED registry \/ Making \/ GivingBack
    <2>1. CASE ConnectAnswer
      BY <1>6, <2>1 DEF ConnectAnswer
    <2>2. CASE LoginDone \/ AccountsDone \/ ViewsWanted("list", "views") \/ ViewsWanted("create", "balance")
      BY <1>0, <2>2, GetOrCreateFacts DEF LoginDone, AccountsDone, ViewsWanted, Enter
    <2>3. CASE PlainDone(k) \/ TaskRetry(k)
      BY <2>3 DEF PlainDone, TaskRetry
    <2>4. CASE TaskError(k)
      BY <1>5, <2>4 DEF TaskError, Answered
    <2>5. QED
      BY <1>8, <2>1, <2>2, <2>3, <2>4 DEF Answer
  <1>9. ASSUME NEW s \in Session, NetworkUp(s) \/ NetworkDown(s) PROVE UNCHANGED registry
    BY <1>9 DEF TorDone, NetworkUp, NetworkDown
  <1>10. CASE AccountSession
    BY <1>0, <1>10, GetOrCreateFacts DEF AccountSession
  <1>11. CASE User
    BY <1>0, <1>11, GetOrCreateFacts DEF User, EnsureSession, UserLogsIn, UserFails, EnsureAccount
  <1>12. CASE UNCHANGED vars
    BY <1>12 DEF vars
  <1>13. QED
    BY <1>1, <1>2, <1>3, <1>4, <1>7, <1>8, <1>9, <1>10, <1>11, <1>12
       DEF Next, Pass, TorDone

-----------------------------------------------------------------------------
(* Every session is accounted for. *)

\* One step: what is made is listed, what leaves the list enters the garbage.
LEMMA RegistryNext ==
    ASSUME NetworkInv, [Next]_vars
    PROVE  /\ RegistryTypes' /\ SessionsAccountedFor'
           /\ listed' \subseteq 1 .. made' /\ made <= made'
           /\ \A s \in Session : s > made' => garbage'[s] = 0
  <1>1. /\ RegistryTypes /\ SessionsAccountedFor /\ GroupTypes
        /\ listed \subseteq 1 .. made /\ on <= made
        /\ \A s \in Session : s > made => garbage[s] = 0
    BY TypeParts DEF NetworkInv, NewSessionsAreFresh
  <1>2. made \in Nat
    BY <1>1 DEF RegistryTypes
  <1>3. CASE UNCHANGED registry
    BY <1>1, <1>2, <1>3 DEF registry, RegistryTypes, SessionsAccountedFor
  <1>4. CASE Making
    <2>1. RegistryTypes'
      BY <1>1, <1>4, SessionFacts DEF Making, RegistryTypes
    <2>2. 1 .. made' = (1 .. made) \cup {made + 1} /\ made <= made'
      BY <1>2, <1>4 DEF Making
    <2>3. made + 1 \in Session /\ garbage[made + 1] = 0
      BY <1>1, <1>2, <1>4, SessionFacts DEF Making, RegistryTypes
    <2>4. made + 1 \notin 1 .. made
      BY <1>2
    <2>5. SessionsAccountedFor'
      <3>1. listed' = managed' /\ mapped' \in listed'
        BY <1>1, <1>4 DEF Making, SessionsAccountedFor
      <3>2. ASSUME NEW s \in 1 .. made' PROVE s \in managed' <=> garbage'[s] = 0
        BY <1>1, <1>4, <2>2, <2>3, <2>4 DEF Making, SessionsAccountedFor
      <3>3. QED
        BY <3>1, <3>2 DEF SessionsAccountedFor
    <2>6. listed' \subseteq 1 .. made'
      BY <1>1, <1>4, <2>2 DEF Making
    <2>7. \A s \in Session : s > made' => garbage'[s] = 0
      BY <1>1, <1>2, <1>4 DEF Making, Session
    <2>8. QED
      BY <2>1, <2>2, <2>5, <2>6, <2>7
  <1>5. CASE GivingBack
    <2>1. PICK n \in {1, 2} : ReleaseSession(on, n)
      BY <1>5 DEF GivingBack
    <2>2. on \in Session /\ on \in 1 .. made
      BY <1>1, <1>2, <1>5 DEF GivingBack, Loading, GroupTypes, Session
    <2>3. /\ mapped' = None /\ listed' = listed \ {on} /\ managed' = managed \ {on}
          /\ garbage' = [garbage EXCEPT ![on] = @ + n] /\ made' = made
      BY <2>1 DEF ReleaseSession
    <2>4. garbage[on] \in Nat /\ garbage'[on] = garbage[on] + n
      BY <1>1, <2>2, <2>3 DEF RegistryTypes
    <2>5. garbage'[on] \in Nat /\ garbage'[on] # 0
      BY <2>4
    <2>6. \A s \in Session : s # on => garbage'[s] = garbage[s]
      BY <1>1, <2>3 DEF RegistryTypes
    <2>7. RegistryTypes'
      BY <1>1, <2>3, <2>5, <2>6 DEF RegistryTypes
    <2>8. SessionsAccountedFor'
      <3>1. listed' = managed' /\ mapped' = None
        BY <1>1, <2>3 DEF SessionsAccountedFor
      <3>2. \A s \in 1 .. made' : s \in Session
        BY <1>1, <2>3, SessionFacts DEF RegistryTypes
      <3>3. ASSUME NEW s \in 1 .. made' PROVE s \in managed' <=> garbage'[s] = 0
        BY <1>1, <2>3, <2>5, <2>6, <3>2 DEF SessionsAccountedFor
      <3>4. QED
        BY <3>1, <3>3 DEF SessionsAccountedFor
    <2>9. \A s \in Session : s > made' => garbage'[s] = 0
      BY <1>1, <1>2, <2>2, <2>3, <2>6 DEF Session
    <2>10. listed' \subseteq 1 .. made'
      BY <1>1, <2>3
    <2>11. made <= made'
      BY <1>2, <2>3
    <2>12. QED
      BY <2>7, <2>8, <2>9, <2>10, <2>11
  <1>6. CASE Close
    <2>1. /\ mapped' = None /\ listed' = {} /\ managed' = managed \ listed /\ made' = made
          /\ garbage' = [s \in Session |-> garbage[s] + IF s \in listed THEN 1 ELSE 0]
      BY <1>6 DEF Close
    <2>2. ASSUME NEW s \in Session
          PROVE  /\ garbage'[s] \in Nat
                 /\ s \in listed => garbage'[s] # 0
                 /\ s \notin listed => garbage'[s] = garbage[s]
      BY <1>1, <2>1 DEF RegistryTypes
    <2>3. garbage' \in [Session -> Nat]
      BY <2>1, <2>2
    <2>4. RegistryTypes'
      BY <1>1, <2>1, <2>3 DEF RegistryTypes
    <2>5. SessionsAccountedFor'
      <3>1. managed' = {}
        BY <1>1, <2>1 DEF SessionsAccountedFor
      <3>2. \A s \in 1 .. made' : s \in Session
        BY <1>1, <2>1, SessionFacts DEF RegistryTypes
      <3>3. ASSUME NEW s \in 1 .. made' PROVE garbage'[s] # 0
        BY <1>1, <2>1, <2>2, <3>2 DEF SessionsAccountedFor
      <3>4. QED
        BY <2>1, <3>1, <3>3 DEF SessionsAccountedFor
    <2>6. \A s \in Session : s > made' => garbage'[s] = 0
      BY <1>1, <1>2, <2>1, <2>2 DEF Session
    <2>7. QED
      BY <1>2, <2>1, <2>4, <2>5, <2>6
  <1>7. QED
    BY <1>3, <1>4, <1>5, <1>6, RegistryStep

\* One step: the sessions that are connected, logged in and dialled are sessions.
LEMMA LinkNext ==
    ASSUME NetworkInv, [Next]_vars
    PROVE  LinkTypes' /\ (ready' = ready \/ ready' = ready \cup {on} \/ ready' = ready \cup {user})
  <1> USE DEF links, tasks, rest
  <1>0. RegistryTypes /\ LinkTypes /\ GroupTypes /\ RestTypes
    BY TypeParts DEF NetworkInv
  <1>1. CASE UNCHANGED links
    BY <1>0, <1>1 DEF LinkTypes
  <1>2. CASE PassUpdate
    <2>1. Loading /\ dialled' \in {dialled, dialled \cup {on}} /\ UNCHANGED <<connected, ready, drops, torReady>>
      BY <1>2 DEF PassUpdate
    <2>2. on \in Session
      BY <1>0, <2>1 DEF GroupTypes, Loading
    <2>3. QED
      BY <1>0, <2>1, <2>2 DEF LinkTypes
  <1>3. CASE LoginDone
    <2>1. "login" \in asked /\ ready' = ready \cup {on} /\ UNCHANGED <<connected, dialled, drops, torReady>>
      BY <1>3 DEF LoginDone, Answered
    <2>2. on \in Session
      <3>1. "login" \in InGroup
        BY <1>0, <2>1 DEF GroupTypes
      <3>2. group # "none"
        BY <3>1 DEF NetworkInv, LoginInOrder
      <3>3. QED
        BY <1>0, <3>2 DEF GroupTypes
    <2>3. QED
      BY <1>0, <2>1, <2>2 DEF LinkTypes
  <1>4. ASSUME NEW s, drops < MaxDrops, connected' = connected \ {s}, drops' = drops + 1,
               UNCHANGED <<ready, dialled, torReady>>
        PROVE  LinkTypes' /\ ready' = ready
    BY <1>0, <1>4, BoundAssumption DEF LinkTypes
  <1>5. ASSUME NEW k \in Kind, Answer(k), ~LoginDone
        PROVE  LinkTypes' /\ ready' = ready
    BY <1>0, <1>1, <1>4, <1>5
       DEF Answer, ConnectAnswer, AccountsDone, ViewsWanted, PlainDone, TaskError, TaskRetry
  <1>6. ASSUME NEW s \in Session, NetworkUp(s) \/ NetworkDown(s)
        PROVE  LinkTypes' /\ ready' = ready
    <2>1. CASE NetworkUp(s)
      BY <1>0, <2>1 DEF NetworkUp, LinkTypes
    <2>2. CASE NetworkDown(s)
      BY <1>4, <2>2 DEF NetworkDown
    <2>3. QED
      BY <1>6, <2>1, <2>2
  <1>7. CASE EnsureSession
    <2>1. mapped' \in Session
      BY <1>0, <1>7, GetOrCreateFacts DEF EnsureSession
    <2>2. QED
      BY <1>0, <1>7, <2>1 DEF EnsureSession, LinkTypes
  <1>8. CASE UserLogsIn
    BY <1>0, <1>8 DEF UserLogsIn, LinkTypes
  <1>9. UNCHANGED links => ready' = ready
    OBVIOUS
  <1>10. CASE TorDone
    BY <1>0, <1>10 DEF TorDone, LinkTypes
  <1>11. QED
    BY <1>1, <1>2, <1>3, <1>5, <1>6, <1>7, <1>8, <1>9, <1>10
       DEF Next, LoadActive, LoginNetwork, Pass, PassFinished, PassFailed, ConnectTimeout,
           AccountSession, User, UserFails, EnsureAccount, Close, vars

-----------------------------------------------------------------------------
(* The group. *)

\* A task that joined the group stays in it.
LEMMA AskedInGroup ==
    ASSUME GroupTypes, asked' \subseteq asked,
           \A k \in Kind : status[k] # "none" => status'[k] # "none"
    PROVE  asked' \subseteq InGroup'
  BY DEF GroupTypes, InGroup

\* While a task is asked for, or a group loads or has ended, there is a session for it.
LEMMA GroupHasSession ==
    ASSUME NetworkInv
    PROVE  /\ Loading \/ Ended \/ asked # {} \/ InGroup # {} => on \in Session /\ group # "none"
           /\ \A k \in Kind : status[k] # "none" => on \in Session /\ group # "none"
  <1>1. GroupTypes /\ LoginInOrder
    BY TypeParts DEF NetworkInv
  <1>2. Loading \/ Ended \/ InGroup # {} => group # "none"
    BY <1>1 DEF Loading, Ended, LoginInOrder
  <1>3. asked # {} => InGroup # {}
    BY <1>1 DEF GroupTypes
  <1>4. \A k \in Kind : status[k] # "none" => InGroup # {}
    BY DEF InGroup
  <1>5. QED
    BY <1>1, <1>2, <1>3, <1>4 DEF GroupTypes

\* A pass in which the tasks of done finish at once and those of begun ask GDK.
PassOver(done, begun) ==
    /\ \A k \in done : Runnable(k) /\ FinishesAtOnce(k)
    /\ \A k \in Kind : Runnable(k) /\ FinishesAtOnce(k) => k \in done
    /\ \A k \in begun : Runnable(k) /\ Starts(k)
    /\ asked' = asked \cup begun
    /\ status' \in [Kind -> Statuses]
    /\ \A k \in Kind :
          \/ k \in done /\ status'[k] = "Finished"
          \/ k \in begun /\ status'[k] = "Active"
          \/ k \notin done \cup begun /\ status'[k] = status[k]
          \/ "login" \in done /\ k \notin LoginTasks /\ status'[k] = "Ready"
    /\ open /\ Loading /\ \A k \in InGroup : status[k] # "Failed"
    /\ group' \in {group, "Active"}
    /\ "login" \in done => outage' = FALSE /\ GetOrCreateSession
    /\ "login" \notin done => UNCHANGED <<outage, unreached, registry>>
    /\ dialled' = IF "connect" \in begun THEN dialled \cup {on} ELSE dialled
    /\ UNCHANGED <<connected, ready, drops, on, timedOut, known, user, open>>

\* What a pass does to the status of the tasks.
LEMMA PassUpdateFacts ==
    ASSUME NetworkInv, PassUpdate
    PROVE  \E done, begun \in SUBSET Kind : PassOver(done, begun)
  <1> DEFINE done == {k \in Kind : Runnable(k) /\ FinishesAtOnce(k)}
             begun == {k \in Kind : Runnable(k) /\ Starts(k)}
             st == [k \in Kind |-> IF k \in done THEN "Finished"
                                    ELSE IF k \in begun THEN "Active" ELSE status[k]]
  <1>0. RegistryTypes /\ GroupTypes
    BY TypeParts DEF NetworkInv
  <1>1. /\ open /\ Loading /\ \A k \in InGroup : status[k] # "Failed"
        /\ group' \in {group, "Active"}
        /\ asked' = asked \cup begun
        /\ IF "login" \in done
           THEN outage' = FALSE /\ \E K \in LoadTasks : Enter(st, K)
           ELSE status' = st /\ UNCHANGED <<outage, unreached, registry>>
        /\ dialled' = IF "connect" \in begun THEN dialled \cup {on} ELSE dialled
        /\ UNCHANGED <<connected, ready, drops, on, timedOut, known, user, open>>
    BY DEF PassUpdate
  <1>2. /\ \A k \in Kind : k \in done <=> Runnable(k) /\ FinishesAtOnce(k)
        /\ \A k \in begun : Runnable(k) /\ Starts(k)
        /\ done \in SUBSET Kind /\ begun \in SUBSET Kind
    OBVIOUS
  <1> HIDE DEF done, begun
  <1>3. st \in [Kind -> Statuses]
    BY <1>0 DEF GroupTypes, Statuses
  <1>4. \A k \in Kind : st[k] = IF k \in done THEN "Finished"
                               ELSE IF k \in begun THEN "Active" ELSE status[k]
    OBVIOUS
  <1> HIDE DEF st
  <1>5. ASSUME "login" \notin done PROVE PassOver(done, begun)
    <2>1. status' = st /\ UNCHANGED <<outage, unreached, registry>>
      BY <1>1, <1>5
    <2>2. \A k \in Kind : \/ k \in done /\ status'[k] = "Finished"
                          \/ k \in begun /\ status'[k] = "Active"
                          \/ k \notin done \cup begun /\ status'[k] = status[k]
      BY <1>4, <2>1
    <2>3. /\ open /\ Loading /\ \A k \in InGroup : status[k] # "Failed"
          /\ group' \in {group, "Active"} /\ asked' = asked \cup begun
          /\ dialled' = IF "connect" \in begun THEN dialled \cup {on} ELSE dialled
          /\ UNCHANGED <<connected, ready, drops, on, timedOut, known, user, open>>
      BY <1>1
    <2>4. /\ "login" \in done => outage' = FALSE /\ GetOrCreateSession
          /\ "login" \notin done => UNCHANGED <<outage, unreached, registry>>
      BY <1>1, <1>2, <1>3, <1>5, <2>1, <2>2
    <2>5. status' \in [Kind -> Statuses]
      BY <1>1, <1>2, <1>3, <1>5, <2>1, <2>2
    <2>6. \A k \in Kind : \/ k \in done /\ status'[k] = "Finished"
                          \/ k \in begun /\ status'[k] = "Active"
                          \/ k \notin done \cup begun /\ status'[k] = status[k]
                          \/ "login" \in done /\ k \notin LoginTasks /\ status'[k] = "Ready"
      BY <2>2
    <2>7. QED
      BY <1>2, <2>3, <2>4, <2>5, <2>6 DEF PassOver
  <1>6. ASSUME "login" \in done PROVE PassOver(done, begun)
    <2>1. PICK K \in LoadTasks : Enter(st, K)
      BY <1>1, <1>6
    <2>2. K \in SUBSET Kind /\ K \cap LoginTasks = {}
      BY LoadTasksFacts
    <2>3. /\ GetOrCreateSession /\ status' \in [Kind -> Statuses]
          /\ \A k \in Kind : status'[k] = st[k] \/ (k \in K /\ status'[k] = "Ready")
      BY <1>0, <1>3, <2>1, <2>2, EnterFacts
    <2>4. \A k \in Kind : \/ k \in done /\ status'[k] = "Finished"
                          \/ k \in begun /\ status'[k] = "Active"
                          \/ k \notin done \cup begun /\ status'[k] = status[k]
                          \/ "login" \in done /\ k \notin LoginTasks /\ status'[k] = "Ready"
      BY <1>4, <1>6, <2>2, <2>3
    <2>5. /\ open /\ Loading /\ \A k \in InGroup : status[k] # "Failed"
          /\ group' \in {group, "Active"} /\ asked' = asked \cup begun
          /\ dialled' = IF "connect" \in begun THEN dialled \cup {on} ELSE dialled
          /\ UNCHANGED <<connected, ready, drops, on, timedOut, known, user, open>>
      BY <1>1
    <2>6. /\ "login" \in done => outage' = FALSE /\ GetOrCreateSession
          /\ "login" \notin done => UNCHANGED <<outage, unreached, registry>>
      BY <1>1, <1>2, <1>6, <2>3, <2>4
    <2>7. status' \in [Kind -> Statuses]
      BY <1>1, <1>2, <1>6, <2>3, <2>4
    <2>8. \A k \in Kind : \/ k \in done /\ status'[k] = "Finished"
                          \/ k \in begun /\ status'[k] = "Active"
                          \/ k \notin done \cup begun /\ status'[k] = status[k]
                          \/ "login" \in done /\ k \notin LoginTasks /\ status'[k] = "Ready"
      BY <2>4
    <2>9. QED
      BY <1>2, <2>5, <2>6, <2>7, <2>8 DEF PassOver
  <1>7. QED
    BY <1>2, <1>5, <1>6

\* One step: the group keeps its shape.
LEMMA GroupNext ==
    ASSUME NetworkInv, [Next]_vars
    PROVE  GroupTypes'
  <1> USE DEF links, tasks, rest
  <1>0. /\ RegistryTypes /\ GroupTypes /\ LoginInOrder
        /\ LoggedInSessionsAreMapped
    BY TypeParts DEF NetworkInv
  <1>1. CASE UNCHANGED tasks
    BY <1>0, <1>1 DEF GroupTypes, InGroup
  <1>2. ASSUME NEW st \in [Kind -> Statuses], status' \in [Kind -> Statuses], asked' \subseteq asked,
               \A k \in Kind : st[k] # "none" => status'[k] # "none",
               \A k \in Kind : status[k] # "none" => st[k] # "none",
               on' = on, group' = group \/ (group # "none" /\ group' \in Statuses \ {"none"})
        PROVE  GroupTypes'
    <2>1. asked' \subseteq InGroup'
      BY <1>0, <1>2, AskedInGroup
    <2>2. group' \in Statuses /\ on' \in Session \cup {None}
      BY <1>0, <1>2 DEF GroupTypes
    <2>3. (on' = None) <=> (group' = "none")
      BY <1>0, <1>2 DEF GroupTypes
    <2>4. QED
      BY <1>2, <2>1, <2>2, <2>3 DEF GroupTypes
  <1>3. ASSUME asked = {}, asked' = asked, on' \in Session, group' = "Ready",
               status' \in [Kind -> Statuses]
        PROVE  GroupTypes'
    BY <1>3, SessionFacts DEF GroupTypes, Statuses
  <1>4. ASSUME group = "none" PROVE asked = {}
    BY <1>0, <1>4 DEF LoginInOrder, GroupTypes
  <1>5. ASSUME NEW T \in SUBSET Kind, NEW timeout \in BOOLEAN, FailTasks(T, timeout),
               asked' \subseteq asked, on' = on,
               group' = group \/ (Loading /\ group' = "Failed")
        PROVE  GroupTypes'
    <2>1. /\ status' \in [Kind -> Statuses]
          /\ \A k \in Kind : status'[k] = IF k \in Failing(T) THEN "Failed" ELSE status[k]
      BY <1>0, <1>5, FailTasksFacts
    <2>2. \A k \in Kind : status[k] # "none" => status'[k] # "none"
      BY <2>1
    <2>3. group' = group \/ (group # "none" /\ group' \in Statuses \ {"none"})
      BY <1>5 DEF Loading, Statuses
    <2>4. status \in [Kind -> Statuses]
      BY <1>0 DEF GroupTypes
    <2>5. QED
      BY <1>2, <1>5, <2>1, <2>2, <2>3, <2>4
  <1>6. ASSUME NEW k \in Kind, NEW K \in SUBSET Kind, Enter([status EXCEPT ![k] = "Finished"], K),
               asked' \subseteq asked, on' = on, group' = group
        PROVE  GroupTypes'
    <2> DEFINE st == [status EXCEPT ![k] = "Finished"]
    <2>1. st \in [Kind -> Statuses] /\ \A j \in Kind : status[j] # "none" => st[j] # "none"
      BY <1>0 DEF GroupTypes, Statuses
    <2> HIDE DEF st
    <2>2. Enter(st, K)
      BY <1>6 DEF st
    <2>3. /\ status' \in [Kind -> Statuses]
          /\ \A j \in Kind : st[j] # "none" => status'[j] # "none"
      BY <1>0, <2>1, <2>2, EnterFacts
    <2>4. QED
      BY <1>2, <1>6, <2>1, <2>3
  <1>7. CASE LoadActive
    <2>1. group = "none" /\ on' = mapped /\ group' = "Ready" /\ asked' = asked
      BY <1>7 DEF LoadActive
    <2>2. mapped \in Session
      BY <1>0, <1>7 DEF LoadActive, LoggedInSessionsAreMapped, RegistryTypes
    <2>3. PICK K \in LoadTasks : Enter(status, K)
      BY <1>7 DEF LoadActive
    <2>4. status' \in [Kind -> Statuses]
      BY <1>0, <2>3, LoadTasksFacts, EnterFacts DEF GroupTypes
    <2>5. QED
      BY <1>3, <1>4, <2>1, <2>2, <2>4
  <1>8. CASE LoginNetwork
    <2>1. group = "none" /\ on' = mapped' /\ group' = "Ready" /\ asked' = asked /\ GetOrCreateSession
      BY <1>8 DEF LoginNetwork
    <2>2. PICK K \in SUBSET {"assets", "settings"} : status' = Joined(status, {"connect", "login"} \cup K)
      BY <1>8 DEF LoginNetwork
    <2>3. status' \in [Kind -> Statuses]
      BY <1>0, <2>2 DEF Joined, GroupTypes, Statuses
    <2>4. mapped' \in Session
      BY <1>0, <2>1, GetOrCreateFacts
    <2>5. QED
      BY <1>3, <1>4, <2>1, <2>3, <2>4
  <1>9. CASE PassFinished
    BY <1>0, <1>9 DEF PassFinished, GroupTypes, InGroup, Loading, Statuses
  <1>10. CASE PassFailed
    <2>1. /\ FailTasks(InGroup, FALSE) /\ InGroup \in SUBSET Kind /\ Loading
          /\ group' = "Failed" /\ UNCHANGED <<on, asked>>
      BY <1>10 DEF PassFailed, InGroup
    <2>2. QED
      BY <1>5, <2>1
  <1>11. CASE PassUpdate
    <2>1. PICK done, begun \in SUBSET Kind : PassOver(done, begun)
      BY <1>11, PassUpdateFacts
    <2>2. status' \in [Kind -> Statuses] /\ asked' = asked \cup begun /\ on' = on
          /\ group' \in {group, "Active"} /\ Loading
      BY <2>1 DEF PassOver
    <2>3. \A k \in Kind : status[k] # "none" => status'[k] # "none"
      BY <2>1 DEF PassOver
    <2>4. \A k \in begun : status[k] # "none"
      BY <2>1 DEF PassOver, Runnable
    <2>5. asked' \subseteq InGroup'
      BY <1>0, <2>2, <2>3, <2>4 DEF GroupTypes, InGroup
    <2>6. group' \in Statuses /\ on' \in Session \cup {None}
      BY <1>0, <2>2 DEF GroupTypes, Statuses
    <2>7. (on' = None) <=> (group' = "none")
      BY <1>0, <2>2 DEF GroupTypes, Loading
    <2>8. QED
      BY <2>2, <2>5, <2>6, <2>7 DEF GroupTypes
  <1>12. CASE ConnectTimeout
    <2>1. {"connect"} \in SUBSET Kind
      BY DEF Kind, LoginTasks
    <2>2. CASE FailTasks({"connect"}, TRUE)
      BY <1>5, <1>12, <2>1, <2>2 DEF ConnectTimeout
    <2>3. CASE status' = status
      BY <1>0, <1>12, <2>3 DEF ConnectTimeout, GroupTypes, InGroup
    <2>4. QED
      BY <1>12, <2>2, <2>3 DEF ConnectTimeout
  <1>13. ASSUME NEW k \in Kind, Answer(k) PROVE GroupTypes'
    <2>1. CASE ConnectAnswer
      <3>1. {"connect"} \in SUBSET Kind
        BY DEF Kind, LoginTasks
      <3>2. CASE FailTasks({"connect"}, FALSE)
        BY <1>5, <2>1, <3>1, <3>2 DEF ConnectAnswer, Answered
      <3>3. CASE status' = status
        BY <1>0, <2>1, <3>3 DEF ConnectAnswer, Answered, GroupTypes, InGroup
      <3>4. CASE status' = [status EXCEPT !["connect"] = "Finished"]
        BY <1>0, <2>1, <3>4 DEF ConnectAnswer, Answered, GroupTypes, Statuses, InGroup
      <3>5. QED
        BY <2>1, <3>2, <3>3, <3>4 DEF ConnectAnswer
    <2>2. CASE LoginDone
      <3>1. PICK K \in LoadTasks : Enter([status EXCEPT !["login"] = "Finished"], K)
        BY <2>2 DEF LoginDone
      <3>2. "login" \in Kind /\ K \in SUBSET Kind
        BY LoadTasksFacts DEF Kind, LoginTasks
      <3>3. QED
        BY <1>6, <2>2, <3>1, <3>2 DEF LoginDone, Answered
    <2>3. CASE AccountsDone
      <3>1. PICK K \in {{"list"}, {"list", "create"}} :
                Enter([status EXCEPT !["accounts"] = "Finished"], K)
        BY <2>3 DEF AccountsDone
      <3>2. "accounts" \in Kind /\ K \in SUBSET Kind
        BY DEF Kind
      <3>3. QED
        BY <1>6, <2>3, <3>1, <3>2 DEF AccountsDone, Answered
    <2>4. ASSUME NEW j \in Kind, NEW view \in Kind, ViewsWanted(j, view) PROVE GroupTypes'
      <3>1. /\ status' = Joined([status EXCEPT ![j] = "Finished"], {view})
            /\ asked' \subseteq asked /\ UNCHANGED <<on, group>>
        BY <2>4 DEF ViewsWanted, Answered
      <3>2. status' \in [Kind -> Statuses] /\ \A i \in Kind : status[i] # "none" => status'[i] # "none"
        BY <1>0, <3>1 DEF Joined, GroupTypes, Statuses
      <3>3. status \in [Kind -> Statuses]
        BY <1>0 DEF GroupTypes
      <3>4. QED
        BY <1>2, <3>1, <3>2, <3>3
    <2>5. ASSUME status' \in {[status EXCEPT ![k] = "Finished"], [status EXCEPT ![k] = "Ready"]},
                 asked' \subseteq asked, UNCHANGED <<on, group>>
          PROVE  GroupTypes'
      <3>1. status' \in [Kind -> Statuses] /\ \A i \in Kind : status[i] # "none" => status'[i] # "none"
        BY <1>0, <2>5 DEF GroupTypes, Statuses
      <3>2. status \in [Kind -> Statuses]
        BY <1>0 DEF GroupTypes
      <3>3. QED
        BY <1>2, <2>5, <3>1, <3>2
    <2>6. CASE PlainDone(k) \/ TaskRetry(k)
      BY <2>5, <2>6 DEF PlainDone, TaskRetry, Answered
    <2>7. CASE TaskError(k)
      BY <1>5, <2>7 DEF TaskError, Answered
    <2>8. {"list", "views", "create", "balance"} \subseteq Kind
      BY DEF Kind
    <2>9. QED
      BY <1>13, <2>1, <2>2, <2>3, <2>4, <2>6, <2>7, <2>8 DEF Answer
  <1>14. QED
    BY <1>1, <1>7, <1>8, <1>9, <1>10, <1>11, <1>12, <1>13
       DEF Next, Pass, TorDone, NetworkUp, NetworkDown, AccountSession, User, EnsureSession, UserLogsIn,
           UserFails, EnsureAccount, Close, vars

\* One step: so does the rest.
LEMMA RestNext ==
    ASSUME NetworkInv, [Next]_vars
    PROVE  RestTypes'
  <1> USE DEF links, tasks, rest
  <1>0. RegistryTypes /\ GroupTypes /\ RestTypes /\ LinkTypes
    BY TypeParts DEF NetworkInv
  <1>1. ASSUME timedOut' \subseteq Session, outage' \in BOOLEAN, UNCHANGED <<user, known, open>>,
               alarm' \in BOOLEAN, unreached' \in BOOLEAN
        PROVE  RestTypes'
    BY <1>0, <1>1 DEF RestTypes
  <1>2. ASSUME NEW T, NEW timeout \in BOOLEAN, FailTasks(T, timeout), timeout => on \in Session
        PROVE  timedOut' \subseteq Session /\ outage' \in BOOLEAN
    <2>1. outage' = (outage \/ timeout)
      BY <1>2 DEF FailTasks
    <2>2. timedOut' = timedOut \/ (timeout /\ timedOut' = timedOut \cup {on})
      BY <1>2 DEF FailTasks
    <2>3. outage' \in BOOLEAN
      BY <1>0, <2>1 DEF RestTypes
    <2>4. timedOut' \subseteq Session
      BY <1>0, <1>2, <2>2 DEF RestTypes
    <2>5. QED
      BY <2>3, <2>4
  <1>3. ASSUME NEW st, NEW K, Enter(st, K) PROVE unreached' \in BOOLEAN
    BY <1>3 DEF Enter
  <1>4. CASE LoadActive
    BY <1>0, <1>1, <1>3, <1>4 DEF LoadActive, RestTypes
  <1>5. CASE LoginNetwork
    BY <1>0, <1>5 DEF LoginNetwork, RestTypes
  <1>6. CASE PassFinished
    BY <1>0, <1>6 DEF PassFinished, RestTypes
  <1>7. CASE PassFailed
    BY <1>0, <1>1, <1>2, <1>7 DEF PassFailed, RestTypes
  <1>8. CASE PassUpdate
    <2>1. /\ alarm' = (alarm \/ "connect" \in {k \in Kind : Runnable(k) /\ Starts(k)})
          /\ UNCHANGED <<timedOut, known, user, open>>
      BY <1>8 DEF PassUpdate
    <2>2. \/ outage' = FALSE /\ unreached' \in BOOLEAN
          \/ UNCHANGED <<outage, unreached>>
      BY <1>3, <1>8 DEF PassUpdate
    <2>3. alarm' \in BOOLEAN
      BY <1>0, <2>1 DEF RestTypes
    <2>4. outage' \in BOOLEAN /\ unreached' \in BOOLEAN /\ timedOut' \subseteq Session
      BY <1>0, <2>1, <2>2 DEF RestTypes
    <2>5. QED
      BY <1>1, <2>1, <2>3, <2>4
  <1>9. CASE ConnectTimeout
    <2>1. status["connect"] = "Active" => on \in Session
      BY GroupHasSession DEF Kind, LoginTasks
    <2>2. timedOut' \subseteq Session /\ outage' \in BOOLEAN
      BY <1>0, <1>2, <1>9, <2>1 DEF ConnectTimeout, RestTypes
    <2>3. QED
      BY <1>0, <1>1, <1>9, <2>2 DEF ConnectTimeout, RestTypes
  <1>10. ASSUME NEW k \in Kind, Answer(k) PROVE RestTypes'
    <2>1. CASE ConnectAnswer
      <3>1. timedOut' \subseteq Session /\ outage' \in BOOLEAN
        BY <1>0, <1>2, <2>1 DEF ConnectAnswer, RestTypes
      <3>2. QED
        BY <1>0, <1>1, <2>1, <3>1 DEF ConnectAnswer, RestTypes
    <2>2. CASE LoginDone
      BY <1>0, <1>1, <1>3, <2>2 DEF LoginDone, RestTypes
    <2>3. CASE AccountsDone
      <3>1. unreached' \in BOOLEAN
        BY <1>3, <2>3 DEF AccountsDone
      <3>2. QED
        BY <1>0, <2>3, <3>1 DEF AccountsDone, RestTypes
    <2>4. ASSUME NEW j, NEW view, ViewsWanted(j, view) PROVE RestTypes'
      BY <1>0, <2>4 DEF ViewsWanted, RestTypes
    <2>5. CASE PlainDone(k) \/ TaskRetry(k)
      BY <1>0, <2>5 DEF PlainDone, TaskRetry, RestTypes
    <2>6. CASE TaskError(k)
      <3>1. timedOut' \subseteq Session /\ outage' \in BOOLEAN
        BY <1>0, <1>2, <2>6 DEF TaskError, RestTypes
      <3>2. QED
        BY <1>0, <1>1, <2>6, <3>1 DEF TaskError, RestTypes
    <2>7. QED
      BY <1>10, <2>1, <2>2, <2>3, <2>4, <2>5, <2>6 DEF Answer
  <1>11. CASE AccountSession
    BY <1>0, <1>11 DEF AccountSession, RestTypes
  <1>12. CASE EnsureSession
    <2>1. mapped' \in Session
      BY <1>0, <1>12, GetOrCreateFacts DEF EnsureSession
    <2>2. QED
      BY <1>0, <1>12, <2>1 DEF EnsureSession, RestTypes
  <1>13. CASE UserLogsIn
    BY <1>0, <1>13 DEF UserLogsIn, RestTypes
  <1>14. CASE UserFails
    BY <1>0, <1>14 DEF UserFails, RestTypes
  <1>15. CASE EnsureAccount
    BY <1>0, <1>15 DEF EnsureAccount, RestTypes
  <1>16. CASE Close
    BY <1>0, <1>16 DEF Close, RestTypes
  <1>17. ASSUME NEW s \in Session, NetworkUp(s) \/ NetworkDown(s) PROVE RestTypes'
    BY <1>0, <1>17 DEF NetworkUp, NetworkDown, RestTypes
  <1>18. CASE UNCHANGED vars
    BY <1>0, <1>18 DEF vars, RestTypes
  <1>19. CASE TorDone
    BY <1>0, <1>19 DEF TorDone, RestTypes
  <1>20. QED
    BY <1>4, <1>5, <1>6, <1>7, <1>8, <1>9, <1>10, <1>11, <1>12, <1>13, <1>14, <1>15, <1>16, <1>17,
       <1>18, <1>19 DEF Next, Pass, User

-----------------------------------------------------------------------------
(* The login tasks go in order. *)

\* A step that leaves these tasks alone.
LEMMA LoginFrame ==
    ASSUME LoginInOrder, UNCHANGED <<group, on>>,
           \A k \in {"connect", "assets", "login"} : status'[k] = status[k],
           \A k \in {"assets", "login"} : k \in asked' => k \in asked,
           Loading => ready' = ready,
           group = "none" => UNCHANGED <<status, timedOut>>
    PROVE  LoginInOrder'
  BY DEF LoginInOrder, Loading, InGroup

\* A pass of the dispatcher: neither the login nor the assets start before the
\* connection is there, nor the login before the assets.
LEMMA LoginPass ==
    ASSUME NetworkInv, PassUpdate
    PROVE  LoginInOrder'
  <1>0. GroupTypes /\ LoginInOrder
    BY TypeParts DEF NetworkInv
  <1>1. PICK done, begun \in SUBSET Kind : PassOver(done, begun)
    BY PassUpdateFacts
  <1> DEFINE C == status["connect"]
             A == status["assets"]
             L == status["login"]
  <1>2. {"connect", "assets", "login"} \subseteq Kind /\ {"connect", "assets", "login"} \subseteq LoginTasks
    BY DEF Kind, LoginTasks
  <1>3. /\ Loading /\ ready' = ready /\ on' = on /\ asked' = asked \cup begun /\ connected' = connected
        /\ group' \in {"Ready", "Active"}
    BY <1>1 DEF PassOver, Loading
  <1>4. ASSUME NEW k \in {"connect", "assets", "login"}
        PROVE  /\ status[k] # "Failed"
               /\ \/ k \in done /\ status'[k] = "Finished"
                  \/ k \in begun /\ status'[k] = "Active"
                  \/ k \notin done \cup begun /\ status'[k] = status[k]
               /\ k \in done => Runnable(k) /\ FinishesAtOnce(k)
               /\ k \in begun => Runnable(k) /\ Starts(k) /\ k \notin done
    BY <1>1, <1>2 DEF PassOver, InGroup, Starts
  <1>5. Needs("connect") = {} /\ Needs("assets") = {"connect"} /\ Needs("login") = {"assets"} \cap InGroup
    BY DEF Needs
  <1>6. "connect" \in done \cup begun => C \in {"Ready", "Active"}
    BY <1>4 DEF Runnable
  <1>7. "connect" \notin done /\ C \in {"Ready", "Active"} => on \notin connected \/ on \in ready
    BY <1>1, <1>2, <1>5
       DEF PassOver, Runnable, FinishesAtOnce, WaitsForTor, NetworkInv, DialledInOrder
  <1>8. /\ "assets" \notin done
        /\ "assets" \in begun => A = "Ready" /\ C = "Finished"
    BY <1>4, <1>5 DEF Runnable, FinishesAtOnce, Starts
  <1>9. /\ "login" \in done \cup begun => L \in {"Ready", "Active"} /\ A \in {"none", "Finished"}
        /\ "login" \in begun => L = "Ready" /\ on \notin ready /\ on \in connected
        /\ "login" \in done => on \in ready
    BY <1>2, <1>4, <1>5 DEF Runnable, FinishesAtOnce, Starts, InGroup
  <1>10. /\ "login" \in asked => L = "Active" /\ on \notin ready
         /\ "assets" \in asked => A = "Active" /\ L = "Ready" /\ C \notin {"Ready", "Active"} /\ "login" \notin asked
         /\ C \in {"Ready", "Active"} => "login" \notin asked /\ L \in {"Ready", "Finished"}
         /\ A \in {"Ready", "Active"} => L = "Ready"
         /\ L = "none" => C = "none"
    BY <1>0, <1>3, <1>4 DEF LoginInOrder
  <1>11. status'["connect"] \in {"Ready", "Active"} =>
             "login" \notin asked' /\ status'["login"] \in {"Ready", "Finished"}
    <2> SUFFICES ASSUME status'["connect"] \in {"Ready", "Active"}
                 PROVE  "login" \notin asked' /\ status'["login"] \in {"Ready", "Finished"}
      OBVIOUS
    <2>1. "connect" \notin done /\ C \in {"Ready", "Active"}
      BY <1>4, <1>6
    <2>2. "login" \notin begun
      BY <2>1, <1>7, <1>9
    <2>3. QED
      BY <2>1, <2>2, <1>3, <1>4, <1>10
  <1>12. status'["assets"] \in {"Ready", "Active"} => status'["login"] = "Ready"
    BY <1>4, <1>8, <1>9, <1>10
  <1>13. "assets" \in asked' =>
             /\ status'["connect"] \notin {"Ready", "Active"} /\ status'["assets"] = "Active"
             /\ "login" \notin asked' /\ status'["login"] = "Ready"
    <2> SUFFICES ASSUME "assets" \in asked'
                 PROVE  /\ status'["connect"] \notin {"Ready", "Active"} /\ status'["assets"] = "Active"
                        /\ "login" \notin asked' /\ status'["login"] = "Ready"
      OBVIOUS
    <2>1. A \in {"Ready", "Active"} /\ L = "Ready" /\ C \notin {"Ready", "Active"} /\ "login" \notin asked
      BY <1>3, <1>8, <1>10
    <2>2. "login" \notin done \cup begun
      BY <2>1, <1>9
    <2>3. "connect" \notin done \cup begun
      BY <2>1, <1>6
    <2>4. status'["assets"] = "Active"
      BY <1>3, <1>4, <1>8, <1>10
    <2>5. QED
      BY <2>1, <2>2, <2>3, <2>4, <1>3, <1>4
  <1>14. "login" \in asked' => status'["login"] = "Active" /\ on \notin ready
    <2>1. CASE "login" \in begun
      BY <2>1, <1>4, <1>9
    <2>2. CASE "login" \notin begun
      BY <2>2, <1>3, <1>4, <1>9, <1>10
    <2>3. QED
      BY <2>1, <2>2
  <1>15. status'["login"] = "none" => status'["connect"] = "none"
    BY <1>4, <1>6, <1>10
  <1>16. QED
    BY <1>3, <1>11, <1>12, <1>13, <1>14, <1>15 DEF LoginInOrder, Loading

\* A failure, of the one task or of the whole group: with the connection the assets
\* and the login fail, with the assets the login does.
LEMMA LoginFail ==
    ASSUME NetworkInv, NEW k \in Kind, NEW timeout \in BOOLEAN, FailTasks({k}, timeout),
           UNCHANGED <<group, on, ready>>, asked' \subseteq asked,
           k = "connect" => status["connect"] = "Active", k # "connect" => k \in asked \ asked'
    PROVE  LoginInOrder'
  <1> DEFINE F == Failing({k})
  <1>0. GroupTypes /\ LoginInOrder
    BY TypeParts DEF NetworkInv
  <1>1. {k} \in SUBSET Kind /\ {"connect", "assets", "login"} \subseteq Kind
    BY DEF Kind, LoginTasks
  <1>2. /\ \A j \in {"connect", "assets", "login"} : status'[j] = IF j \in F THEN "Failed" ELSE status[j]
        /\ InGroup' = InGroup
    BY <1>0, <1>1, FailTasksFacts
  <1>3. /\ \A j \in F : status[j] \notin {"none", "Failed"}
        /\ status[k] \notin {"none", "Failed"} => k \in F
    BY <1>1, FailingFacts
  <1>4. /\ "connect" \in F => k = "connect"
        /\ "assets" \in F => k \in {"connect", "assets"}
        /\ "login" \in F => k \in {"connect", "assets", "login"}
        /\ k = "assets" /\ status["login"] \notin {"none", "Failed"} => "login" \in F
        /\ k = "connect" /\ status["assets"] \notin {"none", "Failed"} => "assets" \in F
    BY FailingOne
  <1>5. group # "none"
    <2>1. k = "connect" => "connect" \in InGroup
      BY <1>1 DEF InGroup
    <2>2. k # "connect" => k \in InGroup
      BY <1>0 DEF GroupTypes
    <2>3. QED
      BY <1>0, <2>1, <2>2 DEF LoginInOrder
  <1> HIDE DEF F
  <1>6. CASE k = "connect"
    <2>1. Loading /\ "login" \notin asked /\ "assets" \notin asked /\ status["login"] \in {"Ready", "Finished"}
      BY <1>0, <1>6 DEF LoginInOrder
    <2>2. status'["connect"] = "Failed" /\ status'["assets"] \notin {"Ready", "Active"}
      BY <1>2, <1>3, <1>4, <1>6
    <2>3. status'["login"] # "none"
      BY <1>2, <2>1
    <2>4. "login" \notin asked' /\ "assets" \notin asked' /\ group' \in {"Ready", "Active"}
      BY <2>1 DEF Loading
    <2>5. QED
      BY <2>2, <2>3, <2>4 DEF LoginInOrder
  <1>7. CASE k = "assets"
    <2>1. /\ "login" \notin asked /\ status["assets"] # "none"
          /\ status["connect"] \notin {"Ready", "Active"}
          /\ status["login"] = "Failed" \/ (Loading /\ status["login"] = "Ready")
      BY <1>0, <1>7 DEF LoginInOrder
    <2>2. /\ status'["assets"] = "Failed" /\ status'["login"] = "Failed"
          /\ status'["connect"] = status["connect"]
      BY <1>2, <1>3, <1>4, <1>7, <2>1
    <2>3. "login" \notin asked' /\ "assets" \notin asked'
      BY <1>7, <2>1
    <2>4. group # "Finished"
      BY <1>0, <2>1 DEF LoginInOrder, Loading
    <2>5. QED
      BY <1>5, <2>1, <2>2, <2>3, <2>4 DEF LoginInOrder
  <1>8. CASE k = "login"
    <2>1. /\ "login" \in asked /\ "assets" \notin asked /\ group # "Finished"
          /\ status["connect"] \notin {"Ready", "Active"} /\ status["assets"] \notin {"Ready", "Active"}
          /\ status["login"] \in {"Active", "Failed"}
      BY <1>0, <1>8 DEF LoginInOrder, Loading
    <2>2. /\ status'["login"] = "Failed" /\ status'["connect"] = status["connect"]
          /\ status'["assets"] = status["assets"]
      BY <1>2, <1>3, <1>4, <1>8, <2>1
    <2>3. "login" \notin asked' /\ "assets" \notin asked'
      BY <1>8, <2>1
    <2>4. QED
      BY <1>5, <2>1, <2>2, <2>3 DEF LoginInOrder
  <1>9. CASE k \notin {"connect", "assets", "login"}
    <2>1. \A j \in {"connect", "assets", "login"} : status'[j] = status[j]
      BY <1>2, <1>4, <1>9
    <2>2. QED
      BY <1>0, <1>5, <2>1, LoginFrame
  <1>10. QED
    BY <1>6, <1>7, <1>8, <1>9

\* The group fails, and all that is in it.
LEMMA LoginGroupFails ==
    ASSUME NetworkInv, PassFailed
    PROVE  /\ LoginInOrder'
           /\ \A k \in Kind : status'[k] = IF status[k] = "none" THEN "none" ELSE "Failed"
  <1>0. GroupTypes /\ LoginInOrder
    BY TypeParts DEF NetworkInv
  <1>1. InGroup \in SUBSET Kind /\ FailTasks(InGroup, FALSE) /\ group' = "Failed" /\ UNCHANGED <<on, asked>>
    BY DEF InGroup, PassFailed
  <1>2. \A k \in Kind : status'[k] = IF k \in Failing(InGroup) THEN "Failed" ELSE status[k]
    BY <1>0, <1>1, FailTasksFacts
  <1>3. ASSUME NEW k \in Kind PROVE status'[k] = IF status[k] = "none" THEN "none" ELSE "Failed"
    <2>1. k \in Failing(InGroup) => status[k] # "none"
      BY <1>1, FailingFacts
    <2>2. k \notin Failing(InGroup) => status[k] \in {"none", "Failed"}
      BY <1>1, FailingFacts DEF InGroup
    <2>3. QED
      BY <1>2, <2>1, <2>2
  <1>4. {"connect", "assets", "login"} \subseteq Kind
    BY DEF Kind, LoginTasks
  <1>5. LoginInOrder'
    <2>1. \A k \in {"connect", "assets", "login"} :
              status'[k] = IF status[k] = "none" THEN "none" ELSE "Failed"
      BY <1>3, <1>4
    <2>2. "assets" \in asked => status["assets"] # "none" /\ status["login"] # "none"
                                /\ "login" \notin asked
      BY <1>0 DEF LoginInOrder
    <2>3. "login" \in asked => status["login"] # "none"
      BY <1>0 DEF LoginInOrder
    <2>4. status["login"] = "none" => status["connect"] = "none"
      BY <1>0 DEF LoginInOrder
    <2>5. QED
      BY <1>1, <2>1, <2>2, <2>3, <2>4 DEF LoginInOrder
  <1>6. QED
    BY <1>3, <1>5

\* The login answers.
LEMMA LoginAnswered ==
    ASSUME NetworkInv, LoginDone
    PROVE  LoginInOrder' /\ status'["login"] = "Finished"
  <1>0. RegistryTypes /\ GroupTypes /\ LoginInOrder
    BY TypeParts DEF NetworkInv
  <1> DEFINE st == [status EXCEPT !["login"] = "Finished"]
  <1>1. {"connect", "assets", "login"} \subseteq Kind /\ {"connect", "assets", "login"} \subseteq LoginTasks
    BY DEF Kind, LoginTasks
  <1>2. /\ st \in [Kind -> Statuses] /\ st["login"] = "Finished"
        /\ st["connect"] = status["connect"] /\ st["assets"] = status["assets"]
    BY <1>0, <1>1 DEF GroupTypes, Statuses
  <1>3. PICK K \in LoadTasks : Enter(st, K)
    BY DEF LoginDone
  <1> HIDE DEF st
  <1>4. \A k \in {"connect", "assets", "login"} : status'[k] = st[k]
    <2>1. K \in SUBSET Kind /\ K \cap LoginTasks = {}
      BY LoadTasksFacts
    <2>2. \A k \in Kind : status'[k] = st[k] \/ k \in K
      BY <1>0, <1>2, <1>3, <2>1, EnterFacts
    <2>3. QED
      BY <1>1, <2>1, <2>2
  <1>5. "login" \in asked /\ asked' = asked \ {"login"} /\ group' = group
    BY DEF LoginDone, Answered
  <1>6. /\ "assets" \notin asked /\ group \notin {"none", "Finished"}
        /\ status["connect"] \notin {"Ready", "Active"} /\ status["assets"] \notin {"Ready", "Active"}
    BY <1>0, <1>5 DEF LoginInOrder, Loading
  <1>7. LoginInOrder'
    BY <1>2, <1>4, <1>5, <1>6 DEF LoginInOrder
  <1>8. QED
    BY <1>2, <1>4, <1>7

\* The other answers leave the login as it is.
LEMMA OtherAnswers ==
    ASSUME NetworkInv, NEW k \in Kind, Answer(k)
    PROVE  \/ ConnectAnswer \/ LoginDone \/ TaskError(k)
           \/ /\ k \in asked /\ asked' = asked \ {k}
              /\ UNCHANGED <<group, on, ready, timedOut>>
              /\ \A j \in LoginTasks : \/ status'[j] = status[j]
                                       \/ j = k /\ k \notin {"connect", "login"} /\ status'[j] = "Finished"
                                       \/ j = k /\ k \notin {"connect", "assets"} /\ status'[j] = "Ready"
              /\ outage' = outage /\ GroupTypes
  <1> USE DEF links, tasks, rest
  <1>0. RegistryTypes /\ GroupTypes
    BY TypeParts DEF NetworkInv
  <1>1. LoginTasks \subseteq Kind /\ \A j \in LoginTasks : j \notin {"accounts", "list", "views", "create", "balance"}
    BY DEF Kind, LoginTasks
  <1>2. CASE k = "accounts" /\ AccountsDone
    <2> DEFINE st == [status EXCEPT !["accounts"] = "Finished"]
    <2>1. PICK K \in {{"list"}, {"list", "create"}} : Enter(st, K)
      BY <1>2 DEF AccountsDone
    <2>2. /\ st \in [Kind -> Statuses] /\ \A j \in LoginTasks : st[j] = status[j]
          /\ K \in SUBSET Kind /\ \A j \in LoginTasks : j \notin K
      BY <1>0, <1>1 DEF GroupTypes, Statuses, Kind
    <2> HIDE DEF st
    <2>3. \A j \in LoginTasks : status'[j] = status[j]
      BY <1>0, <1>1, <2>1, <2>2, EnterFacts
    <2>4. QED
      BY <1>0, <1>2, <2>3 DEF AccountsDone, Answered
  <1>3. ASSUME NEW j \in {"list", "create"}, NEW view \in {"views", "balance"}, k = j, ViewsWanted(j, view)
        PROVE  /\ k \in asked /\ asked' = asked \ {k}
               /\ UNCHANGED <<group, on, ready, timedOut, outage>>
               /\ \A i \in LoginTasks : status'[i] = status[i]
    <2>1. status' = Joined([status EXCEPT ![j] = "Finished"], {view})
      BY <1>3 DEF ViewsWanted
    <2>2. \A i \in LoginTasks : i \in Kind /\ i # j /\ i # view
      BY <1>1
    <2>3. \A i \in LoginTasks : status'[i] = status[i]
      BY <1>0, <2>1, <2>2 DEF Joined, GroupTypes
    <2>4. QED
      BY <1>3, <2>3 DEF ViewsWanted, Answered
  <1>4. CASE PlainDone(k)
    <2>1. \A j \in LoginTasks : status'[j] = status[j] \/ (j = k /\ status'[j] = "Finished")
      BY <1>0, <1>1, <1>4 DEF PlainDone, GroupTypes
    <2>2. k \notin {"connect", "login"}
      BY <1>4 DEF PlainDone
    <2>3. QED
      BY <1>0, <1>4, <2>1, <2>2 DEF PlainDone, Answered
  <1>5. CASE TaskRetry(k)
    <2>1. \A j \in LoginTasks : status'[j] = status[j] \/ (j = k /\ status'[j] = "Ready")
      BY <1>0, <1>1, <1>5 DEF TaskRetry, GroupTypes
    <2>2. k \notin {"connect", "assets"}
      BY <1>5 DEF TaskRetry
    <2>3. QED
      BY <1>0, <1>5, <2>1, <2>2 DEF TaskRetry, Answered
  <1>6. QED
    BY <1>0, <1>2, <1>3, <1>4, <1>5 DEF Answer

\* One step.
LEMMA LoginNext ==
    ASSUME NetworkInv, [Next]_vars
    PROVE  LoginInOrder'
  <1> USE DEF links, tasks, rest
  <1>0. RegistryTypes /\ GroupTypes /\ LoginInOrder
    BY TypeParts DEF NetworkInv
  <1>1. {"connect", "assets", "login"} \subseteq Kind /\ {"connect", "assets", "login"} \subseteq LoginTasks
    BY DEF Kind, LoginTasks
  <1>2. ASSUME UNCHANGED <<tasks, timedOut>>, Loading => ready' = ready PROVE LoginInOrder'
    BY <1>0, <1>2, LoginFrame
  <1>3. ASSUME group = "none" PROVE asked = {} /\ timedOut = {} /\ \A k \in Kind : status[k] = "none"
    BY <1>0, <1>3 DEF LoginInOrder, GroupTypes, InGroup
  <1>4. CASE LoadActive
    <2>1. group = "none" /\ group' = "Ready" /\ UNCHANGED <<asked, timedOut>>
      BY <1>4 DEF LoadActive
    <2>2. PICK K \in LoadTasks : Enter(status, K)
      BY <1>4 DEF LoadActive
    <2>3. K \in SUBSET Kind /\ K \cap LoginTasks = {} /\ status \in [Kind -> Statuses]
      BY <1>0, LoadTasksFacts DEF GroupTypes
    <2>4. \A k \in Kind : status'[k] = status[k] \/ k \in K
      BY <1>0, <2>2, <2>3, EnterFacts
    <2>5. \A k \in {"connect", "assets", "login"} : status'[k] = "none"
      BY <1>1, <1>3, <2>1, <2>3, <2>4
    <2>6. QED
      BY <1>3, <2>1, <2>5 DEF LoginInOrder
  <1>5. CASE LoginNetwork
    <2>1. group = "none" /\ group' = "Ready" /\ UNCHANGED <<asked, timedOut>>
      BY <1>5 DEF LoginNetwork
    <2>2. PICK K \in SUBSET {"assets", "settings"} : status' = Joined(status, {"connect", "login"} \cup K)
      BY <1>5 DEF LoginNetwork
    <2>3. status'["connect"] = "Ready" /\ status'["login"] = "Ready" /\ status'["assets"] \in {"none", "Ready"}
      BY <1>1, <1>3, <2>1, <2>2 DEF Joined
    <2>4. QED
      BY <1>3, <2>1, <2>3 DEF LoginInOrder, Loading
  <1>6. CASE PassFinished
    <2>1. /\ Loading /\ group' = "Finished" /\ UNCHANGED <<status, asked, on, ready>>
          /\ \A k \in InGroup : status[k] = "Finished"
      BY <1>6 DEF PassFinished
    <2>2. \A k \in {"connect", "assets", "login"} : status[k] \in {"none", "Finished"}
      BY <1>1, <2>1 DEF InGroup
    <2>3. "assets" \notin asked /\ "login" \notin asked
      BY <1>0, <2>2, <2>1 DEF LoginInOrder
    <2>4. status["login"] = "none" => status["connect"] = "none"
      BY <1>0 DEF LoginInOrder
    <2>5. QED
      BY <2>1, <2>2, <2>3, <2>4 DEF LoginInOrder
  <1>7. CASE ConnectTimeout
    <2>1. UNCHANGED <<group, on, ready, asked>>
      BY <1>7 DEF ConnectTimeout
    <2>2. CASE status["connect"] = "Active" /\ FailTasks({"connect"}, TRUE)
      <3>1. "connect" \in Kind /\ TRUE \in BOOLEAN
        BY <1>1
      <3>2. QED
        BY <2>1, <2>2, <3>1, LoginFail
    <2>3. CASE UNCHANGED <<status, timedOut>>
      BY <1>0, <2>1, <2>3, LoginFrame
    <2>4. QED
      BY <1>7, <2>2, <2>3 DEF ConnectTimeout
  <1>8. CASE ConnectAnswer
    <2>1. asked' = asked \ {"connect"} /\ UNCHANGED <<group, on, ready>>
      BY <1>8 DEF ConnectAnswer, Answered
    <2>2. CASE status["connect"] = "Active" /\ FailTasks({"connect"}, FALSE)
      BY <1>1, <2>1, <2>2, LoginFail
    <2>3. CASE UNCHANGED <<status, timedOut>>
      BY <1>0, <2>1, <2>3, LoginFrame
    <2>4. CASE status["connect"] = "Active" /\ status' = [status EXCEPT !["connect"] = "Finished"]
      <3>1. /\ status'["connect"] = "Finished" /\ status'["assets"] = status["assets"]
            /\ status'["login"] = status["login"]
        BY <1>0, <1>1, <2>4 DEF GroupTypes
      <3>2. /\ Loading /\ asked' \subseteq asked /\ group' = group
            /\ "login" \notin asked /\ "assets" \notin asked
            /\ status["login"] \in {"Ready", "Finished"}
            /\ status["assets"] \in {"Ready", "Active"} => status["login"] = "Ready"
        BY <1>0, <2>1, <2>4 DEF LoginInOrder
      <3>3. group' \in {"Ready", "Active"} /\ "login" \notin asked' /\ "assets" \notin asked'
        BY <3>2 DEF Loading
      <3>4. QED
        BY <3>1, <3>2, <3>3 DEF LoginInOrder, Loading
    <2>5. QED
      BY <1>8, <2>2, <2>3, <2>4 DEF ConnectAnswer
  <1>9. ASSUME NEW k \in Kind, Answer(k) PROVE LoginInOrder'
    <2>1. CASE TaskError(k)
      <3>1. /\ FailTasks({k}, FALSE) /\ UNCHANGED <<group, on, ready>>
            /\ k \in asked /\ asked' = asked \ {k} /\ k # "connect"
        BY <2>1 DEF TaskError, Answered
      <3>2. QED
        BY <3>1, LoginFail
    <2>2. CASE ~TaskError(k) /\ ~ConnectAnswer /\ ~LoginDone
      <3>1. /\ k \in asked /\ asked' = asked \ {k} /\ UNCHANGED <<group, on, ready, timedOut>>
            /\ \A j \in LoginTasks : \/ status'[j] = status[j]
                                     \/ j = k /\ k \notin {"connect", "login"} /\ status'[j] = "Finished"
                                     \/ j = k /\ k \notin {"connect", "assets"} /\ status'[j] = "Ready"
        BY <1>9, <2>2, OtherAnswers
      <3>2. group # "none"
        BY <1>3, <3>1
      <3>3. CASE k \notin {"assets", "login"}
        BY <1>0, <1>1, <3>1, <3>2, <3>3, LoginFrame
      <3>4. CASE k = "assets"
        <4>1. /\ status'["assets"] \in {status["assets"], "Finished"}
              /\ status'["connect"] = status["connect"] /\ status'["login"] = status["login"]
              /\ asked' = asked \ {"assets"}
          BY <1>1, <3>1, <3>4
        <4>2. QED
          BY <1>0, <3>1, <3>2, <4>1 DEF LoginInOrder, Loading
      <3>5. CASE k = "login"
        <4>1. /\ status'["login"] \in {status["login"], "Ready"}
              /\ status'["connect"] = status["connect"] /\ status'["assets"] = status["assets"]
              /\ asked' = asked \ {"login"} /\ "login" \in asked
          BY <1>1, <3>1, <3>5
        <4>2. /\ "assets" \notin asked /\ status["login"] # "none" /\ group # "Finished"
              /\ status["connect"] \notin {"Ready", "Active"} /\ status["assets"] \notin {"Ready", "Active"}
          BY <1>0, <4>1 DEF LoginInOrder, Loading
        <4>3. QED
          BY <3>1, <3>2, <4>1, <4>2 DEF LoginInOrder
      <3>6. QED
        BY <3>3, <3>4, <3>5
    <2>3. QED
      BY <1>8, <2>1, <2>2, LoginAnswered
  <1>10. CASE UserLogsIn
    <2>1. user \in Session
      BY <1>10, TypeParts DEF UserLogsIn, NetworkInv, LinkTypes
    <2>2. ~Loading
      BY <2>1, SessionFacts DEF NetworkInv, GroupSession, Ended, Loading
    <2>3. QED
      BY <1>2, <1>10, <2>2 DEF UserLogsIn
  <1>11. QED
    BY <1>2, <1>4, <1>5, <1>6, <1>7, <1>9, <1>10, LoginPass, LoginGroupFails
       DEF Next, Pass, TorDone, NetworkUp, NetworkDown, AccountSession, User, EnsureSession,
           UserFails, EnsureAccount, Close, vars

-----------------------------------------------------------------------------
(* The session of the group. *)

\* Once the context is gone nothing happens.
LEMMA ClosedForEver == ASSUME ~open, [Next]_vars PROVE UNCHANGED vars
  BY DEF Next, LoadActive, LoginNetwork, Pass, PassFinished, PassFailed, PassUpdate,
         ConnectTimeout, Answer, Answered, ConnectAnswer, LoginDone, AccountsDone, ViewsWanted,
         PlainDone, TaskError, TaskRetry, TorDone, NetworkUp, NetworkDown, AccountSession, User,
         EnsureSession, UserLogsIn, UserFails, EnsureAccount, Close

\* A group starts on the session of the network, or goes on with the one it has.
LEMMA GroupStep ==
    ASSUME NetworkInv, [Next]_vars
    PROVE  \/ /\ on' = on
              /\ group' = group \/ (Loading /\ group' \in {"Active", "Finished", "Failed"})
           \/ /\ group = "none" /\ group' = "Ready" /\ on' = mapped' /\ mapped' \in Session
              /\ UNCHANGED <<timedOut, outage, ready, user, asked, open>>
              /\ status'["login"] \in {"none", "Finished"} => on' \in ready'
  <1> USE DEF links, tasks, rest
  <1>0. RegistryTypes /\ GroupTypes
    BY TypeParts DEF NetworkInv
  <1>1. CASE LoadActive
    <2>1. /\ group = "none" /\ group' = "Ready" /\ on' = mapped
          /\ UNCHANGED <<timedOut, outage, ready, user, asked, open>>
          /\ GetOrCreateSession
      BY <1>1 DEF LoadActive, Enter
    <2>2. mapped \in ready /\ mapped \in Session
      BY <1>0, <1>1 DEF LoadActive, NetworkInv, LoggedInSessionsAreMapped, RegistryTypes
    <2>3. mapped' = mapped
      BY <2>1, <2>2, SessionFacts DEF GetOrCreateSession, registry
    <2>4. QED
      BY <2>1, <2>2, <2>3
  <1>2. CASE LoginNetwork
    <2>1. /\ group = "none" /\ group' = "Ready" /\ on' = mapped' /\ GetOrCreateSession
          /\ UNCHANGED <<timedOut, outage, ready, user, asked, open>>
      BY <1>2 DEF LoginNetwork
    <2>2. mapped' \in Session
      BY <1>0, <2>1, GetOrCreateFacts
    <2>3. status'["login"] = "Ready"
      <3>1. "login" \in Kind
        BY DEF Kind, LoginTasks
      <3>2. QED
        BY <1>2, <3>1 DEF LoginNetwork, Joined
    <2>4. QED
      BY <2>1, <2>2, <2>3
  <1>3. CASE PassUpdate
    BY <1>3 DEF PassUpdate
  <1>4. ASSUME NEW k \in Kind, Answer(k) PROVE UNCHANGED <<on, group>>
    BY <1>4 DEF Answer, ConnectAnswer, LoginDone, AccountsDone, ViewsWanted, PlainDone, TaskError,
                TaskRetry
  <1>5. QED
    BY <1>1, <1>2, <1>3, <1>4
       DEF Next, Pass, PassFinished, PassFailed, ConnectTimeout, TorDone, NetworkUp, NetworkDown,
           AccountSession, User, EnsureSession, UserLogsIn, UserFails, EnsureAccount, Close, vars

\* What a step may do to the login, the connection and the outage.
Outcomes ==
    /\ status["connect"] = "Failed" => status'["connect"] = "Failed"
    /\ status["login"] = "Failed" /\ (Loading \/ "login" \notin asked) => status'["login"] = "Failed"
    /\ status'["login"] \in {"none", "Finished"} => status'["login"] = status["login"] \/ on \in ready'
    /\ \/ timedOut' = timedOut
       \/ timedOut' = timedOut \cup {on} /\ status'["connect"] = "Failed"
    /\ outage' => \/ outage
                  \/ on \in timedOut' /\ "login" \notin asked' /\ group' \in {"Ready", "Active"}
    /\ "login" \in asked' => "login" \in asked \/ status["connect"] # "Failed"
    /\ group' = "Finished" =>
           \/ group = "Finished"
           \/ /\ Loading /\ status["login"] \in {"none", "Finished"} /\ status["connect"] # "Failed"
              /\ UNCHANGED <<registry, ready, timedOut, status>>
    /\ Loading /\ group' = "Failed" /\ status["login"] # "none" => status'["login"] = "Failed"

\* A failure, of one task or of the group.
LEMMA FailOutcomes ==
    ASSUME NetworkInv, NEW T \in SUBSET Kind, NEW timeout \in BOOLEAN, FailTasks(T, timeout),
           timeout => /\ Loading /\ status["connect"] = "Active" /\ "connect" \in T
                      /\ group' = group /\ "login" \notin asked,
           asked' \subseteq asked, group' # "Finished" \/ group' = group,
           Loading /\ group' = "Failed" => T = InGroup
    PROVE  Outcomes
  <1>0. RegistryTypes /\ GroupTypes
    BY TypeParts DEF NetworkInv
  <1>1. "connect" \in Kind /\ "login" \in Kind
    BY DEF Kind, LoginTasks
  <1>2. /\ status'["connect"] = IF "connect" \in Failing(T) THEN "Failed" ELSE status["connect"]
        /\ status'["login"] = IF "login" \in Failing(T) THEN "Failed" ELSE status["login"]
    BY <1>0, <1>1, FailTasksFacts
  <1>3. /\ timedOut' = IF timeout THEN timedOut \cup {on} ELSE timedOut
        /\ outage' = (outage \/ timeout)
    BY DEF FailTasks
  <1>4. timeout => status'["connect"] = "Failed"
    BY <1>1, <1>2, FailingFacts
  <1>5. Loading /\ group' = "Failed" /\ status["login"] # "none" => status'["login"] = "Failed"
    <2> SUFFICES ASSUME Loading, group' = "Failed", status["login"] # "none"
                 PROVE  status'["login"] = "Failed"
      OBVIOUS
    <2>1. "login" \in T
      BY <1>1 DEF InGroup
    <2>2. QED
      BY <2>1, <1>2, FailingFacts
  <1>6. outage' => \/ outage
                   \/ on \in timedOut' /\ "login" \notin asked' /\ group' \in {"Ready", "Active"}
    BY <1>3 DEF Loading
  <1>7. QED
    BY <1>2, <1>3, <1>4, <1>5, <1>6 DEF Outcomes

\* One step of a group that has been started.
LEMMA StatusStep ==
    ASSUME NetworkInv, [Next]_vars, group # "none"
    PROVE  Outcomes
  <1> USE DEF links, tasks, rest
  <1>0. RegistryTypes /\ GroupTypes /\ LoginInOrder
    BY TypeParts DEF NetworkInv
  <1>1. "connect" \in Kind /\ "login" \in Kind /\ "connect" \in LoginTasks /\ "login" \in LoginTasks
    BY DEF Kind, LoginTasks
  <1>2. CASE UNCHANGED <<tasks, timedOut, outage>>
    BY <1>2 DEF Outcomes, Loading
  <1>3. CASE PassFinished
    <2>1. /\ Loading /\ UNCHANGED <<status, asked, registry, ready, timedOut, outage>>
          /\ \A k \in InGroup : status[k] = "Finished"
          /\ group' = "Finished"
      BY <1>3 DEF PassFinished
    <2>2. status["login"] \in {"none", "Finished"} /\ status["connect"] # "Failed"
      BY <1>1, <2>1 DEF InGroup
    <2>3. QED
      BY <2>1, <2>2 DEF Outcomes
  <1>4. CASE PassFailed
    <2>1. /\ InGroup \in SUBSET Kind /\ FailTasks(InGroup, FALSE)
          /\ group' = "Failed" /\ asked' = asked
      BY <1>4 DEF PassFailed, InGroup
    <2>2. QED
      BY <2>1, FailOutcomes
  <1>5. CASE PassUpdate
    <2>1. PICK done, begun \in SUBSET Kind : PassOver(done, begun)
      BY <1>5, PassUpdateFacts
    <2>2. /\ Loading /\ group' \in {"Ready", "Active"} /\ UNCHANGED <<timedOut, ready, on>>
          /\ outage' => outage
      BY <2>1 DEF PassOver, Loading
    <2>3. status["connect"] # "Failed" /\ status["login"] # "Failed"
      BY <1>1, <2>1 DEF PassOver, InGroup
    <2>4. status'["login"] \in {"none", "Finished"} => status'["login"] = status["login"] \/ on \in ready'
      BY <1>1, <2>1, <2>2 DEF PassOver, FinishesAtOnce
    <2>5. QED
      BY <2>2, <2>3, <2>4 DEF Outcomes
  <1>6. ASSUME NEW timeout \in BOOLEAN, FailTasks({"connect"}, timeout), status["connect"] = "Active",
               asked' \subseteq asked, group' = group
        PROVE  Outcomes
    <2>1. Loading /\ "login" \notin asked
      BY <1>0, <1>6 DEF LoginInOrder
    <2>2. {"connect"} \in SUBSET Kind /\ "connect" \in {"connect"} /\ ~(Loading /\ group' = "Failed")
      BY <1>1, <1>6 DEF Loading
    <2>3. QED
      BY <1>6, <2>1, <2>2, FailOutcomes
  <1>7. ASSUME UNCHANGED <<status, group, timedOut, outage>>, asked' \subseteq asked PROVE Outcomes
    BY <1>7 DEF Outcomes, Loading
  <1>8. CASE ConnectTimeout
    BY <1>6, <1>7, <1>8 DEF ConnectTimeout
  <1>9. ASSUME NEW k \in Kind, Answer(k) PROVE Outcomes
    <2>1. CASE ConnectAnswer
      <3>1. asked' \subseteq asked /\ group' = group
        BY <2>1 DEF ConnectAnswer, Answered
      <3>2. CASE /\ status["connect"] = "Active"
                 /\ status' = [status EXCEPT !["connect"] = "Finished"]
                 /\ UNCHANGED <<timedOut, outage>>
        <4>1. status'["login"] = status["login"] /\ status["connect"] # "Failed"
          BY <1>0, <1>1, <3>2 DEF GroupTypes
        <4>2. group' = "Finished" => group = "Finished"
          BY <3>1
        <4>3. ~(Loading /\ group' = "Failed")
          BY <3>1 DEF Loading
        <4>4. QED
          BY <3>1, <3>2, <4>1, <4>2, <4>3 DEF Outcomes
      <3>3. CASE UNCHANGED <<status, timedOut, outage>>
        BY <1>7, <3>1, <3>3
      <3>4. CASE status["connect"] = "Active" /\ FailTasks({"connect"}, FALSE)
        BY <1>6, <3>1, <3>4
      <3>5. QED
        BY <2>1, <3>2, <3>3, <3>4 DEF ConnectAnswer
    <2>2. CASE LoginDone
      <3>1. /\ "login" \in asked /\ asked' \subseteq asked /\ ready' = ready \cup {on} /\ outage' = FALSE
            /\ UNCHANGED <<group, timedOut>>
        BY <2>2 DEF LoginDone, Answered
      <3>2. ~(Loading /\ status["login"] = "Failed")
        BY <1>0, <3>1 DEF LoginInOrder, Loading
      <3>3. status'["connect"] = status["connect"]
        <4>1. PICK K \in LoadTasks : Enter([status EXCEPT !["login"] = "Finished"], K)
          BY <2>2 DEF LoginDone
        <4>2. /\ [status EXCEPT !["login"] = "Finished"] \in [Kind -> Statuses]
              /\ [status EXCEPT !["login"] = "Finished"]["connect"] = status["connect"]
          BY <1>0, <1>1 DEF GroupTypes, Statuses
        <4>3. K \in SUBSET Kind /\ "connect" \notin K
          BY <1>1, LoadTasksFacts
        <4>4. QED
          BY <1>0, <1>1, <4>1, <4>2, <4>3, EnterFacts
      <3>4. QED
        BY <3>1, <3>2, <3>3 DEF Outcomes, Loading
    <2>3. CASE TaskError(k)
      <3>1. /\ FailTasks({k}, FALSE) /\ {k} \in SUBSET Kind /\ asked' \subseteq asked /\ group' = group
        BY <2>3 DEF TaskError, Answered
      <3>2. ~(Loading /\ group' = "Failed")
        BY <3>1 DEF Loading
      <3>3. QED
        BY <3>1, <3>2, FailOutcomes
    <2>4. CASE ~ConnectAnswer /\ ~LoginDone /\ ~TaskError(k)
      <3>1. /\ k \in asked /\ asked' \subseteq asked /\ UNCHANGED <<group, timedOut, outage>>
            /\ status'["connect"] = status["connect"]
            /\ status'["login"] = status["login"] \/ (k = "login" /\ status'["login"] = "Ready")
        BY <1>1, <1>9, <2>4, OtherAnswers
      <3>2. k = "login" => ~(Loading /\ status["login"] = "Failed")
        BY <1>0, <3>1 DEF LoginInOrder, Loading
      <3>3. QED
        BY <3>1, <3>2 DEF Outcomes, Loading
    <2>5. QED
      BY <2>1, <2>2, <2>3, <2>4
  <1>10. QED
    BY <1>2, <1>3, <1>4, <1>5, <1>7, <1>8, <1>9
       DEF Next, Pass, LoadActive, LoginNetwork, TorDone, NetworkUp, NetworkDown, AccountSession, User,
           EnsureSession, UserLogsIn, UserFails, EnsureAccount, Close, vars

\* Who is logged in, and whom the user works with.
LEMMA ReadyStep ==
    ASSUME NetworkInv, [Next]_vars
    PROVE  /\ ready \subseteq ready' /\ ready' \subseteq Session
           /\ \A s \in ready' : s \in ready \/ s = on \/ s = user
           /\ user' = user \/ user' = None \/ (user' = mapped' /\ Ended /\ group' = group)
           /\ open' => open
           /\ Close => user' = None /\ open' = FALSE /\ UNCHANGED <<group, ready, timedOut, outage>> /\ ~Loading
  <1> USE DEF links, tasks, rest
  <1>1. LinkTypes' /\ (ready' = ready \/ ready' = ready \cup {on} \/ ready' = ready \cup {user})
    BY LinkNext
  <1>2. user' = user \/ user' = None \/ (user' = mapped' /\ Ended /\ group' = group)
    BY DEF Next, LoadActive, LoginNetwork, Pass, PassFinished, PassFailed, PassUpdate,
           ConnectTimeout, Answer, ConnectAnswer, LoginDone, AccountsDone, ViewsWanted,
           PlainDone, TaskError, TaskRetry, TorDone, NetworkUp, NetworkDown, AccountSession, User,
           EnsureSession, UserLogsIn, UserFails, EnsureAccount, Close, vars
  <1>3. open' => open
    BY ClosedForEver DEF vars
  <1>4. Close => user' = None /\ open' = FALSE /\ UNCHANGED <<group, ready, timedOut, outage>> /\ ~Loading
    BY DEF Close
  <1>5. QED
    BY <1>1, <1>2, <1>3, <1>4 DEF LinkTypes

\* No step of somebody else leads the network away from the user's session.
LEMMA UserNext ==
    ASSUME NetworkInv, [Next]_vars
    PROVE  UserKeepsSession' /\ (user' # None => Ended')
  <1>0. /\ UserKeepsSession /\ (user # None => Ended) /\ RegistryTypes /\ GroupTypes
    BY TypeParts DEF NetworkInv, GroupSession
  <1>1. Ended => ~Loading /\ group # "none"
    BY DEF Ended, Loading
  <1>2. user' # None => Ended'
    BY <1>0, <1>1, ReadyStep, GroupStep DEF Ended
  <1>3. ASSUME user' # None, user' # mapped' PROVE FALSE
    <2>1. user' = user /\ user # None /\ mapped = user /\ Ended
      BY <1>0, <1>3, ReadyStep DEF UserKeepsSession
    <2>2. ~Making /\ ~GivingBack /\ ~Close
      BY <1>1, <1>3, <2>1, ReadyStep DEF Making, GivingBack
    <2>3. mapped' = mapped
      BY <2>2, RegistryStep DEF registry
    <2>4. QED
      BY <1>3, <2>1, <2>3
  <1>4. QED
    BY <1>2, <1>3 DEF UserKeepsSession

\* The map leads to the session of the group until it is given back, and to every
\* listed session that is logged in.
LEMMA MappedNext ==
    ASSUME NetworkInv, [Next]_vars
    PROVE  LoggedInSessionsAreMapped' /\ (on' \in listed' => mapped' = on')
  <1>0. /\ RegistryTypes /\ GroupTypes /\ RestTypes
        /\ LoggedInSessionsAreMapped /\ UserKeepsSession /\ (user # None => Ended)
        /\ (on \in listed => mapped = on) /\ (Loading => ready \subseteq {on})
        /\ ready \cup listed \subseteq 1 .. made /\ on <= made
    BY TypeParts DEF NetworkInv, GroupSession, NewSessionsAreFresh
  <1>1. /\ \A s \in ready' : s \in Session /\ (s \in ready \/ s = on \/ s = user)
        /\ Close => ready' = ready
    BY ReadyStep
  <1>2. \A s \in listed : s \in Session /\ s # None
    BY <1>0, SessionFacts DEF RegistryTypes
  <1>3. on' = on \/ on' = mapped'
    BY GroupStep
  <1>4. made \in Nat /\ made + 1 # on /\ made + 1 \notin ready
    BY <1>0 DEF RegistryTypes
  <1>5. CASE UNCHANGED registry
    <2>1. mapped' = mapped /\ listed' = listed
      BY <1>5 DEF registry
    <2>2. ASSUME NEW s \in listed, s \in ready' PROVE mapped = s
      BY <1>0, <1>1, <1>2, <2>2 DEF LoggedInSessionsAreMapped, UserKeepsSession
    <2>3. QED
      BY <1>0, <1>3, <2>1, <2>2 DEF LoggedInSessionsAreMapped
  <1>6. CASE Making
    <2>1. mapped = None /\ mapped' = made + 1 /\ listed' = listed \cup {made + 1}
      BY <1>6 DEF Making
    <2>2. on \notin listed
      BY <1>0, <1>2, <2>1
    <2>3. ASSUME NEW s \in listed, s \in ready' PROVE FALSE
      BY <1>0, <1>1, <1>2, <2>1, <2>2, <2>3 DEF LoggedInSessionsAreMapped, UserKeepsSession
    <2>4. QED
      BY <1>3, <1>4, <2>1, <2>2, <2>3 DEF LoggedInSessionsAreMapped
  <1>7. CASE GivingBack
    <2>1. mapped' = None /\ listed' = listed \ {on} /\ Loading
      BY <1>7 DEF GivingBack, ReleaseSession
    <2>2. user = None
      BY <1>0, <2>1 DEF Loading, Ended
    <2>3. ready' \subseteq {on}
      BY <1>0, <1>1, <2>1, <2>2, SessionFacts
    <2>4. None \notin listed'
      BY <1>2, <2>1
    <2>5. QED
      BY <1>3, <2>1, <2>3, <2>4 DEF LoggedInSessionsAreMapped
  <1>8. CASE Close
    <2>1. listed' = {}
      BY <1>8 DEF Close
    <2>2. QED
      BY <2>1 DEF LoggedInSessionsAreMapped
  <1>9. QED
    BY <1>5, <1>6, <1>7, <1>8, RegistryStep

\* New sessions stay fresh.
LEMMA FreshNext ==
    ASSUME NetworkInv, [Next]_vars
    PROVE  NewSessionsAreFresh'
  <1>0. /\ RegistryTypes /\ RestTypes /\ NewSessionsAreFresh /\ UserKeepsSession
        /\ (mapped # None => mapped \in listed) /\ GroupTypes
    BY TypeParts DEF NetworkInv, SessionsAccountedFor
  <1>1. /\ RegistryTypes' /\ listed' \subseteq 1 .. made' /\ made <= made'
        /\ (mapped' # None => mapped' \in listed')
        /\ \A s \in Session : s > made' => garbage'[s] = 0
    BY RegistryNext DEF SessionsAccountedFor
  <1>2. made \in Nat /\ made' \in Nat /\ None = 0
    BY <1>0, <1>1 DEF RegistryTypes, None
  <1>3. 1 .. made \subseteq 1 .. made'
    BY <1>1, <1>2
  <1>4. on' <= made'
    <2>1. CASE on' = on
      BY <2>1, <1>0, <1>1, <1>2 DEF NewSessionsAreFresh, GroupTypes, Session
    <2>2. CASE on' = mapped' /\ mapped' \in Session
      <3>1. mapped' \in 1 .. made'
        BY <1>1, <2>2, SessionFacts
      <3>2. QED
        BY <2>2, <3>1, <1>2
    <2>3. QED
      BY <2>1, <2>2, GroupStep
  <1>5. ready' \subseteq 1 .. made'
    <2> SUFFICES ASSUME NEW s \in ready' PROVE s \in 1 .. made
      BY <1>3
    <2>1. s \in Session /\ (s \in ready \/ s = on \/ s = user)
      BY ReadyStep
    <2>2. CASE s \in ready
      BY <1>0, <2>2 DEF NewSessionsAreFresh
    <2>3. CASE s = on
      BY <1>0, <1>2, <2>1, <2>3 DEF NewSessionsAreFresh, Session
    <2>4. CASE s = user
      <3>1. user # None
        BY <2>1, <2>4, SessionFacts
      <3>2. user \in listed
        BY <1>0, <3>1 DEF UserKeepsSession
      <3>3. QED
        BY <1>0, <2>4, <3>2 DEF NewSessionsAreFresh
    <2>5. QED
      BY <2>1, <2>2, <2>3, <2>4
  <1>6. QED
    BY <1>1, <1>4, <1>5 DEF NewSessionsAreFresh

\* Until the group has ended no other session is logged in; the one of a login that
\* went well is, and of a group that ended well it is still listed.
LEMMA GroupReadyNext ==
    ASSUME NetworkInv, [Next]_vars
    PROVE  /\ open' /\ group' = "none" => ready' \subseteq {mapped'}
           /\ Loading' => ready' \subseteq {on'}
           /\ Loading' /\ status'["login"] \in {"none", "Finished"} => on' \in ready'
           /\ open' /\ group' = "Finished" => on' \in listed' \cap ready'
  <1>0. /\ RegistryTypes /\ GroupTypes /\ SessionsAccountedFor /\ LinkTypes
        /\ (user # None => Ended) /\ listed \cup ready \subseteq 1 .. made /\ on <= made
        /\ (open /\ group = "none" => ready \subseteq {mapped}) /\ (Loading => ready \subseteq {on})
        /\ (Loading /\ status["login"] \in {"none", "Finished"} => on \in ready)
        /\ (open /\ group = "Finished" => on \in listed \cap ready)
        /\ (on \in timedOut => status["connect"] = "Failed")
    BY TypeParts DEF NetworkInv, GroupSession, NewSessionsAreFresh
  <1>1. /\ ready \subseteq ready' /\ (open' => open)
        /\ \A s \in ready' : s \in Session /\ (s \in ready \/ s = on \/ s = user)
    BY ReadyStep
  <1>2. on = None <=> group = "none"
    BY <1>0 DEF GroupTypes
  <1>3. ~Ended => user = None
    BY <1>0
  <1>4. CASE on' = on /\ (group' = group \/ (Loading /\ group' \in {"Active", "Finished", "Failed"}))
    <2>1. open' /\ group' = "none" => ready' \subseteq {mapped'}
      <3> SUFFICES ASSUME open', group' = "none", NEW s \in ready' PROVE s = mapped'
        OBVIOUS
      <3>1. group = "none" /\ on = None /\ user = None
        BY <1>2, <1>3, <1>4 DEF Ended, Loading
      <3>2. s \in ready /\ s \in Session
        BY <1>1, <3>1, SessionFacts
      <3>3. s = mapped /\ mapped # None
        BY <1>0, <1>1, <3>1, <3>2, SessionFacts
      <3>4. UNCHANGED registry
        BY <3>1, <3>3, RegistryStep, ReadyStep DEF Making, GivingBack, Loading
      <3>5. QED
        BY <3>3, <3>4 DEF registry
    <2>2. Loading' => Loading
      BY <1>4 DEF Loading
    <2>3. Loading' => ready' \subseteq {on'}
      <3> SUFFICES ASSUME Loading', NEW s \in ready' PROVE s = on
        BY <1>4
      <3>1. user = None
        BY <1>3, <2>2 DEF Ended, Loading
      <3>2. QED
        BY <1>0, <1>1, <2>2, <3>1, SessionFacts
    <2>4. Loading' /\ status'["login"] \in {"none", "Finished"} => on' \in ready'
      <3> SUFFICES ASSUME Loading', status'["login"] \in {"none", "Finished"} PROVE on \in ready'
        BY <1>4
      <3>1. group # "none"
        BY <2>2 DEF Loading
      <3>2. status'["login"] = status["login"] \/ on \in ready'
        BY <3>1, StatusStep DEF Outcomes
      <3>3. QED
        BY <1>0, <1>1, <2>2, <3>2
    <2>5. open' /\ group' = "Finished" => on' \in listed' \cap ready'
      <3> SUFFICES ASSUME open', group' = "Finished" PROVE on \in listed' \cap ready'
        BY <1>4
      <3>1. group # "none"
        BY <1>4 DEF Loading
      <3>2. CASE group = "Finished"
        <4>1. on \in listed /\ on \in ready'
          BY <1>0, <1>1, <3>2
        <4>2. UNCHANGED registry \/ Making
          BY <3>2, RegistryStep, ReadyStep DEF GivingBack, Loading
        <4>3. QED
          BY <4>1, <4>2 DEF registry, Making
      <3>3. CASE group # "Finished"
        <4>1. /\ Loading /\ status["login"] \in {"none", "Finished"} /\ status["connect"] # "Failed"
              /\ UNCHANGED <<registry, ready>>
          BY <3>1, <3>3, StatusStep DEF Outcomes
        <4>2. on \in ready /\ on \notin timedOut
          BY <1>0, <4>1
        <4>3. on \in Session /\ on # None /\ on \in 1 .. made
          BY <1>0, <4>2, SessionFacts DEF LinkTypes
        <4>4. garbage[on] <= 0 /\ garbage[on] \in Nat
          <5>1. garbage[on] <= (IF Loading /\ status["login"] # "Failed" THEN 0 ELSE 1)
                               + (IF on \in timedOut THEN 1 ELSE 0)
            BY <1>1, <4>3 DEF NetworkInv, GroupSession
          <5>2. garbage[on] \in Nat
            BY <1>0, <4>3 DEF RegistryTypes
          <5>3. QED
            BY <4>1, <4>2, <5>1, <5>2
        <4>5. on \in listed
          BY <1>0, <4>3, <4>4 DEF SessionsAccountedFor
        <4>6. QED
          BY <1>1, <4>1, <4>2, <4>5 DEF registry
      <3>4. QED
        BY <3>2, <3>3
    <2>6. QED
      BY <2>1, <2>3, <2>4, <2>5
  <1>5. CASE /\ group = "none" /\ group' = "Ready" /\ on' = mapped' /\ mapped' \in Session
             /\ UNCHANGED <<timedOut, outage, ready, user, asked, open>>
             /\ status'["login"] \in {"none", "Finished"} => on' \in ready'
    <2>1. open
      <3>1. ~open => UNCHANGED vars
        BY ClosedForEver
      <3>2. UNCHANGED vars => group' = group
        BY DEF vars, tasks
      <3>3. QED
        BY <1>5, <3>1, <3>2
    <2>2. mapped = None => ready = {}
      BY <1>0, <1>5, <2>1, SessionFacts DEF LinkTypes
    <2>3. mapped # None => mapped' = mapped
      BY <1>5, RegistryStep, ReadyStep DEF registry, Making, GivingBack, Loading
    <2>4. ready' \subseteq {on'}
      BY <1>0, <1>5, <2>1, <2>2, <2>3
    <2>5. QED
      BY <1>5, <2>4
  <1>6. QED
    BY <1>4, <1>5, GroupStep

\* No session is given back more often than the tasks that failed account for.
LEMMA GarbageNext ==
    ASSUME NetworkInv, [Next]_vars
    PROVE  /\ open' => \A s \in Session : s # on' => garbage'[s] = 0
           /\ open' /\ on' # None =>
                  garbage'[on'] <= (IF Loading' /\ status'["login"] # "Failed" THEN 0 ELSE 1)
                                   + (IF on' \in timedOut' THEN 1 ELSE 0)
  <1>0. /\ RegistryTypes /\ GroupTypes
        /\ open => \A s \in Session : s # on => garbage[s] = 0
        /\ open /\ on # None =>
               garbage[on] <= (IF Loading /\ status["login"] # "Failed" THEN 0 ELSE 1)
                              + (IF on \in timedOut THEN 1 ELSE 0)
    BY TypeParts DEF NetworkInv, GroupSession
  <1> SUFFICES ASSUME open'
               PROVE  /\ \A s \in Session : s # on' => garbage'[s] = 0
                      /\ on' # None =>
                             garbage'[on'] <= (IF Loading' /\ status'["login"] # "Failed" THEN 0 ELSE 1)
                                              + (IF on' \in timedOut' THEN 1 ELSE 0)
    OBVIOUS
  <1>1. open /\ ~Close
    BY ReadyStep
  <1>2. on = None <=> group = "none"
    BY <1>0 DEF GroupTypes
  <1>3. CASE group = "none"
    <2>1. garbage' = garbage
      BY <1>1, <1>3, RegistryStep DEF registry, Making, GivingBack, Loading
    <2>2. \A s \in Session : garbage'[s] = 0
      BY <1>0, <1>1, <1>2, <1>3, <2>1, SessionFacts
    <2>3. on' # None => on' \in Session
      BY <1>2, <1>3, GroupStep DEF Loading
    <2>4. on' # None =>
              garbage'[on'] <= (IF Loading' /\ status'["login"] # "Failed" THEN 0 ELSE 1)
                               + (IF on' \in timedOut' THEN 1 ELSE 0)
      BY <2>2, <2>3
    <2>5. QED
      BY <2>2, <2>4
  <1>4. CASE group # "none"
    <2>1. on' = on /\ on \in Session /\ on # None
      BY <1>0, <1>2, <1>4, GroupStep DEF GroupTypes
    <2>2. Loading' => Loading
      BY <1>4, GroupStep DEF Loading
    <2>3. garbage[on] \in Nat
      BY <1>0, <2>1 DEF RegistryTypes
    <2>4. timedOut \subseteq timedOut'
      BY <1>4, StatusStep DEF Outcomes
    <2>5. Loading /\ status["login"] = "Failed" => status'["login"] = "Failed"
      BY <1>4, StatusStep DEF Outcomes
    <2> DEFINE late == IF Loading /\ status["login"] # "Failed" THEN 0 ELSE 1
               lateNext == IF Loading' /\ status'["login"] # "Failed" THEN 0 ELSE 1
               out == IF on \in timedOut THEN 1 ELSE 0
               outNext == IF on \in timedOut' THEN 1 ELSE 0
    <2>6. late \in {0, 1} /\ lateNext \in {0, 1} /\ late <= lateNext
      BY <2>2, <2>5
    <2>7. out \in {0, 1} /\ outNext \in {0, 1} /\ out <= outNext
      BY <2>4
    <2>8. garbage[on] <= late + out
      BY <1>0, <1>1, <2>1
    <2>9. CASE UNCHANGED registry \/ Making
      <3>1. garbage' = garbage
        BY <2>9 DEF registry, Making
      <3> HIDE DEF late, lateNext, out, outNext
      <3>2. garbage[on] <= lateNext + outNext
        BY <2>3, <2>6, <2>7, <2>8
      <3>3. QED
        BY <1>0, <1>1, <2>1, <3>1, <3>2 DEF lateNext, outNext
    <2>10. CASE GivingBack
      <3>1. PICK n \in {1, 2} :
                /\ ReleaseSession(on, n)
                /\ n = (IF status["login"] # "Failed" /\ status'["login"] = "Failed" THEN 1 ELSE 0)
                       + IF on \notin timedOut /\ on \in timedOut' THEN 1 ELSE 0
        BY <2>10 DEF GivingBack
      <3>2. garbage' = [garbage EXCEPT ![on] = @ + n]
        BY <3>1 DEF ReleaseSession
      <3>3. garbage'[on] = garbage[on] + n /\ \A s \in Session : s # on => garbage'[s] = garbage[s]
        BY <1>0, <2>1, <3>2 DEF RegistryTypes
      <3>4. PICK a, b \in {0, 1} : n = a + b /\ late + a <= lateNext /\ out + b <= outNext
        <4> DEFINE a == IF status["login"] # "Failed" /\ status'["login"] = "Failed" THEN 1 ELSE 0
                   b == IF on \notin timedOut /\ on \in timedOut' THEN 1 ELSE 0
        <4>1. a \in {0, 1} /\ b \in {0, 1} /\ n = a + b
          BY <3>1
        <4>2. late + a <= lateNext
          BY <2>6, <2>10 DEF GivingBack
        <4>3. out + b <= outNext
          BY <2>7
        <4>4. QED
          BY <4>1, <4>2, <4>3
      <3> HIDE DEF late, lateNext, out, outNext
      <3>5. garbage'[on] <= lateNext + outNext
        BY <2>3, <2>6, <2>7, <2>8, <3>3, <3>4
      <3>6. QED
        BY <1>0, <1>1, <2>1, <3>3, <3>5 DEF lateNext, outNext
    <2>11. QED
      BY <1>1, <2>9, <2>10, RegistryStep
  <1>5. QED
    BY <1>3, <1>4
\* The connection that timed out stays failed.
LEMMA TimedOutNext ==
    ASSUME NetworkInv, [Next]_vars
    PROVE  on' \in timedOut' => status'["connect"] = "Failed"
  <1>0. LoginInOrder /\ LoginInOrder' /\ (on \in timedOut => status["connect"] = "Failed")
    BY LoginNext DEF NetworkInv, GroupSession
  <1>1. CASE group = "none"
    <2>1. timedOut = {} /\ (group' = "none" => timedOut' = {})
      BY <1>0, <1>1 DEF LoginInOrder
    <2>2. group' = "none" \/ timedOut' = timedOut
      BY <1>1, GroupStep DEF Loading
    <2>3. QED
      BY <2>1, <2>2
  <1>2. CASE group # "none"
    BY <1>0, <1>2, GroupStep, StatusStep DEF Outcomes
  <1>3. QED
    BY <1>1, <1>2

\* No outage is shown before a group is started.
LEMMA NoGroupNoOutage ==
    ASSUME NetworkInv, [Next]_vars, group = "none"
    PROVE  ~outage /\ ~outage'
  <1> USE DEF links, tasks, rest
  <1>1. /\ timedOut = {} /\ asked = {} /\ status["connect"] # "Active" /\ ~Loading
    BY TypeParts DEF NetworkInv, LoginInOrder, GroupTypes, InGroup, Kind, LoginTasks, Loading
  <1>2. ~outage
    BY <1>1 DEF NetworkInv, OutageIsTrue
  <1>3. ASSUME NEW k \in Kind, Answer(k) PROVE FALSE
    BY <1>1, <1>3
       DEF Answer, Answered, ConnectAnswer, LoginDone, AccountsDone, ViewsWanted, PlainDone,
           TaskError, TaskRetry
  <1>4. outage' = outage
    BY <1>1, <1>3
       DEF Next, LoadActive, LoginNetwork, Pass, PassFinished, PassFailed, PassUpdate,
           ConnectTimeout, TorDone, NetworkUp, NetworkDown, AccountSession, User, EnsureSession,
           UserLogsIn, UserFails, EnsureAccount, Close, vars
  <1>5. QED
    BY <1>2, <1>4

\* The outage is shown for a connection that timed out, and the login of that group
\* cannot succeed any more.
LEMMA OutageNext ==
    ASSUME NetworkInv, [Next]_vars
    PROVE  OutageIsTrue' /\ (outage' => "login" \notin asked')
  <1>0. /\ OutageIsTrue /\ LoginInOrder /\ (outage => "login" \notin asked)
        /\ (on \in timedOut => status["connect"] = "Failed")
    BY DEF NetworkInv, GroupSession
  <1>1. CASE group = "none"
    BY <1>1, NoGroupNoOutage DEF OutageIsTrue
  <1>2. ASSUME group # "none", outage'
        PROVE  on' \in timedOut' /\ (Ended' => status'["login"] = "Failed") /\ "login" \notin asked'
    <2>1. Outcomes /\ on' = on /\ (group' = group \/ Loading)
      BY <1>2, StatusStep, GroupStep
    <2>2. CASE outage
      <3>1. /\ on \in timedOut /\ status["connect"] = "Failed" /\ "login" \notin asked
            /\ (Ended => status["login"] = "Failed") /\ status["login"] # "none"
        BY <1>0, <2>2 DEF OutageIsTrue, LoginInOrder
      <3>2. on' \in timedOut' /\ "login" \notin asked'
        BY <2>1, <3>1 DEF Outcomes
      <3>3. ASSUME Ended' PROVE status'["login"] = "Failed"
        <4>1. CASE Ended
          BY <2>1, <3>1, <4>1 DEF Outcomes
        <4>2. CASE ~Ended
          <5>1. Loading /\ group' # "Finished"
            BY <2>1, <3>1, <3>3, <4>2 DEF Outcomes, Ended
          <5>2. QED
            BY <2>1, <3>1, <3>3, <5>1 DEF Outcomes, Ended
        <4>3. QED
          BY <4>1, <4>2
      <3>4. QED
        BY <3>2, <3>3
    <2>3. CASE ~outage
      BY <1>2, <2>1, <2>3 DEF Outcomes, Ended
    <2>4. QED
      BY <2>2, <2>3
  <1>3. QED
    BY <1>1, <1>2, NoGroupNoOutage DEF OutageIsTrue

\* Only the destructor ends the context.
LEMMA OnlyCloseCloses == ASSUME [Next]_vars, ~open' PROVE UNCHANGED vars \/ Close
  <1>1. CASE ~open
    BY <1>1, ClosedForEver
  <1>2. CASE open
    BY <1>2
       DEF Next, LoadActive, LoginNetwork, Pass, PassFinished, PassFailed, PassUpdate,
           ConnectTimeout, Answer, Answered, ConnectAnswer, LoginDone, AccountsDone, ViewsWanted,
           PlainDone, TaskError, TaskRetry, TorDone, NetworkUp, NetworkDown, AccountSession, User,
           EnsureSession, UserLogsIn, UserFails, EnsureAccount, vars, rest
  <1>3. QED
    BY <1>1, <1>2

\* A session is given back twice only after its connection timed out: the context
\* that ends gives back what it still lists, and that was not given back before.
LEMMA ReleasedNext ==
    ASSUME NetworkInv, [Next]_vars
    PROVE  ReleasedTwiceOnlyAfterTimeout'
  <1>0. /\ RegistryTypes /\ SessionsAccountedFor /\ ReleasedTwiceOnlyAfterTimeout
        /\ listed \subseteq 1 .. made
    BY TypeParts DEF NetworkInv, NewSessionsAreFresh
  <1>1. CASE open'
    <2> SUFFICES ASSUME NEW s \in Session
                 PROVE  garbage'[s] <= IF s \in timedOut' THEN 2 ELSE 1
      BY DEF ReleasedTwiceOnlyAfterTimeout
    <2>1. garbage'[s] \in Nat /\ s # None
      BY RegistryNext, SessionFacts DEF RegistryTypes
    <2>2. CASE s # on'
      BY <1>1, <2>2, GarbageNext
    <2>3. CASE s = on'
      <3> DEFINE late == IF Loading' /\ status'["login"] # "Failed" THEN 0 ELSE 1
      <3>1. garbage'[s] <= late + IF s \in timedOut' THEN 1 ELSE 0
        BY <1>1, <2>1, <2>3, GarbageNext
      <3>2. late \in {0, 1}
        OBVIOUS
      <3> HIDE DEF late
      <3>3. QED
        BY <2>1, <3>1, <3>2
    <2>4. QED
      BY <2>2, <2>3
  <1>2. CASE UNCHANGED vars
    BY <1>0, <1>2 DEF vars, registry, rest, ReleasedTwiceOnlyAfterTimeout
  <1>3. CASE Close
    <2>1. /\ garbage' = [s \in Session |-> garbage[s] + IF s \in listed THEN 1 ELSE 0]
          /\ timedOut' = timedOut
      BY <1>3 DEF Close
    <2>2. ASSUME NEW s \in Session PROVE garbage'[s] <= IF s \in timedOut' THEN 2 ELSE 1
      <3>1. garbage[s] \in Nat /\ garbage[s] <= IF s \in timedOut THEN 2 ELSE 1
        BY <1>0 DEF RegistryTypes, ReleasedTwiceOnlyAfterTimeout
      <3>2. s \in listed => garbage[s] = 0
        BY <1>0 DEF SessionsAccountedFor
      <3>3. CASE s \in listed
        BY <2>1, <3>2, <3>3
      <3>4. CASE s \notin listed
        BY <2>1, <3>1, <3>4
      <3>5. QED
        BY <3>3, <3>4
    <2>3. QED
      BY <2>2 DEF ReleasedTwiceOnlyAfterTimeout
  <1>4. QED
    BY <1>1, <1>2, <1>3, OnlyCloseCloses

-----------------------------------------------------------------------------
(* The theorems. *)

\* The wallet was opened with the network or with another one.
LEMMA InitInv == Init => NetworkInv
  <1> SUFFICES ASSUME Init PROVE NetworkInv
    OBVIOUS
  <1>1. PICK opened, up \in BOOLEAN :
            /\ mapped = IF opened THEN 1 ELSE None
            /\ made = IF opened THEN 1 ELSE 0
            /\ listed = IF opened THEN {1} ELSE {}
            /\ connected = IF opened /\ up THEN {1} ELSE {}
    BY DEF Init
  <1>2. /\ managed = listed /\ ready = listed /\ dialled = listed /\ known \in {FALSE, listed # {}}
        /\ garbage = [s \in Session |-> 0] /\ group = "none" /\ on = None
        /\ status = [k \in Kind |-> "none"] /\ asked = {} /\ alarm = FALSE /\ timedOut = {}
        /\ outage = FALSE /\ user = None /\ open = TRUE /\ drops = 0 /\ torReady \in BOOLEAN
        /\ unreached = FALSE
    BY DEF Init
  <1>3. 1 \in Session /\ None = 0 /\ None \notin Session /\ MaxSessions >= 1 /\ MaxSessions \in Nat
    BY BoundAssumption DEF Session, None
  <1>4. RegistryTypes /\ LinkTypes
    BY <1>1, <1>2, <1>3, BoundAssumption DEF RegistryTypes, LinkTypes
  <1>5. GroupTypes /\ RestTypes
    BY <1>2, <1>3 DEF GroupTypes, RestTypes, Statuses, InGroup
  <1>6. made \in {0, 1} /\ listed = 1 .. made /\ \A s \in Session : garbage[s] = 0
    <2>1. 1 .. 0 = {} /\ 1 .. 1 = {1}
      OBVIOUS
    <2>2. CASE opened
      BY <1>1, <1>2, <2>1, <2>2
    <2>3. CASE ~opened
      BY <1>1, <1>2, <2>1, <2>3
    <2>4. QED
      BY <2>2, <2>3
  <1>7. SessionsAccountedFor /\ NewSessionsAreFresh
    <2>1. 1 .. made \subseteq Session
      BY <1>3, <1>6 DEF Session
    <2>2. mapped # None => mapped \in listed
      BY <1>1, <1>3
    <2>3. on <= made
      BY <1>2, <1>3, <1>6
    <2>4. QED
      BY <1>2, <1>6, <2>1, <2>2, <2>3 DEF SessionsAccountedFor, NewSessionsAreFresh
  <1>8. ReleasedTwiceOnlyAfterTimeout /\ UserKeepsSession /\ OutageIsTrue
    BY <1>2, <1>6 DEF ReleasedTwiceOnlyAfterTimeout, UserKeepsSession, OutageIsTrue
  <1>9. LoggedInSessionsAreMapped
    BY <1>1, <1>2 DEF LoggedInSessionsAreMapped
  <1>10. LoginInOrder
    BY <1>2 DEF LoginInOrder, InGroup, Kind, LoginTasks
  <1>11. GroupSession
    BY <1>1, <1>2, <1>3, <1>6 DEF GroupSession, Loading, Ended
  <1>12. DialledInOrder
    BY <1>1, <1>2, <1>6 DEF DialledInOrder
  <1>13. QED
    BY <1>4, <1>5, <1>7, <1>8, <1>9, <1>10, <1>11, <1>12, TypeParts DEF NetworkInv

\* Only a ConnectTask that starts and the user dial, and a group starts with a session
\* that is new or was logged in.
LEMMA DialledNext ==
    ASSUME NetworkInv, [Next]_vars
    PROVE  DialledInOrder'
  <1> USE DEF links, tasks, rest
  <1>0. RegistryTypes /\ LinkTypes /\ GroupTypes /\ LoginInOrder /\ DialledInOrder /\ NewSessionsAreFresh
    BY TypeParts DEF NetworkInv
  <1>1. /\ RegistryTypes' /\ made <= made' /\ 1 .. made \subseteq 1 .. made'
        /\ (mapped' # None => mapped' \in 1 .. made')
    <2>1. RegistryTypes' /\ made <= made' /\ listed' \subseteq 1 .. made' /\ SessionsAccountedFor'
      BY RegistryNext
    <2>2. made \in Nat /\ made' \in Nat
      BY <1>0, <2>1 DEF RegistryTypes
    <2>3. 1 .. made \subseteq 1 .. made'
      BY <2>1, <2>2
    <2>4. mapped' # None => mapped' \in listed'
      BY <2>1 DEF SessionsAccountedFor
    <2>5. QED
      BY <2>1, <2>3, <2>4
  <1>2. ready \subseteq ready'
    BY ReadyStep
  <1>3. {"connect", "login"} \subseteq Kind
    BY DEF Kind, LoginTasks
  <1>4. ASSUME connected' \subseteq dialled', dialled' = dialled, on' = on,
               status'["connect"] = "Ready" => status["connect"] = "Ready",
               group' = "none" => group = "none"
        PROVE  DialledInOrder'
    BY <1>0, <1>1, <1>2, <1>4 DEF DialledInOrder
  <1>5. ASSUME UNCHANGED <<status, group, on, dialled, connected>> PROVE DialledInOrder'
    BY <1>0, <1>4, <1>5 DEF DialledInOrder
  <1>6. CASE LoadActive
    <2>1. group = "none" /\ group' = "Ready" /\ UNCHANGED <<dialled, connected>>
      BY <1>6 DEF LoadActive
    <2>2. status'["connect"] # "Ready"
      <3>1. PICK K \in LoadTasks : Enter(status, K)
        BY <1>6 DEF LoadActive
      <3>2. K \in SUBSET Kind /\ "connect" \notin K /\ status \in [Kind -> Statuses]
        BY <1>0, LoadTasksFacts DEF GroupTypes, LoginTasks
      <3>3. status["connect"] = "none"
        BY <1>0, <1>3, <2>1 DEF LoginInOrder, InGroup
      <3>4. status'["connect"] = "none"
        BY <1>0, <1>3, <3>1, <3>2, <3>3, EnterFacts
      <3>5. QED
        BY <3>4
    <2>3. QED
      BY <1>0, <1>1, <2>1, <2>2 DEF DialledInOrder
  <1>7. CASE LoginNetwork
    <2>1. /\ group = "none" /\ group' = "Ready" /\ on' = mapped' /\ GetOrCreateSession
          /\ UNCHANGED <<dialled, connected, ready>>
      BY <1>7 DEF LoginNetwork
    <2>2. on' \in dialled => on' \in ready
      BY <1>0, <2>1 DEF DialledInOrder
    <2>3. QED
      BY <1>0, <1>1, <2>1, <2>2 DEF DialledInOrder
  <1>8. CASE PassFinished \/ PassFailed
    <2>1. UNCHANGED <<dialled, connected, on>> /\ group' # "none"
      BY <1>8 DEF PassFinished, PassFailed
    <2>2. status'["connect"] \in {status["connect"], "Failed"}
      <3>1. CASE PassFinished
        BY <3>1 DEF PassFinished
      <3>2. CASE PassFailed
        BY <1>0, <1>3, <3>2, FailTasksFacts DEF PassFailed, InGroup
      <3>3. QED
        BY <1>8, <3>1, <3>2
    <2>3. QED
      BY <1>0, <1>4, <2>1, <2>2 DEF DialledInOrder
  <1>9. CASE PassUpdate
    <2>1. PICK done, begun \in SUBSET Kind : PassOver(done, begun)
      BY <1>9, PassUpdateFacts
    <2>2. /\ on' = on /\ connected' = connected /\ ready' = ready /\ group' # "none" /\ on \in Session
          /\ dialled' = IF "connect" \in begun THEN dialled \cup {on} ELSE dialled
      BY <1>0, <2>1 DEF PassOver, Loading, GroupTypes
    <2>3. on \in 1 .. made
      BY <1>0, <2>2 DEF NewSessionsAreFresh, RegistryTypes, Session
    <2>4. /\ "connect" \in begun => status'["connect"] # "Ready"
          /\ status'["connect"] = "Ready" => status["connect"] = "Ready"
      BY <1>3, <2>1 DEF PassOver, LoginTasks
    <2>5. QED
      BY <1>0, <1>1, <2>2, <2>3, <2>4 DEF DialledInOrder
  <1>10. ASSUME NEW timeout \in BOOLEAN, NEW k \in Kind, FailTasks({k}, timeout)
         PROVE  status'["connect"] \in {status["connect"], "Failed"}
    BY <1>0, <1>3, <1>10, FailTasksFacts
  <1>11. CASE ConnectTimeout
    <2>1. status'["connect"] \in {status["connect"], "Failed"} /\ UNCHANGED <<dialled, connected, on, group>>
      BY <1>3, <1>10, <1>11 DEF ConnectTimeout
    <2>2. QED
      BY <1>0, <1>4, <2>1 DEF DialledInOrder
  <1>12. ASSUME NEW k \in Kind, Answer(k) PROVE DialledInOrder'
    <2>1. UNCHANGED <<dialled, on, group>> /\ connected' \subseteq connected
      BY <1>12 DEF Answer, ConnectAnswer, LoginDone, AccountsDone, ViewsWanted, PlainDone, TaskError,
                   TaskRetry
    <2>2. status'["connect"] = "Ready" => status["connect"] = "Ready"
      <3>1. CASE ConnectAnswer
        BY <1>0, <1>3, <1>10, <3>1 DEF ConnectAnswer, GroupTypes
      <3>2. CASE LoginDone
        <4>1. PICK K \in LoadTasks : Enter([status EXCEPT !["login"] = "Finished"], K)
          BY <3>2 DEF LoginDone
        <4>2. K \in SUBSET Kind /\ "connect" \notin K
          BY LoadTasksFacts DEF LoginTasks
        <4>3. [status EXCEPT !["login"] = "Finished"] \in [Kind -> Statuses]
          BY <1>0 DEF GroupTypes, Statuses
        <4>4. QED
          BY <1>0, <1>3, <4>1, <4>2, <4>3, EnterFacts
      <3>3. CASE TaskError(k)
        BY <1>10, <1>12, <3>3 DEF TaskError
      <3>4. CASE ~ConnectAnswer /\ ~LoginDone /\ ~TaskError(k)
        BY <1>3, <1>12, <3>4, OtherAnswers DEF LoginTasks
      <3>5. QED
        BY <3>1, <3>2, <3>3, <3>4
    <2>3. QED
      BY <1>0, <1>4, <2>1, <2>2 DEF DialledInOrder
  <1>13. CASE EnsureSession
    <2>1. /\ GetOrCreateSession /\ dialled' = dialled \cup {mapped'} /\ Ended
          /\ UNCHANGED <<connected, status, group, on>>
      BY <1>13 DEF EnsureSession
    <2>2. mapped' \in 1 .. made'
      BY <1>0, <1>1, <2>1, GetOrCreateFacts, SessionFacts
    <2>3. status["connect"] # "Ready" /\ group # "none"
      BY <1>0, <2>1 DEF LoginInOrder, Ended, Loading
    <2>4. QED
      BY <1>0, <1>1, <2>1, <2>2, <2>3 DEF DialledInOrder
  <1>14. ASSUME NEW s \in Session, NetworkUp(s) \/ NetworkDown(s) PROVE DialledInOrder'
    <2>1. UNCHANGED <<dialled, status, group, on>> /\ connected' \subseteq dialled'
      BY <1>0, <1>14 DEF NetworkUp, NetworkDown, DialledInOrder
    <2>2. QED
      BY <1>4, <2>1
  <1>15. QED
    BY <1>5, <1>6, <1>7, <1>8, <1>9, <1>11, <1>12, <1>13, <1>14
       DEF Next, Pass, TorDone, AccountSession, User, UserLogsIn, UserFails, EnsureAccount, Close, vars

\* What the invariant says of the session of the group, after one step.
LEMMA GroupSessionNext ==
    ASSUME NetworkInv, [Next]_vars
    PROVE  GroupSession'
  <1>1. /\ on' \in listed' => mapped' = on'
        /\ user' # None => Ended'
        /\ on' \in timedOut' => status'["connect"] = "Failed"
        /\ outage' => "login" \notin asked'
    BY MappedNext, UserNext, TimedOutNext, OutageNext
  <1>2. /\ open' /\ group' = "none" => ready' \subseteq {mapped'}
        /\ Loading' => ready' \subseteq {on'}
        /\ Loading' /\ status'["login"] \in {"none", "Finished"} => on' \in ready'
        /\ open' /\ group' = "Finished" => on' \in listed' \cap ready'
    BY GroupReadyNext
  <1>3. /\ open' => \A s \in Session : s # on' => garbage'[s] = 0
        /\ open' /\ on' # None =>
               garbage'[on'] <= (IF Loading' /\ status'["login"] # "Failed" THEN 0 ELSE 1)
                                + (IF on' \in timedOut' THEN 1 ELSE 0)
    BY GarbageNext
  <1>4. QED
    BY <1>1, <1>2, <1>3 DEF GroupSession

\* The invariant is inductive.
LEMMA NextInv == NetworkInv /\ [Next]_vars => NetworkInv'
  <1> SUFFICES ASSUME NetworkInv, [Next]_vars PROVE NetworkInv'
    OBVIOUS
  <1>1. TypeOK'
    BY TypePartsNext, RegistryNext, LinkNext, GroupNext, RestNext
  <1>2. SessionsAccountedFor' /\ ReleasedTwiceOnlyAfterTimeout'
    BY RegistryNext, ReleasedNext
  <1>3. UserKeepsSession' /\ LoggedInSessionsAreMapped' /\ OutageIsTrue'
    BY UserNext, MappedNext, OutageNext
  <1>4. LoginInOrder' /\ NewSessionsAreFresh' /\ GroupSession' /\ DialledInOrder'
    BY LoginNext, FreshNext, GroupSessionNext, DialledNext
  <1>5. QED
    BY <1>1, <1>2, <1>3, <1>4 DEF NetworkInv

\* The inductive invariant holds of a network for any number of sessions made for it
\* and of connections lost (Context, SessionManager, LoadController,
\* CreateAccountController).
THEOREM NetworkCorrect == Spec => []NetworkInv
  <1>1. QED
    BY InitInv, NextInv, PTL DEF Spec

\* Every variable keeps its type; only tasks of the group ask GDK.
THEOREM NetworkTypes == Spec => []TypeOK
  <1>1. NetworkInv => TypeOK
    BY DEF NetworkInv
  <1>2. QED
    BY <1>1, NetworkCorrect, PTL

\* Context::getOrCreateSession, Context::releaseSession and ~Context keep the map, the
\* list and the manager's list together, and what leaves them enters the garbage.
THEOREM NetworkAccounts == Spec => []SessionsAccountedFor
  <1>1. NetworkInv => SessionsAccountedFor
    BY DEF NetworkInv
  <1>2. QED
    BY <1>1, NetworkCorrect, PTL

\* Only the two handlers of a connection that timed out give a session back twice.
THEOREM NetworkReleases == Spec => []ReleasedTwiceOnlyAfterTimeout
  <1>1. NetworkInv => ReleasedTwiceOnlyAfterTimeout
    BY DEF NetworkInv
  <1>2. QED
    BY <1>1, NetworkCorrect, PTL

\* A network LoadController loaded keeps its session, mapped and logged in.
THEOREM NetworkStaysUsable == Spec => []LoadedNetworkStaysUsable
  <1>1. NetworkInv => LoadedNetworkStaysUsable
    BY DEF NetworkInv, GroupSession, LoadedNetworkStaysUsable
  <1>2. QED
    BY <1>1, NetworkCorrect, PTL

\* Nothing takes away the session CreateAccountController works on.
THEOREM NetworkKeepsUser == Spec => []UserKeepsSession
  <1>1. NetworkInv => UserKeepsSession
    BY DEF NetworkInv
  <1>2. QED
    BY <1>1, NetworkCorrect, PTL

\* The sessions LoadController::load finds active are the ones the map leads to.
THEOREM NetworkMapsLogins == Spec => []LoggedInSessionsAreMapped
  <1>1. NetworkInv => LoggedInSessionsAreMapped
    BY DEF NetworkInv
  <1>2. QED
    BY <1>1, NetworkCorrect, PTL

\* The outage notification of loginNetwork's handlers names a network whose
\* connection timed out and whose login did not succeed.
THEOREM NetworkOutages == Spec => []OutageIsTrue
  <1>1. NetworkInv => OutageIsTrue
    BY DEF NetworkInv
  <1>2. QED
    BY <1>1, NetworkCorrect, PTL
================================================================================
