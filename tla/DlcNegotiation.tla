---------------------------- MODULE DlcNegotiation ----------------------------
(***************************************************************************)
(* DLCStateMachine of src/src/dlc/dlc_state_machine.cpp: the wallet's side   *)
(* of negotiating a contract with the coordinator, for several orders at a   *)
(* time.  Every request is an HTTP call of DLCCoordinatorClient; HttpManager *)
(* runs them one after the other, so what succeeds is the oldest call, but a *)
(* drain of its queue fails others while that one runs.  A failed call is    *)
(* reported without the order it was for, and no handler looks at the state  *)
(* an answer finds its order in.                                             *)
(*                                                                           *)
(* The wallet that tracks orders and signs, other users of the client and    *)
(* the coordinator are external.  Each order has a contract of its own.      *)
(***************************************************************************)
EXTENDS Naturals, Sequences, SequencesExt

CONSTANTS
    Order,       \* order ids; each order's dlc_id stands for its contract
    Taker,       \* orders that are tracked with pending_match_accept
    MaxRetries,  \* m_max_retries
    Others,      \* other users of the client may query contracts
    MaxCalls     \* bound: no call is started while so many are under way

ASSUME DlcAssumption ==
    /\ Taker \subseteq Order
    /\ MaxRetries \in Nat
    /\ Others \in BOOLEAN
    /\ MaxCalls \in Nat \ {0}

TakerStates == {"TakerAwaitingAcceptContext", "TakerSigningAccept",
                "TakerSubmittingAccept", "TakerAcceptSubmitted"}
MakerStates == {"MakerAwaitingSignContext", "MakerSigningSign",
                "MakerSubmittingSign", "MakerSignSubmitted"}
OperationState == {"Idle", "DLCSignedAwaitingFunding", "DLCFunded", "DLCSettled", "Error"}
                    \cup TakerStates \cup MakerStates

VARIABLES
    tracked,   \* keys of m_operations
    state,     \* state[o]: OrderOperation::state
    context,   \* orders with an accept_context
    retries,   \* m_retry_counts
    calls,     \* HTTP calls under way, oldest first: [call, order]
    toSign     \* signatures the wallet has been asked for: <<role, order>>

vars == <<tracked, state, context, retries, calls, toSign>>

Call(name, o) == [call |-> name, order |-> o]

\* Calls are started as long as the bound allows.
Request(new) ==
    /\ Len(calls) < MaxCalls
    /\ calls' = calls \o new

SetState(o, s) == state' = IF o \in tracked THEN [state EXCEPT ![o] = s] ELSE state

-----------------------------------------------------------------------------
(* The wallet. *)

\* track_order: an order that is tracked already starts again.
TrackOrder(o) ==
    /\ tracked' = tracked \cup {o}
    /\ context' = context \ {o}
    /\ IF o \in Taker
       THEN /\ state' = [state EXCEPT ![o] = "TakerAwaitingAcceptContext"]
            /\ Request(<<Call("get_accept_context", o)>>)
       ELSE /\ state' = [state EXCEPT ![o] = "Idle"]
            /\ UNCHANGED calls
    /\ UNCHANGED <<retries, toSign>>

\* untrack_order.
UntrackOrder(o) ==
    /\ o \in tracked
    /\ tracked' = tracked \ {o}
    /\ context' = context \ {o}
    /\ state' = [state EXCEPT ![o] = "Idle"]
    /\ retries' = [retries EXCEPT ![o] = 0]
    /\ UNCHANGED <<calls, toSign>>

\* A variant that does not ask for a context.
SubmitTakerAnyway(o) ==
    /\ <<"taker", o>> \in toSign
    /\ toSign' = toSign \ {<<"taker", o>>}
    /\ IF o \in tracked
       THEN /\ SetState(o, "TakerSubmittingAccept")
            /\ Request(<<Call("submit_accept", o)>>)
       ELSE UNCHANGED <<state, calls>>
    /\ UNCHANGED <<tracked, context, retries>>

\* submit_taker_accept_signatures, once the wallet has signed; the order must be
\* tracked and have a context, in whatever state it is.
SubmitTakerSignatures(o) ==
    /\ <<"taker", o>> \in toSign
    /\ toSign' = toSign \ {<<"taker", o>>}
    /\ IF o \in tracked /\ o \in context
       THEN /\ SetState(o, "TakerSubmittingAccept")
            /\ Request(<<Call("submit_accept", o)>>)
       ELSE UNCHANGED <<state, calls>>
    /\ UNCHANGED <<tracked, context, retries>>

\* submit_maker_sign_signatures.
SubmitMakerSignatures(o) ==
    /\ <<"maker", o>> \in toSign
    /\ toSign' = toSign \ {<<"maker", o>>}
    /\ IF o \in tracked
       THEN /\ SetState(o, "MakerSubmittingSign")
            /\ Request(<<Call("submit_sign", o)>>)
       ELSE UNCHANGED <<state, calls>>
    /\ UNCHANGED <<tracked, context, retries>>

\* Another user of the same client queries a contract.
OtherQuery(o) ==
    /\ Others
    /\ \E name \in {"get_sign_context", "get_dlc"} : Request(<<Call(name, o)>>)
    /\ UNCHANGED <<tracked, state, context, retries, toSign>>

-----------------------------------------------------------------------------
(* on_poll_timer. *)

\* A variant that polls for makers and signed contracts only.
PolledWithoutTakers == [s \in {"MakerAwaitingSignContext", "DLCSignedAwaitingFunding"} |->
    IF s = "MakerAwaitingSignContext" THEN "get_sign_context" ELSE "get_dlc"]

\* The call a poll makes for an order in state s.
Polled == [s \in {"TakerAwaitingAcceptContext", "MakerAwaitingSignContext",
                  "DLCSignedAwaitingFunding"} |->
    CASE s = "TakerAwaitingAcceptContext" -> "get_accept_context"
      [] s = "MakerAwaitingSignContext" -> "get_sign_context"
      [] s = "DLCSignedAwaitingFunding" -> "get_dlc"]

PollTimer ==
    LET due == {o \in tracked : state[o] \in DOMAIN Polled} IN
    /\ due # {}
    /\ Request(SetToSeq({Call(Polled[state[o]], o) : o \in due}))
    /\ UNCHANGED <<tracked, state, context, retries, toSign>>

-----------------------------------------------------------------------------
(* Answers: the oldest call succeeds or fails, the others may fail before it. *)

Answered(name) ==
    /\ calls # <<>> /\ Head(calls).call = name
    /\ calls' = Tail(calls)

\* HttpManager::drain fails what is queued in one go; one at a time allows more.
Failed(name) ==
    \E i \in DOMAIN calls :
        /\ calls[i].call = name
        /\ calls' = RemoveAt(calls, i)

\* on_accept_context_ready.
AcceptContextReady ==
    /\ Answered("get_accept_context")
    /\ LET o == Head(calls).order IN
       IF o \in tracked
       THEN /\ context' = context \cup {o}
            /\ SetState(o, "TakerSigningAccept")
            /\ toSign' = toSign \cup {<<"taker", o>>}
       ELSE UNCHANGED <<context, state, toSign>>
    /\ UNCHANGED <<tracked, retries>>

\* on_sign_context_ready.
SignContextReady ==
    /\ Answered("get_sign_context")
    /\ LET o == Head(calls).order IN
       IF o \in tracked
       THEN /\ SetState(o, "MakerSigningSign")
            /\ toSign' = toSign \cup {<<"maker", o>>}
       ELSE UNCHANGED <<state, toSign>>
    /\ UNCHANGED <<tracked, context, retries>>

\* on_accept_context_failed, on_sign_context_failed: every order that waits for
\* a context of the kind fails.
ContextFailed(name, waiting) ==
    /\ Failed(name)
    /\ state' = [o \in Order |-> IF o \in tracked /\ state[o] = waiting THEN "Error"
                                 ELSE state[o]]
    /\ UNCHANGED <<tracked, context, retries, toSign>>

\* on_accept_submitted.
AcceptSubmitted ==
    /\ Answered("submit_accept")
    /\ SetState(Head(calls).order, "TakerAcceptSubmitted")
    /\ UNCHANGED <<tracked, context, retries, toSign>>

\* on_sign_submitted; the coordinator may have broadcast the funding at once.
SignSubmitted ==
    /\ Answered("submit_sign")
    /\ \E s \in {"MakerSignSubmitted", "DLCFunded"} : SetState(Head(calls).order, s)
    /\ UNCHANGED <<tracked, context, retries, toSign>>

\* A variant that counts one retry too many.
SubmitFailedOnceMore(name, submitting, again) ==
    LET hit(o) == o \in tracked /\ state[o] = submitting
        left(o) == retries[o] <= MaxRetries
    IN  /\ Failed(name)
        /\ state' = [o \in Order |-> IF ~hit(o) THEN state[o]
                                     ELSE IF left(o) THEN again ELSE "Error"]
        /\ retries' = [o \in Order |-> IF hit(o) /\ left(o) THEN retries[o] + 1
                                       ELSE retries[o]]
        /\ UNCHANGED <<tracked, context, toSign>>

\* on_accept_submit_failed, on_sign_submit_failed: every order that submits
\* starts over, or fails when it has no retry left.
SubmitFailed(name, submitting, again) ==
    LET hit(o) == o \in tracked /\ state[o] = submitting
        left(o) == retries[o] < MaxRetries
    IN  /\ Failed(name)
        /\ state' = [o \in Order |-> IF ~hit(o) THEN state[o]
                                     ELSE IF left(o) THEN again ELSE "Error"]
        /\ retries' = [o \in Order |-> IF hit(o) /\ left(o) THEN retries[o] + 1
                                       ELSE retries[o]]
        /\ UNCHANGED <<tracked, context, toSign>>

\* on_dlc_ready, with whatever status the coordinator reports.
DlcReady ==
    /\ Answered("get_dlc")
    /\ \/ UNCHANGED state
       \/ \E s \in {"DLCSignedAwaitingFunding", "DLCFunded", "DLCSettled"} :
             SetState(Head(calls).order, s)
    /\ UNCHANGED <<tracked, context, retries, toSign>>

\* on_dlc_failed only logs.
DlcFailed ==
    /\ Failed("get_dlc")
    /\ UNCHANGED <<tracked, state, context, retries, toSign>>

Answer ==
    \/ AcceptContextReady \/ SignContextReady
    \/ ContextFailed("get_accept_context", "TakerAwaitingAcceptContext")
    \/ ContextFailed("get_sign_context", "MakerAwaitingSignContext")
    \/ AcceptSubmitted \/ SignSubmitted
    \/ SubmitFailed("submit_accept", "TakerSubmittingAccept", "TakerAwaitingAcceptContext")
    \/ SubmitFailed("submit_sign", "MakerSubmittingSign", "MakerAwaitingSignContext")
    \/ DlcReady \/ DlcFailed

-----------------------------------------------------------------------------
Init ==
    /\ tracked = {}
    /\ state = [o \in Order |-> "Idle"]
    /\ context = {}
    /\ retries = [o \in Order |-> 0]
    /\ calls = <<>>
    /\ toSign = {}

Next ==
    \/ \E o \in Order :
          \/ TrackOrder(o) \/ UntrackOrder(o) \/ OtherQuery(o)
          \/ SubmitTakerSignatures(o) \/ SubmitMakerSignatures(o)
    \/ PollTimer
    \/ Answer

Spec == Init /\ [][Next]_vars

\* The call that runs ends (HttpRequestActivity has a timeout), polling has been
\* started, and the wallet signs what it is asked to.
FairSpec ==
    /\ Spec
    /\ WF_vars(Answer /\ calls' = Tail(calls))
    /\ SF_vars(PollTimer)
    /\ \A o \in Order : SF_vars(SubmitTakerSignatures(o) \/ SubmitMakerSignatures(o))
-----------------------------------------------------------------------------
\* Every variable holds what the code can put there; no order is tried more
\* often than m_max_retries allows, whichever orders the failures were for.
TypeOK ==
    /\ tracked \subseteq Order
    /\ state \in [Order -> OperationState]
    /\ context \subseteq tracked
    /\ retries \in [Order -> 0..MaxRetries]
    /\ calls \in Seq([call : {"get_accept_context", "get_sign_context", "submit_accept",
                              "submit_sign", "get_dlc"}, order : Order])
    /\ toSign \subseteq {"taker", "maker"} \X Order

\* A taker submits only while the context its order was matched with is at hand,
\* though signatures may come back after the order was dropped or tracked anew
\* (the accept_context check of submit_taker_accept_signatures).
SubmitsOnlyWithContext ==
    \A o \in tracked : state[o] = "TakerSubmittingAccept" => o \in context

\* The inductive invariant; a poll makes finitely many calls.
DlcInv == TypeOK /\ SubmitsOnlyWithContext /\ IsFiniteSet(tracked)

\* A taker that waits for its accept context gets an answer, good or bad, also
\* after a failed submission has sent it back to wait (on_poll_timer asks again).
TakerMovesOn ==
    \A o \in Order : (o \in tracked /\ state[o] = "TakerAwaitingAcceptContext") ~>
                     (o \notin tracked \/ state[o] # "TakerAwaitingAcceptContext")

-----------------------------------------------------------------------------
(* What dlc_state_machine.h says and the code does not do. *)

\* "Terminal ... Error": an order that failed stays so until the wallet tracks it
\* anew or drops it.
ErrorIsTerminal ==
    [][\A o \in tracked : state[o] = "Error" =>
          state'[o] = "Error" \/ TrackOrder(o) \/ UntrackOrder(o)]_vars

\* "Maker: pending_fill -> request sign context": the sign context of an order that
\* is tracked for the maker is asked for.
MakerRequestsSignContext ==
    \A o \in Order \ Taker : (o \in tracked /\ state[o] = "Idle") ~>
        (o \notin tracked \/ Call("get_sign_context", o) \in Range(calls))
=============================================================================
