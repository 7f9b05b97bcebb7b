------------------------- MODULE DlcNegotiationProofs -------------------------
(* The safety properties of DlcNegotiation hold for any orders, takers and      *)
(* makers, any number of retries and of calls under way.  DlcInv is inductive.  *)
EXTENDS DlcNegotiation, FiniteSetTheorems, SequenceTheorems, TLAPS

CallNames == {"get_accept_context", "get_sign_context", "submit_accept", "submit_sign",
              "get_dlc"}
Calls == [call : CallNames, order : Order]

\* The elements of a finite set in some order are a sequence of them.
LEMMA SetToSeqType ==
    ASSUME NEW S, IsFiniteSet(S)
    PROVE  SetToSeq(S) \in Seq(S)
  <1> DEFINE n == Cardinality(S)
             P(f) == f \in [1..n -> S] /\ IsInjective(f)
  <1>1. n \in Nat /\ \E f : P(f)
    BY FS_CardinalityType DEF ExistsBijection, Bijection, Injection
  <1>2. SetToSeq(S) = CHOOSE f \in [1..n -> S] : IsInjective(f)
    BY DEF SetToSeq
  <1> HIDE DEF n
  <1>3. SetToSeq(S) \in [1..n -> S]
    BY <1>1, <1>2
  <1>4. QED
    BY <1>1, <1>3, SeqDef

\* So are those of a set of calls, one for each order.
LEMMA PollCalls ==
    ASSUME NEW due \in SUBSET Order, IsFiniteSet(due),
           NEW F \in [due -> CallNames]
    PROVE  SetToSeq({Call(F[o], o) : o \in due}) \in Seq(Calls)
  <1> DEFINE S == {Call(F[o], o) : o \in due}
             f == [o \in due |-> Call(F[o], o)]
  <1>1. f \in Bijection(due, S)
    <2>1. f \in [due -> S] /\ \A s \in S : \E o \in due : f[o] = s
      OBVIOUS
    <2>2. IsInjective(f)
      BY DEF IsInjective, Call
    <2>3. QED
      BY <2>1, <2>2 DEF Bijection, Injection, Surjection
  <1>2. IsFiniteSet(S)
    BY <1>1, FS_Bijection DEF ExistsBijection
  <1>3. S \subseteq Calls
    BY DEF Calls, Call
  <1> HIDE DEF S
  <1>4. SetToSeq(S) \in Seq(S)
    BY <1>2, SetToSeqType
  <1>5. QED
    BY <1>3, <1>4 DEF S

-----------------------------------------------------------------------------
\* Requests are appended, successes are taken from the front, failures from anywhere.
LEMMA CallTypes ==
    ASSUME calls \in Seq(Calls)
    PROVE  /\ \A new \in Seq(Calls) : Request(new) => calls' \in Seq(Calls)
           /\ \A name : Answered(name) => calls' \in Seq(Calls) /\ Head(calls).order \in Order
           /\ \A name : Failed(name) => calls' \in Seq(Calls)
           /\ \A name \in CallNames, o \in Order : <<Call(name, o)>> \in Seq(Calls)
  <1>1. ASSUME NEW new \in Seq(Calls), Request(new) PROVE calls' \in Seq(Calls)
    BY <1>1, ConcatProperties DEF Request
  <1>2. ASSUME NEW name, Answered(name)
        PROVE  calls' \in Seq(Calls) /\ Head(calls).order \in Order
    <2>1. Head(calls) \in Calls /\ calls' \in Seq(Calls)
      BY <1>2, HeadTailProperties DEF Answered
    <2>2. QED
      BY <2>1 DEF Calls
  <1>3. ASSUME NEW name \in CallNames, NEW o \in Order
        PROVE  <<Call(name, o)>> \in Seq(Calls)
    BY DEF Call, Calls
  <1>4. ASSUME NEW name, Failed(name) PROVE calls' \in Seq(Calls)
    <2>1. PICK i \in DOMAIN calls : calls' = RemoveAt(calls, i)
      BY <1>4 DEF Failed
    <2>2. i \in 1 .. Len(calls) /\ Len(calls) \in Nat
      BY <2>1
    <2>3. SubSeq(calls, 1, i - 1) \in Seq(Calls) /\ SubSeq(calls, i + 1, Len(calls)) \in Seq(Calls)
      BY <2>2, SubSeqProperties
    <2>4. QED
      BY <2>1, <2>3, ConcatProperties DEF RemoveAt
  <1>5. QED
    BY <1>1, <1>2, <1>3, <1>4

\* A new state is one of the code's, and leaves an order that submits its context.
LEMMA SetStateKeeps ==
    ASSUME DlcInv, NEW o \in Order, NEW s \in OperationState, SetState(o, s),
           s = "TakerSubmittingAccept" => o \in context
    PROVE  /\ state' \in [Order -> OperationState]
           /\ \A p \in tracked : state'[p] = "TakerSubmittingAccept" => p \in context
  BY DEF DlcInv, TypeOK, SubmitsOnlyWithContext, SetState

-----------------------------------------------------------------------------
LEMMA InitInv == Init => DlcInv
  <1> SUFFICES ASSUME Init PROVE DlcInv
    OBVIOUS
  <1>1. retries \in [Order -> 0..MaxRetries]
    BY DlcAssumption DEF Init
  <1>2. calls \in Seq(Calls) /\ IsFiniteSet(tracked)
    BY FS_EmptySet DEF Init
  <1>3. QED
    BY <1>1, <1>2 DEF Init, DlcInv, TypeOK, SubmitsOnlyWithContext, OperationState, Calls, CallNames

LEMMA TrackInv == \A o \in Order : DlcInv /\ TrackOrder(o) => DlcInv'
  <1> SUFFICES ASSUME NEW o \in Order, DlcInv, TrackOrder(o) PROVE DlcInv'
    OBVIOUS
  <1> USE DEF DlcInv, TrackOrder
  <1>1. calls' \in Seq(Calls)
    <2>1. calls \in Seq(Calls)
      BY DEF TypeOK, Calls, CallNames
    <2>2. QED
      BY <2>1, CallTypes DEF CallNames
  <1>2. IsFiniteSet(tracked')
    BY FS_AddElement
  <1>3. state' \in [Order -> OperationState]
    BY DEF TypeOK, OperationState, TakerStates
  <1>4. SubmitsOnlyWithContext'
    BY DEF SubmitsOnlyWithContext, TypeOK
  <1>5. QED
    BY <1>1, <1>2, <1>3, <1>4 DEF TypeOK, Calls, CallNames

LEMMA UntrackInv == \A o \in Order : DlcInv /\ UntrackOrder(o) => DlcInv'
  <1> SUFFICES ASSUME NEW o \in Order, DlcInv, UntrackOrder(o) PROVE DlcInv'
    OBVIOUS
  <1> USE DEF DlcInv, UntrackOrder
  <1>1. IsFiniteSet(tracked')
    BY FS_RemoveElement
  <1>2. state' \in [Order -> OperationState] /\ retries' \in [Order -> 0..MaxRetries]
    BY DlcAssumption DEF TypeOK, OperationState
  <1>3. SubmitsOnlyWithContext'
    BY DEF SubmitsOnlyWithContext, TypeOK
  <1>4. QED
    BY <1>1, <1>2, <1>3 DEF TypeOK

\* Signatures are submitted for an order that has a context, or for a maker.
LEMMA SubmitInv ==
    \A o \in Order : DlcInv /\ (SubmitTakerSignatures(o) \/ SubmitMakerSignatures(o)) => DlcInv'
  <1> SUFFICES ASSUME NEW o \in Order, DlcInv,
                      SubmitTakerSignatures(o) \/ SubmitMakerSignatures(o)
               PROVE  DlcInv'
    OBVIOUS
  <1>1. calls \in Seq(Calls)
    BY DEF DlcInv, TypeOK, Calls, CallNames
  <1>2. calls' \in Seq(Calls)
    BY <1>1, CallTypes DEF SubmitTakerSignatures, SubmitMakerSignatures, CallNames
  <1>3. UNCHANGED <<tracked, context, retries>> /\ toSign' \subseteq toSign
    BY DEF SubmitTakerSignatures, SubmitMakerSignatures
  <1>4. \/ UNCHANGED state
        \/ SetState(o, "TakerSubmittingAccept") /\ o \in context
        \/ SetState(o, "MakerSubmittingSign")
    BY DEF SubmitTakerSignatures, SubmitMakerSignatures
  <1>5. /\ state' \in [Order -> OperationState]
        /\ \A p \in tracked : state'[p] = "TakerSubmittingAccept" => p \in context
    BY <1>4, SetStateKeeps
    DEF DlcInv, TypeOK, SubmitsOnlyWithContext, OperationState, TakerStates, MakerStates
  <1>6. QED
    BY <1>2, <1>3, <1>5 DEF DlcInv, TypeOK, SubmitsOnlyWithContext, Calls, CallNames

\* Calls that are made change nothing else.
LEMMA CallsInv == DlcInv /\ (PollTimer \/ \E o \in Order : OtherQuery(o)) => DlcInv'
  <1> SUFFICES ASSUME DlcInv, PollTimer \/ \E o \in Order : OtherQuery(o) PROVE DlcInv'
    OBVIOUS
  <1>1. calls \in Seq(Calls)
    BY DEF DlcInv, TypeOK, Calls, CallNames
  <1>2. UNCHANGED <<tracked, state, context, retries, toSign>>
    BY DEF PollTimer, OtherQuery
  <1>3. calls' \in Seq(Calls)
    <2>1. CASE PollTimer
      <3> DEFINE due == {o \in tracked : state[o] \in DOMAIN Polled}
                 F == [o \in due |-> Polled[state[o]]]
      <3>1. due \in SUBSET Order /\ IsFiniteSet(due)
        BY FS_Subset DEF DlcInv, TypeOK
      <3>2. F \in [due -> CallNames]
        BY DEF Polled, CallNames
      <3>3. {Call(F[o], o) : o \in due} = {Call(Polled[state[o]], o) : o \in due}
        OBVIOUS
      <3>4. Request(SetToSeq({Call(Polled[state[o]], o) : o \in due}))
        BY <2>1 DEF PollTimer
      <3> HIDE DEF due, F
      <3>5. SetToSeq({Call(F[o], o) : o \in due}) \in Seq(Calls)
        BY <3>1, <3>2, PollCalls
      <3>6. QED
        BY <1>1, <3>3, <3>4, <3>5, CallTypes
    <2>2. CASE \E o \in Order : OtherQuery(o)
      BY <1>1, <2>2, CallTypes DEF OtherQuery, CallNames
    <2>3. QED
      BY <2>1, <2>2
  <1>4. QED
    BY <1>2, <1>3 DEF DlcInv, TypeOK, SubmitsOnlyWithContext, Calls, CallNames

-----------------------------------------------------------------------------
(* Answers. *)

\* A context arrives for the order it was asked for, if that is still tracked.
LEMMA ContextInv == DlcInv /\ (AcceptContextReady \/ SignContextReady) => DlcInv'
  <1> SUFFICES ASSUME DlcInv, AcceptContextReady \/ SignContextReady PROVE DlcInv'
    OBVIOUS
  <1> DEFINE o == Head(calls).order
  <1>1. calls \in Seq(Calls)
    BY DEF DlcInv, TypeOK, Calls, CallNames
  <1>2. calls' \in Seq(Calls) /\ o \in Order
    BY <1>1, CallTypes DEF AcceptContextReady, SignContextReady
  <1>3. /\ UNCHANGED <<tracked, retries>>
        /\ \/ UNCHANGED <<context, state, toSign>>
           \/ /\ o \in tracked /\ context' = context \cup {o}
              /\ SetState(o, "TakerSigningAccept")
              /\ toSign' = toSign \cup {<<"taker", o>>}
           \/ /\ UNCHANGED context
              /\ SetState(o, "MakerSigningSign")
              /\ toSign' = toSign \cup {<<"maker", o>>}
    BY DEF AcceptContextReady, SignContextReady
  <1> HIDE DEF o
  <1>4. /\ state' \in [Order -> OperationState]
        /\ \A p \in tracked : state'[p] = "TakerSubmittingAccept" => p \in context
    BY <1>2, <1>3, SetStateKeeps
    DEF DlcInv, TypeOK, SubmitsOnlyWithContext, OperationState, TakerStates, MakerStates
  <1>5. context' \subseteq tracked /\ context \subseteq context'
        /\ toSign' \subseteq {"taker", "maker"} \X Order
    BY <1>2, <1>3 DEF DlcInv, TypeOK
  <1>6. QED
    BY <1>2, <1>3, <1>4, <1>5 DEF DlcInv, TypeOK, SubmitsOnlyWithContext, Calls, CallNames

\* A failure that names no order keeps the retries within m_max_retries for each.
LEMMA FailureInv ==
    ASSUME DlcInv, NEW name, NEW waiting, NEW again \in OperationState \ {"TakerSubmittingAccept"},
           ContextFailed(name, waiting) \/ SubmitFailed(name, waiting, again)
    PROVE  DlcInv'
  <1>1. calls \in Seq(Calls)
    BY DEF DlcInv, TypeOK, Calls, CallNames
  <1>2. calls' \in Seq(Calls) /\ UNCHANGED <<tracked, context, toSign>>
    BY <1>1, CallTypes DEF ContextFailed, SubmitFailed
  <1>3. /\ state' \in [Order -> OperationState]
        /\ \A p \in Order : state'[p] \in {state[p], again, "Error"}
    BY DEF ContextFailed, SubmitFailed, DlcInv, TypeOK, OperationState
  <1>4. retries' \in [Order -> 0..MaxRetries]
    BY DlcAssumption DEF ContextFailed, SubmitFailed, DlcInv, TypeOK
  <1>5. SubmitsOnlyWithContext'
    BY <1>2, <1>3 DEF DlcInv, TypeOK, SubmitsOnlyWithContext
  <1>6. QED
    BY <1>2, <1>3, <1>4, <1>5 DEF DlcInv, TypeOK, Calls, CallNames

\* What has been submitted, and what a contract has come to, moves its order on.
LEMMA ReportInv == DlcInv /\ (AcceptSubmitted \/ SignSubmitted \/ DlcReady \/ DlcFailed) => DlcInv'
  <1> SUFFICES ASSUME DlcInv, AcceptSubmitted \/ SignSubmitted \/ DlcReady \/ DlcFailed
               PROVE  DlcInv'
    OBVIOUS
  <1> DEFINE o == Head(calls).order
  <1>1. calls \in Seq(Calls)
    BY DEF DlcInv, TypeOK, Calls, CallNames
  <1>2. calls' \in Seq(Calls)
    BY <1>1, CallTypes DEF AcceptSubmitted, SignSubmitted, DlcReady, DlcFailed
  <1>3. (\E name : Answered(name)) => o \in Order
    BY <1>1, CallTypes
  <1>4. /\ UNCHANGED <<tracked, context, retries, toSign>>
        /\ \/ UNCHANGED state
           \/ /\ \E name : Answered(name)
              /\ \E s \in {"TakerAcceptSubmitted", "MakerSignSubmitted", "DLCSignedAwaitingFunding",
                           "DLCFunded", "DLCSettled"} : SetState(o, s)
    BY DEF AcceptSubmitted, SignSubmitted, DlcReady, DlcFailed
  <1> HIDE DEF o
  <1>5. /\ state' \in [Order -> OperationState]
        /\ \A p \in tracked : state'[p] = "TakerSubmittingAccept" => p \in context
    BY <1>3, <1>4, SetStateKeeps
    DEF DlcInv, TypeOK, SubmitsOnlyWithContext, OperationState, TakerStates, MakerStates
  <1>6. QED
    BY <1>2, <1>4, <1>5 DEF DlcInv, TypeOK, SubmitsOnlyWithContext, Calls, CallNames

LEMMA AnswerInv == DlcInv /\ Answer => DlcInv'
  <1> SUFFICES ASSUME DlcInv, Answer PROVE DlcInv'
    OBVIOUS
  <1>1. {"TakerAwaitingAcceptContext", "MakerAwaitingSignContext"} \subseteq
            OperationState \ {"TakerSubmittingAccept"}
    BY DEF OperationState, TakerStates, MakerStates
  <1>2. QED
    BY <1>1, ContextInv, FailureInv, ReportInv DEF Answer

-----------------------------------------------------------------------------
\* DlcInv holds in every state, through answers that come late, failures charged to
\* other orders and orders that are dropped and tracked anew.
THEOREM NegotiationCorrect == Spec => []DlcInv
  <1>1. DlcInv /\ Next => DlcInv'
    BY TrackInv, UntrackInv, SubmitInv, CallsInv, AnswerInv DEF Next
  <1>2. DlcInv /\ UNCHANGED vars => DlcInv'
    BY DEF vars, DlcInv, TypeOK, SubmitsOnlyWithContext
  <1>3. QED
    BY InitInv, <1>1, <1>2, PTL DEF Spec

\* No order is tried more often than m_max_retries allows, and every state is one
\* that dlc_state_machine.h lists.
THEOREM RetriesAreBounded == Spec => []TypeOK
  <1>1. DlcInv => TypeOK
    BY DEF DlcInv
  <1>2. QED
    BY NegotiationCorrect, <1>1, PTL

\* A taker submits only while it has the context its order was matched with.
THEOREM TakersHaveContext == Spec => []SubmitsOnlyWithContext
  <1>1. DlcInv => SubmitsOnlyWithContext
    BY DEF DlcInv
  <1>2. QED
    BY NegotiationCorrect, <1>1, PTL

=============================================================================
