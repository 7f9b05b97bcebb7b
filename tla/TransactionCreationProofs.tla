------------------------ MODULE TransactionCreationProofs -----------------------
(* What the page shows belongs to the inputs shown and answers keep what was      *)
(* entered, for any accounts, assets, addresses, links and number of changes.     *)
(* CreationInv is inductive; its clauses are proved apart.                        *)
EXTENDS TransactionCreation, SequenceTheorems, TLAPS

-----------------------------------------------------------------------------
(* The operators of the model. *)

\* Without an element that is not the last a queue ends as it did.
LEMMA RemovedEarlier ==
    ASSUME NEW S, NEW q \in Seq(S), NEW n \in 1..Len(q)
    PROVE  /\ RemoveAt(q, n) \in Seq(S)
           /\ n # Len(q) => /\ RemoveAt(q, n) # <<>>
                            /\ Last(RemoveAt(q, n)) = Last(q)
  <1> DEFINE a == SubSeq(q, 1, n - 1)
             b == SubSeq(q, n + 1, Len(q))
  <1>1. Len(q) \in Nat /\ n \in Nat /\ n >= 1 /\ n <= Len(q) /\ \A i \in 1..Len(q) : q[i] \in S
    BY ElementOfSeq
  <1>2. a \in Seq(S)
    BY <1>1, SubSeqProperties
  <1>3. /\ b \in Seq(S) /\ Len(b) = Len(q) - n
        /\ \A i \in 1..(Len(q) - n) : b[i] = q[n + i]
    <2>1. n + 1 \in Int /\ Len(q) \in Int /\ \A i \in (n + 1)..Len(q) : q[i] \in S
      BY <1>1
    <2>2. /\ b \in Seq(S) /\ Len(b) = IF n + 1 <= Len(q) THEN Len(q) - (n + 1) + 1 ELSE 0
          /\ \A i \in 1..(Len(q) - (n + 1) + 1) : b[i] = q[n + 1 + i - 1]
      BY ONLY <2>1, SubSeqProperties
    <2>3. n \in Nat /\ n <= Len(q) /\ Len(q) \in Nat
      BY <1>1
    <2>4. Len(q) - (n + 1) + 1 = Len(q) - n /\ \A i \in 1..(Len(q) - n) : n + 1 + i - 1 = n + i
      BY ONLY <2>3
    <2>5. Len(b) = Len(q) - n
      BY ONLY <2>2, <2>3
    <2>6. \A i \in 1..(Len(q) - n) : b[i] = q[n + i]
      BY ONLY <2>2, <2>4
    <2>7. QED
      BY ONLY <2>2, <2>5, <2>6
  <1>4. RemoveAt(q, n) = a \o b
    BY DEF RemoveAt
  <1> HIDE DEF a, b
  <1>5. /\ a \o b \in Seq(S) /\ Len(a) \in Nat /\ Len(b) \in Nat
        /\ Len(a \o b) = Len(a) + Len(b)
        /\ \A i \in 1 .. Len(b) : (a \o b)[Len(a) + i] = b[i]
    <2>1. Len(a \o b) = Len(a) + Len(b) /\ Len(a) \in Nat /\ Len(b) \in Nat /\ a \o b \in Seq(S)
      <3>1. a \in Seq(S) /\ b \in Seq(S)
        BY <1>2, <1>3
      <3>2. Len(a) \in Nat /\ Len(b) \in Nat
        BY <3>1
      <3>3. Len(a \o b) = Len(a) + Len(b) /\ a \o b \in Seq(S)
        BY <3>1, ConcatProperties
      <3>4. QED
        BY <3>2, <3>3
    <2>2. ASSUME NEW i \in 1 .. Len(b) PROVE (a \o b)[Len(a) + i] = b[i]
      <3>1. Len(a) + i \in 1 .. Len(a \o b) /\ ~(Len(a) + i <= Len(a)) /\ (Len(a) + i) - Len(a) = i
        BY <2>1
      <3>2. QED
        BY <1>2, <1>3, <3>1, ConcatProperties
    <2>3. QED
      BY <2>1, <2>2
  <1>6. ASSUME n # Len(q) PROVE a \o b # <<>> /\ Last(a \o b) = Last(q)
    <2>1. Len(b) \in 1 .. Len(b) /\ Len(b) \in 1 .. (Len(q) - n) /\ n + Len(b) = Len(q)
      BY <1>1, <1>3, <1>5, <1>6
    <2>2. (a \o b)[Len(a \o b)] = q[Len(q)]
      BY <2>1, <1>3, <1>5
    <2>3. Len(a \o b) # 0
      BY <2>1, <1>5
    <2>4. QED
      BY <2>2, <2>3, <1>5 DEF Last
  <1>7. QED
    BY <1>4, <1>5, <1>6

\* What is appended comes last.
LEMMA AppendedLast ==
    ASSUME NEW S, NEW q \in Seq(S), NEW x \in S
    PROVE  /\ Append(q, x) \in Seq(S) /\ Append(q, x) # <<>>
           /\ Last(Append(q, x)) = x
  <1>1. /\ Append(q, x) \in Seq(S) /\ Len(Append(q, x)) = Len(q) + 1 /\ Len(q) \in Nat
        /\ Append(q, x)[Len(q) + 1] = x
    BY AppendProperties
  <1>2. Append(q, x) # <<>>
    BY <1>1
  <1>3. QED
    BY <1>1, <1>2 DEF Last

\* A link stands for an address, and an address for itself.
LEMMA TargetFacts ==
    /\ (CHOOSE a \in Addresses : TRUE) \in Addresses
    /\ \A x \in Address : Target(x) \in Address /\ Target(Target(x)) = Target(x)
  <1>1. (CHOOSE a \in Addresses : TRUE) \in Addresses
    BY CreationAssumption
  <1>2. QED
    BY <1>1, CreationAssumption DEF Target, Address

\* The amounts the actions write.
LEMMA AmountFacts ==
    /\ <<"zero">> \in Amount /\ <<"typed">> \in Amount
    /\ <<"link">> \in Amount /\ <<"previous">> \in Amount
    /\ \A a \in Accounts \cup {NoCoins} : <<"all", a>> \in Amount
  BY DEF Amount

-----------------------------------------------------------------------------
(* Types. *)

TypeInv ==
    /\ TypeOK
    /\ ~bump => \A c \in creates : c.details \in Shapes

\* What the types say of the tasks.
TaskTypes ==
    /\ seq \in Nat /\ fetches \in [Accounts -> Nat]
    /\ \A c \in creates : c.seq \in 1 .. seq
    /\ \A c, d \in creates : c.seq = d.seq => c = d
    /\ ~bump => \A c \in creates : c.details \in Shapes

\* ... and of the inputs and the rest.
InputTypes ==
    /\ bump \in BOOLEAN /\ greedy \in BOOLEAN /\ timer \in BOOLEAN /\ convertTimer \in BOOLEAN
    /\ account \in Accounts /\ utxos \in Accounts \cup {NoCoins}
    /\ asset \in Assets /\ address \in Address /\ input \in Amount
    /\ coins \in BOOLEAN /\ fee \in {0, 1}
    /\ result \in Conversion \cup {NoResult}
    /\ current \in {"pending", "shown", "overtaken"} /\ overlapped \in BOOLEAN
    /\ changes \in 0 .. MaxChanges /\ ticks \in 0 .. MaxTicks

\* The two parts, and the conversions, make the type invariant.
LEMMA TypeParts == TypeInv <=> TaskTypes /\ InputTypes /\ conversions \in Seq(Conversion)
  BY DEF TypeInv, TypeOK, TaskTypes, InputTypes

\* The same of the next state.
LEMMA TypePartsNext ==
    TypeInv' <=> TaskTypes' /\ InputTypes' /\ conversions' \in Seq(Conversion)
  BY DEF TypeInv, TypeOK, TaskTypes, InputTypes

\* The details of a transaction that pays somebody.
LEMMA DetailsShape ==
    ASSUME InputTypes, ~bump, NEW from \in Accounts \cup {NoCoins}
    PROVE  Details(from) \in Shapes
  BY DEF InputTypes, Details, Shapes

\* An update keeps the tasks well formed: numbers are not used twice.
LEMMA UpdateTypes ==
    ASSUME TaskTypes, InputTypes, NEW from \in Accounts \cup {NoCoins},
           NEW out \in [Accounts -> Nat], Update(from, out), bump' = bump
    PROVE  TaskTypes'
  <1>1. CASE UNCHANGED <<seq, creates>> /\ fetches' = [out EXCEPT ![account] = @ + 1]
    BY <1>1 DEF TaskTypes, InputTypes
  <1>2. CASE UNCHANGED <<seq, creates>> /\ fetches' = out
    BY <1>2 DEF TaskTypes, InputTypes
  <1>3. CASE /\ bump \/ (from # NoCoins /\ address # NoAddress)
             /\ seq' = seq + 1 /\ fetches' = out
             /\ creates' = creates \cup {[seq |-> seq', details |-> Details(from)]}
    <2> DEFINE n == [seq |-> seq', details |-> Details(from)]
    <2>1. n.seq = seq + 1 /\ n.details = Details(from)
      BY <1>3
    <2>2. ~bump => n.details \in Shapes
      BY <2>1, <1>3, DetailsShape DEF InputTypes
    <2> HIDE DEF n
    <2>3. seq' \in Nat /\ fetches' \in [Accounts -> Nat]
      BY <1>3 DEF TaskTypes
    <2>4. creates' = creates \cup {n}
      BY <1>3 DEF n
    <2>5. \A c \in creates' : c.seq \in 1 .. seq'
      BY <1>3, <2>1, <2>4 DEF TaskTypes
    <2>6. \A c, d \in creates' : c.seq = d.seq => c = d
      <3>1. \A c \in creates : c.seq # n.seq
        BY <2>1 DEF TaskTypes
      <3>2. QED
        BY <3>1, <2>4 DEF TaskTypes
    <2>7. ~bump => \A c \in creates' : c.details \in Shapes
      BY <2>2, <2>4 DEF TaskTypes
    <2>8. QED
      BY <2>3, <2>5, <2>6, <2>7 DEF TaskTypes
  <1>4. QED
    BY <1>1, <1>2, <1>3 DEF Update

\* So does a task that ends.
LEMMA EndedTypes ==
    ASSUME TaskTypes, NEW c, creates' = creates \ {c}, UNCHANGED <<seq, fetches, bump>>
    PROVE  TaskTypes'
  BY DEF TaskTypes

\* What an answer writes into the inputs.
LEMMA WriteBackTypes ==
    ASSUME TaskTypes, InputTypes, NEW c \in creates, WriteBack(c.details)
    PROVE  /\ address' \in Address /\ input' \in Amount /\ greedy' \in BOOLEAN
           /\ asset' \in Assets
           /\ timer' \in BOOLEAN /\ convertTimer' \in BOOLEAN
  <1>1. timer' \in BOOLEAN /\ convertTimer' \in BOOLEAN
    BY DEF WriteBack, InputTypes
  <1>2. CASE bump
    <2>1. (CHOOSE a \in Addresses : TRUE) \in Address
      BY TargetFacts DEF Address
    <2>2. QED
      BY <1>1, <1>2, <2>1, AmountFacts DEF WriteBack, InputTypes
  <1>3. CASE ~bump
    <2>1. /\ c.details.address \in Address /\ c.details.utxos \in Accounts \cup {NoCoins}
      BY <1>3 DEF TaskTypes, Shapes
    <2>2. CASE c.details.address \in Links
      <3>1. Target(c.details.address) \in Address
        BY <2>1, TargetFacts
      <3>2. c.details.address \in DOMAIN LinkAsset => LinkAsset[c.details.address] \in Assets
        BY CreationAssumption
      <3>3. QED
        BY <1>1, <1>3, <2>2, <3>1, <3>2, AmountFacts DEF WriteBack, InputTypes
    <2>3. CASE c.details.address \notin Links
      BY <1>1, <1>3, <2>1, <2>3, AmountFacts DEF WriteBack, InputTypes
    <2>4. QED
      BY <2>2, <2>3
  <1>4. QED
    BY <1>2, <1>3 DEF InputTypes

\* Initially.
LEMMA TypeInit == Init => TypeInv
  <1> SUFFICES ASSUME Init PROVE TypeInv
    OBVIOUS
  <1>1. TaskTypes
    BY DEF Init, TaskTypes
  <1>2. account \in Accounts /\ asset \in Assets
    BY CreationAssumption DEF Init
  <1>3. InputTypes
    <2>1. address \in Address
      BY DEF Init, Address
    <2>2. 0 \in 0 .. MaxChanges /\ 0 \in 0 .. MaxTicks
      BY CreationAssumption
    <2>3. /\ bump \in BOOLEAN /\ greedy = FALSE /\ timer = TRUE /\ convertTimer = TRUE
          /\ utxos = NoCoins /\ fee = 0 /\ coins = FALSE /\ input = <<"zero">> /\ result = NoResult
          /\ changes = 0 /\ ticks = 0 /\ current = "shown" /\ overlapped = FALSE
      BY DEF Init
    <2>4. QED
      BY <1>2, <2>1, <2>2, <2>3, AmountFacts DEF InputTypes
  <1>4. conversions \in Seq(Conversion)
    BY DEF Init
  <1>5. QED
    BY <1>1, <1>3, <1>4, TypeParts

\* One step of the user, or of the rate.
LEMMA TypeUser ==
    ASSUME TypeInv, User \/ Tick
    PROVE  TypeInv'
  <1> USE DEF inputs, convert, tasks, bounds
  <1>0. TaskTypes /\ InputTypes /\ conversions \in Seq(Conversion)
    BY TypeParts
  <1>1. /\ UNCHANGED <<bump, seq, fetches, creates, conversions, result, current>>
        /\ changes' \in 0 .. MaxChanges /\ ticks' \in 0 .. MaxTicks
    <2>1. CASE Tick
      BY <1>0, <2>1, CreationAssumption DEF Tick, InputTypes
    <2>2. CASE Change
      BY <1>0, <2>2, CreationAssumption DEF Change, InputTypes
    <2>3. User => Change
      BY DEF User, TypeAddress, TypeAmount, SendAll, ChangeOptions, Select, Selected
    <2>4. QED
      BY <2>1, <2>2, <2>3
  <1>2. TaskTypes'
    BY <1>0, <1>1 DEF TaskTypes
  <1>3. /\ account' \in Accounts /\ asset' \in Assets /\ address' \in Address /\ input' \in Amount
        /\ utxos' \in Accounts \cup {NoCoins}
        /\ coins' \in BOOLEAN /\ fee' \in {0, 1} /\ greedy' \in BOOLEAN
    BY <1>0, AmountFacts
       DEF User, Tick, TypeAddress, TypeAmount, SendAll, ChangeOptions, Select, Selected, InputTypes
  <1>4. timer' \in BOOLEAN /\ convertTimer' \in BOOLEAN /\ overlapped' \in BOOLEAN
    <2>1. ASSUME NEW a \in Accounts, NEW s \in Assets, Select(a, s)
          PROVE  timer' \in BOOLEAN /\ convertTimer' \in BOOLEAN /\ overlapped' \in BOOLEAN
      BY <1>0, <2>1, Zenon DEF Select, Selected, InputTypes
    <2>2. CASE Tick \/ TypeAmount \/ SendAll
      BY <1>0, <2>2 DEF Tick, TypeAmount, SendAll, InputTypes
    <2>3. ASSUME NEW x \in Address, TypeAddress(x)
          PROVE  timer' \in BOOLEAN /\ convertTimer' \in BOOLEAN /\ overlapped' \in BOOLEAN
      BY <1>0, <2>3 DEF TypeAddress, InputTypes
    <2>4. ASSUME NEW c \in BOOLEAN, NEW f \in {0, 1}, ChangeOptions(c, f)
          PROVE  timer' \in BOOLEAN /\ convertTimer' \in BOOLEAN /\ overlapped' \in BOOLEAN
      BY <1>0, <2>4 DEF ChangeOptions, InputTypes
    <2>5. QED
      BY <2>1, <2>2, <2>3, <2>4 DEF User
  <1>5. InputTypes'
    BY <1>0, <1>1, <1>3, <1>4 DEF InputTypes
  <1>6. QED
    BY <1>0, <1>1, <1>2, <1>5, TypePartsNext

\* One step.
LEMMA TypeNext == TypeInv /\ [Next]_vars => TypeInv'
  <1> SUFFICES ASSUME TypeInv, [Next]_vars PROVE TypeInv'
    OBVIOUS
  <1>0. TaskTypes /\ InputTypes /\ conversions \in Seq(Conversion)
    BY TypeParts
  <1> USE DEF inputs, convert, tasks, bounds
  <1>2. CASE TimerEvent
    <2>1. TaskTypes'
      BY <1>0, <1>2, UpdateTypes DEF TimerEvent, InputTypes, TaskTypes
    <2>2. InputTypes' /\ conversions' = conversions
      BY <1>0, <1>2 DEF TimerEvent, InputTypes
    <2>3. QED
      BY <1>0, <2>1, <2>2, TypePartsNext
  <1>3. CASE ConvertTimerEvent
    <2>1. [input |-> input, asset |-> asset] \in Conversion
      BY <1>0 DEF InputTypes, Conversion
    <2>2. conversions' \in Seq(Conversion)
      BY <1>0, <1>3, <2>1, AppendedLast DEF ConvertTimerEvent
    <2>3. TaskTypes' /\ InputTypes'
      BY <1>0, <1>3 DEF ConvertTimerEvent, InputTypes, TaskTypes
    <2>4. QED
      BY <2>2, <2>3, TypePartsNext
  <1>4. ASSUME NEW a \in Accounts, FetchFinished(a) PROVE TypeInv'
    <2>1. [fetches EXCEPT ![a] = @ - 1] \in [Accounts -> Nat]
      BY <1>0, <1>4 DEF FetchFinished, TaskTypes
    <2>2. TaskTypes'
      BY <1>0, <1>4, <2>1, UpdateTypes DEF FetchFinished
    <2>3. InputTypes' /\ conversions' = conversions
      BY <1>0, <1>4 DEF FetchFinished, InputTypes
    <2>4. QED
      BY <1>0, <2>2, <2>3, TypePartsNext
  <1>5. ASSUME NEW a \in Accounts, FetchFailed(a) PROVE TypeInv'
    <2>1. fetches' \in [Accounts -> Nat]
      BY <1>0, <1>5 DEF FetchFailed, TaskTypes
    <2>2. TaskTypes' /\ InputTypes' /\ conversions' = conversions
      BY <1>0, <1>5, <2>1 DEF FetchFailed, InputTypes, TaskTypes
    <2>3. QED
      BY <1>0, <2>2, TypePartsNext
  <1>6. ASSUME NEW c \in creates, CreateFinished(c) PROVE TypeInv'
    <2>1. TaskTypes'
      BY <1>0, <1>6, EndedTypes DEF CreateFinished
    <2>2. InputTypes' /\ conversions' = conversions
      <3>1. CASE c.seq = seq
        BY <1>0, <1>6, <3>1, WriteBackTypes DEF CreateFinished, InputTypes
      <3>2. CASE c.seq # seq
        BY <1>0, <1>6, <3>2 DEF CreateFinished, InputTypes
      <3>3. QED
        BY <3>1, <3>2
    <2>3. QED
      BY <1>0, <2>1, <2>2, TypePartsNext
  <1>7. ASSUME NEW c \in creates, CreateFailed(c) PROVE TypeInv'
    <2>1. TaskTypes'
      BY <1>0, <1>7, EndedTypes DEF CreateFailed
    <2>2. InputTypes' /\ conversions' = conversions
      BY <1>0, <1>7 DEF CreateFailed, InputTypes
    <2>3. QED
      BY <1>0, <2>1, <2>2, TypePartsNext
  <1>8. ASSUME NEW i \in DOMAIN conversions, Converted(i) PROVE TypeInv'
    <2>1. i \in 1 .. Len(conversions) /\ conversions[i] \in Conversion
      BY <1>0, ElementOfSeq
    <2>2. conversions' \in Seq(Conversion)
      BY <1>0, <1>8, <2>1, RemovedEarlier DEF Converted
    <2>3. TaskTypes' /\ InputTypes'
      BY <1>0, <1>8, <2>1 DEF Converted, Arrived, InputTypes, TaskTypes
    <2>4. QED
      BY <2>2, <2>3, TypePartsNext
  <1>9. CASE UNCHANGED vars
    <2>1. TaskTypes' /\ InputTypes' /\ conversions' = conversions
      BY <1>0, <1>9 DEF vars, InputTypes, TaskTypes
    <2>2. QED
      BY <1>0, <2>1, TypePartsNext
  <1>10. QED
    BY <1>2, <1>3, <1>4, <1>5, <1>6, <1>7, <1>8, <1>9, TypeUser DEF Next, Answer

\* The type invariant holds for any accounts, assets, addresses and links: the numbers
\* of the transactions being created differ.
THEOREM CreationTypes == Spec => []TypeOK
  <1>1. TypeInv => TypeOK
    BY DEF TypeInv
  <1>2. QED
    BY TypeInit, TypeNext, <1>1, PTL DEF Spec

-----------------------------------------------------------------------------
(* The amount: the conversion started last is of the input there is now. *)

\* Whatever changes the input or the asset starts the timer of the Convert.
LEMMA InputsRestart ==
    ASSUME TypeInv, User \/ Tick \/ \E c \in creates : CreateFinished(c)
    PROVE  /\ UNCHANGED <<conversions, result, current>>
           /\ ~convertTimer' => ~convertTimer /\ UNCHANGED <<input, asset>>
  <1> USE DEF inputs, convert, tasks, bounds
  <1>0. InputTypes
    BY TypeParts
  <1>1. CASE Tick
    BY <1>1 DEF Tick
  <1>2. CASE User
    <2>1. UNCHANGED <<conversions, result, current>>
      BY <1>2 DEF User, TypeAddress, TypeAmount, SendAll, ChangeOptions, Select, Selected, Change
    <2>2. ASSUME NEW a \in Accounts, NEW s \in Assets, Select(a, s), ~convertTimer'
          PROVE  ~convertTimer /\ UNCHANGED <<input, asset>>
      BY <2>2 DEF Select, Selected
    <2>3. ASSUME ~convertTimer', ~(\E a \in Accounts, s \in Assets : Select(a, s))
          PROVE  ~convertTimer /\ UNCHANGED <<input, asset>>
      BY <1>2, <2>3 DEF User, TypeAddress, TypeAmount, SendAll, ChangeOptions
    <2>4. QED
      BY <2>1, <2>2, <2>3
  <1>3. ASSUME NEW c \in creates, CreateFinished(c)
        PROVE  /\ UNCHANGED <<conversions, result, current>>
               /\ ~convertTimer' => ~convertTimer /\ UNCHANGED <<input, asset>>
    <2>1. CASE c.seq = seq
      BY <1>3, <2>1 DEF CreateFinished, WriteBack
    <2>2. CASE c.seq # seq
      BY <1>3, <2>2 DEF CreateFinished
    <2>3. QED
      BY <2>1, <2>2
  <1>4. QED
    BY <1>1, <1>2, <1>3

\* However conversions are timed and answered.
LEMMA ConversionNext ==
    ASSUME TypeInv, ConversionFollowsInput, [Next]_vars
    PROVE  ConversionFollowsInput'
  <1> USE DEF inputs, convert, tasks, bounds
  <1>0. InputTypes /\ conversions \in Seq(Conversion)
    BY TypeParts
  <1>1. CASE UNCHANGED <<convert, input, asset>>
    BY <1>1 DEF ConversionFollowsInput
  <1>2. CASE User \/ Tick \/ \E c \in creates : CreateFinished(c)
    <2>1. ~convertTimer' => UNCHANGED <<convert, input, asset>>
      <3>1. convertTimer \in BOOLEAN /\ convertTimer' \in BOOLEAN
        BY <1>0, TypeNext, TypePartsNext DEF InputTypes
      <3>2. QED
        BY <1>2, <3>1, InputsRestart
    <2>2. QED
      BY <1>1, <2>1 DEF ConversionFollowsInput
  <1>3. CASE ConvertTimerEvent
    <2>1. [input |-> input, asset |-> asset] \in Conversion
      BY <1>0 DEF InputTypes, Conversion
    <2>2. UNCHANGED <<input, asset>>
      BY <1>3 DEF ConvertTimerEvent
    <2>3. CASE /\ conversions' = Append(conversions, [input |-> input, asset |-> asset])
               /\ current' = "pending"
      <3>1. /\ conversions' # <<>>
            /\ Last(conversions') = [input |-> input', asset |-> asset']
        BY <1>0, <2>1, <2>2, <2>3, AppendedLast
      <3>2. QED
        BY <3>1, <2>3 DEF ConversionFollowsInput
    <2>4. CASE result' = NoResult /\ current' = "shown"
      BY <2>4 DEF ConversionFollowsInput
    <2>5. QED
      BY <1>3, <2>3, <2>4 DEF ConvertTimerEvent
  <1>4. ASSUME NEW i \in DOMAIN conversions, Converted(i) PROVE ConversionFollowsInput'
    <2>0. UNCHANGED <<input, asset, convertTimer>> /\ current' = Arrived(i)
      BY <1>4 DEF Converted
    <2> SUFFICES ASSUME ~convertTimer
                 PROVE  /\ current' = "pending" =>
                               /\ conversions' # <<>>
                               /\ Last(conversions') = [input |-> input, asset |-> asset]
                        /\ current' = "shown" =>
                               result' \in {NoResult, [input |-> input, asset |-> asset]}
      BY <2>0 DEF ConversionFollowsInput
    <2>1. i \in 1 .. Len(conversions)
      BY <1>0, ElementOfSeq
    <2>2. CASE current # "pending"
      BY <2>0, <2>2 DEF Arrived
    <2>3. CASE current = "pending" /\ i = Len(conversions)
      <3>1. conversions[i] = [input |-> input, asset |-> asset]
        BY <2>3 DEF ConversionFollowsInput, Last
      <3>2. QED
        BY <1>4, <2>0, <2>3, <3>1 DEF Arrived, Converted
    <2>4. CASE current = "pending" /\ i # Len(conversions)
      <3>1. Last(conversions) = [input |-> input, asset |-> asset]
        BY <2>4 DEF ConversionFollowsInput
      <3>2. conversions' # <<>> /\ Last(conversions') = Last(conversions)
        BY <1>0, <1>4, <2>1, <2>4, RemovedEarlier DEF Converted
      <3>3. QED
        BY <2>0, <2>4, <3>1, <3>2 DEF Arrived
    <2>5. QED
      BY <2>2, <2>3, <2>4
  <1>5. QED
    BY <1>1, <1>2, <1>3, <1>4
       DEF Next, Answer, TimerEvent, FetchFinished, FetchFailed, CreateFailed, vars

-----------------------------------------------------------------------------
(* The coins: unless coins of another account were on their way when this one    *)
(* was selected, those that come are of the account there is now.                *)

\* An account is selected with nothing on its way, or that is noted.
LEMMA CoinsNext ==
    ASSUME TypeInv, CoinsFollowAccount, [Next]_vars
    PROVE  CoinsFollowAccount'
  <1> USE DEF inputs, convert, tasks, bounds
  <1>0. TaskTypes /\ InputTypes
    BY TypeParts
  <1> DEFINE New == /\ utxos' \in {account', NoCoins}
                    /\ \A a \in Accounts : fetches'[a] > 0 => a = account'
  <1> SUFFICES ASSUME ~bump', ~overlapped' PROVE New
    BY DEF CoinsFollowAccount
  <1>1. bump' = bump
    BY DEF Next, User, Tick, TypeAddress, TypeAmount, SendAll, ChangeOptions, Select, Selected,
           Change, TimerEvent, ConvertTimerEvent, Answer, FetchFinished, FetchFailed,
           CreateFinished, CreateFailed, Converted, vars
  <1>2. ASSUME ~overlapped
        PROVE  /\ utxos \in {account, NoCoins}
               /\ \A a \in Accounts : fetches[a] > 0 => a = account
    BY <1>1, <1>2 DEF CoinsFollowAccount
  <1>3. CASE UNCHANGED <<account, utxos, fetches, overlapped>>
    BY <1>2, <1>3
  <1>4. ASSUME NEW a \in Accounts, NEW s \in Assets, Select(a, s)
        PROVE  New
    <2>1. account' = a /\ fetches' = fetches
      BY <1>4 DEF Select, Selected, Change
    <2>2. CASE a = account
      BY <1>3, <1>4, <2>1, <2>2 DEF Select
    <2>3. CASE a # account
      BY <1>4, <2>1, <2>3 DEF Select
    <2>4. QED
      BY <2>2, <2>3
  <1>5. CASE TimerEvent
    <2>1. fetches' = fetches \/ fetches' = [fetches EXCEPT ![account] = @ + 1]
      BY <1>5 DEF TimerEvent, Update
    <2>2. UNCHANGED <<account, utxos, overlapped>>
      BY <1>5 DEF TimerEvent
    <2>3. \A a \in Accounts : a # account => fetches'[a] = fetches[a]
      BY <2>1, <1>0 DEF TaskTypes, InputTypes
    <2>4. QED
      BY <1>2, <2>2, <2>3
  <1>6. ASSUME NEW a \in Accounts, FetchFinished(a) PROVE New
    <2> DEFINE out == [fetches EXCEPT ![a] = @ - 1]
    <2>0. overlapped' = overlapped
      BY <1>6 DEF FetchFinished
    <2>1. a = account /\ account' = account /\ utxos' = account
      BY <1>2, <1>6, <2>0 DEF FetchFinished
    <2>2. fetches' = out \/ fetches' = [out EXCEPT ![account] = @ + 1]
      BY <1>6 DEF FetchFinished, Update
    <2>3. \A b \in Accounts : b # account => fetches'[b] = fetches[b]
      BY <2>1, <2>2, <1>0 DEF TaskTypes, InputTypes
    <2>4. QED
      BY <1>2, <2>0, <2>1, <2>3
  <1>7. ASSUME NEW a \in Accounts, FetchFailed(a) PROVE New
    <2>1. \A b \in Accounts : b # a => fetches'[b] = fetches[b]
      BY <1>7, <1>0 DEF FetchFailed, TaskTypes
    <2>2. a = account /\ UNCHANGED <<account, utxos, overlapped>>
      BY <1>2, <1>7 DEF FetchFailed
    <2>3. QED
      BY <1>2, <2>1, <2>2
  <1>8. QED
    BY <1>3, <1>4, <1>5, <1>6, <1>7
       DEF Next, User, Tick, TypeAddress, TypeAmount, SendAll, ChangeOptions, Change,
           ConvertTimerEvent, Answer, CreateFinished, CreateFailed, Converted, vars

-----------------------------------------------------------------------------
(* The transaction: with the timer off, the answer that counts is to the inputs  *)
(* there are now.                                                                *)

\* What Details reads.
read == <<bump, account, asset, coins, fee, address, greedy, result>>

\* Same inputs and coins, same details.
LEMMA DetailsStable ==
    ASSUME UNCHANGED read
    PROVE  Details(utxos)' = Details(utxos') /\ (utxos' = utxos => Details(utxos)' = Details(utxos))
  BY DEF read, Details

\* What AnswerFollowsInputs says of the next state.
Answered ==
    Complete => /\ \A c \in creates : c.seq = seq => c.details = Details(utxos)
                /\ (\E c \in creates : c.seq = seq) \/ transaction \in {NoTx, Details(utxos)}

\* An update starts the only answer that counts, unless something is missing.
LEMMA UpdateAnswer ==
    ASSUME TaskTypes, UNCHANGED read, NEW out, Update(utxos', out)
    PROVE  Answered'
  <1> SUFFICES ASSUME Complete'
               PROVE  /\ \A c \in creates' : c.seq = seq' => c.details = Details(utxos)'
                      /\ \E c \in creates' : c.seq = seq'
    BY DEF Answered
  <1>1. Details(utxos)' = Details(utxos')
    BY DetailsStable
  <1>2. bump \/ (utxos' # NoCoins /\ address # NoAddress)
    BY DEF Complete, read
  <1> DEFINE n == [seq |-> seq', details |-> Details(utxos')]
  <1>3. seq' = seq + 1 /\ creates' = creates \cup {n}
    BY <1>2 DEF Update
  <1>4. n.seq = seq' /\ n.details = Details(utxos)'
    BY <1>1
  <1> HIDE DEF n
  <1>5. \A c \in creates : c.seq # seq'
    BY <1>3 DEF TaskTypes
  <1>6. QED
    BY <1>3, <1>4, <1>5

\* Whatever changes what Details reads starts the timer.
LEMMA ReadRestarts ==
    ASSUME TypeInv, [Next]_vars, ~timer'
    PROVE  UNCHANGED read
  <1> USE DEF inputs, convert, tasks, bounds
  <1>0. InputTypes
    BY TypeParts
  <1>1. ASSUME NEW a \in Accounts, NEW s \in Assets, Select(a, s) PROVE UNCHANGED read
    <2>1. a = account /\ s = asset /\ ~coins /\ ~greedy
      BY <1>1 DEF Select, Selected
    <2>2. QED
      BY <1>0, <1>1, <2>1 DEF Select, Selected, Change, read, InputTypes
  <1>2. CASE User
    <2>1. CASE \E x \in Address : TypeAddress(x)
      BY <2>1 DEF TypeAddress
    <2>2. CASE TypeAmount \/ SendAll
      BY <1>0, <2>2 DEF TypeAmount, SendAll, Change, read, InputTypes
    <2>3. CASE \E c \in BOOLEAN, f \in {0, 1} : ChangeOptions(c, f)
      BY <2>3 DEF ChangeOptions
    <2>4. QED
      BY <1>1, <1>2, <2>1, <2>2, <2>3 DEF User
  <1>3. ASSUME NEW c \in creates, CreateFinished(c) PROVE UNCHANGED read
    <2>1. CASE c.seq = seq
      BY <1>3, <2>1 DEF CreateFinished, WriteBack, read
    <2>2. CASE c.seq # seq
      BY <1>3, <2>2 DEF CreateFinished, read
    <2>3. QED
      BY <2>1, <2>2
  <1>4. CASE Tick \/ TimerEvent \/ ConvertTimerEvent
    BY <1>4 DEF Tick, TimerEvent, ConvertTimerEvent, read
  <1>5. ASSUME NEW a \in Accounts, FetchFinished(a) \/ FetchFailed(a) PROVE UNCHANGED read
    BY <1>5 DEF FetchFinished, FetchFailed, read
  <1>6. ASSUME NEW c \in creates, CreateFailed(c) PROVE UNCHANGED read
    BY <1>6 DEF CreateFailed, read
  <1>7. ~(\E i \in DOMAIN conversions : Converted(i))
    BY DEF Converted
  <1>8. CASE UNCHANGED vars
    BY <1>8 DEF vars, read
  <1>9. QED
    BY <1>2, <1>3, <1>4, <1>5, <1>6, <1>7, <1>8 DEF Next, Answer

\* One step.
LEMMA AnswerNext ==
    ASSUME TypeInv, AnswerFollowsInputs, [Next]_vars
    PROVE  AnswerFollowsInputs'
  <1> USE DEF inputs, convert, tasks, bounds
  <1>0. TaskTypes /\ InputTypes
    BY TypeParts
  <1> SUFFICES ASSUME ~timer' PROVE Answered'
    BY DEF AnswerFollowsInputs, Answered
  <1>1. UNCHANGED read
    BY ReadRestarts
  <1>2. ~timer => Answered
    BY DEF AnswerFollowsInputs, Answered
  <1>3. ASSUME ~timer, UNCHANGED <<utxos, seq, creates, transaction>> PROVE Answered'
    <2>1. Details(utxos)' = Details(utxos) /\ Complete' = Complete
      BY <1>1, <1>3, DetailsStable DEF read, Complete
    <2>2. QED
      BY <1>2, <1>3, <2>1 DEF Answered
  <1>4. ASSUME NEW c \in creates, creates' = creates \ {c}, ~timer, UNCHANGED <<utxos, seq>>,
               IF c.seq = seq THEN transaction' \in {NoTx, c.details} ELSE UNCHANGED transaction
        PROVE  Answered'
    <2> SUFFICES ASSUME Complete'
                 PROVE  /\ \A d \in creates' : d.seq = seq' => d.details = Details(utxos)'
                        /\ \/ \E d \in creates' : d.seq = seq'
                           \/ transaction' \in {NoTx, Details(utxos)'}
      BY DEF Answered
    <2>1. Details(utxos)' = Details(utxos) /\ Complete
      BY <1>1, <1>4, DetailsStable DEF read, Complete
    <2>2. /\ \A d \in creates : d.seq = seq => d.details = Details(utxos)
          /\ (\E d \in creates : d.seq = seq) \/ transaction \in {NoTx, Details(utxos)}
      BY <1>2, <1>4, <2>1 DEF Answered
    <2>3. CASE c.seq = seq
      BY <1>4, <2>1, <2>2, <2>3
    <2>4. CASE c.seq # seq
      BY <1>4, <2>1, <2>2, <2>4
    <2>5. QED
      BY <2>3, <2>4
  <1>5. CASE User \/ Tick
    <2>1. ~timer /\ UNCHANGED <<utxos, seq, creates, transaction>>
      <3>1. ASSUME NEW a \in Accounts, NEW s \in Assets, Select(a, s)
            PROVE  ~timer /\ UNCHANGED <<utxos, seq, creates, transaction>>
        BY <3>1 DEF Select, Selected, Change
      <3>2. QED
        BY <1>0, <1>5, <3>1
           DEF User, Tick, TypeAddress, TypeAmount, SendAll, ChangeOptions, Change, InputTypes
    <2>2. QED
      BY <2>1, <1>3
  <1>6. CASE TimerEvent
    <2>1. utxos' = utxos /\ Update(utxos, fetches)
      BY <1>6 DEF TimerEvent
    <2>2. Update(utxos', fetches)
      BY <2>1
    <2>3. QED
      BY <1>0, <1>1, <2>2, UpdateAnswer
  <1>7. ASSUME NEW a \in Accounts, FetchFinished(a) PROVE Answered'
    <2>1. Update(utxos', [fetches EXCEPT ![a] = @ - 1])
      BY <1>7 DEF FetchFinished
    <2>2. QED
      BY <1>0, <1>1, <2>1, UpdateAnswer
  <1>8. ASSUME NEW c \in creates, CreateFinished(c) PROVE Answered'
    <2>1. ~timer
      BY <1>8 DEF CreateFinished, WriteBack
    <2>2. QED
      BY <2>1, <1>4, <1>8 DEF CreateFinished
  <1>9. ASSUME NEW c \in creates, CreateFailed(c) PROVE Answered'
    BY <1>4, <1>9 DEF CreateFailed
  <1>10. ASSUME NEW a \in Accounts, FetchFailed(a) PROVE Answered'
    BY <1>3, <1>10 DEF FetchFailed
  <1>11. CASE ConvertTimerEvent
    BY <1>3, <1>11 DEF ConvertTimerEvent
  <1>12. ~(\E i \in DOMAIN conversions : Converted(i))
    BY DEF Converted
  <1>13. CASE UNCHANGED vars
    BY <1>3, <1>13 DEF vars
  <1>14. QED
    BY <1>5, <1>6, <1>7, <1>8, <1>9, <1>10, <1>11, <1>12, <1>13 DEF Next, Answer

-----------------------------------------------------------------------------
(* All of it. *)

\* The invariant of the page, for any accounts, assets, addresses, links and number of
\* changes.
THEOREM CreationCorrect == Spec => []CreationInv
  <1>1. CreationInv <=> /\ TypeInv
                        /\ ConversionFollowsInput /\ CoinsFollowAccount /\ AnswerFollowsInputs
    BY DEF CreationInv, TypeInv
  <1>2. CreationInv' <=> /\ TypeInv'
                         /\ ConversionFollowsInput' /\ CoinsFollowAccount' /\ AnswerFollowsInputs'
    BY DEF CreationInv, TypeInv
  <1>3. Init => CreationInv
    <2> SUFFICES ASSUME Init PROVE CreationInv
      OBVIOUS
    <2>1. ConversionFollowsInput /\ AnswerFollowsInputs
      BY DEF Init, ConversionFollowsInput, AnswerFollowsInputs
    <2>2. CoinsFollowAccount
      BY DEF Init, CoinsFollowAccount
    <2>3. QED
      BY <1>1, <2>1, <2>2, TypeInit
  <1>4. CreationInv /\ [Next]_vars => CreationInv'
    BY <1>1, <1>2, TypeNext, ConversionNext, CoinsNext, AnswerNext
  <1>5. QED
    BY <1>3, <1>4, PTL DEF Spec

\* At rest the page shows what belongs to its inputs, but for an amount whose conversion
\* has been overtaken, coins that overlapped the selection of another account, and a
\* transaction update has no cause to replace.
THEOREM PageShowsWhatWasEntered == Spec => []ShowsWhatWasEntered
  <1>1. CreationInv => ShowsWhatWasEntered
    <2> SUFFICES ASSUME CreationInv, Settled PROVE ShowsWhatWasEntered
      BY DEF ShowsWhatWasEntered
    <2>1. current = "shown" => result \in {NoResult, [input |-> input, asset |-> asset]}
      BY DEF CreationInv, ConversionFollowsInput, Settled
    <2>2. ~bump /\ ~overlapped => utxos \in {account, NoCoins}
      BY DEF CreationInv, CoinsFollowAccount
    <2>3. Complete => transaction \in {NoTx, Details(utxos)}
      BY DEF CreationInv, AnswerFollowsInputs, Settled
    <2>4. QED
      BY <2>1, <2>2, <2>3 DEF ShowsWhatWasEntered
  <1>2. QED
    BY CreationCorrect, <1>1, PTL

\* No answer takes back what the user entered while no change waits for its update and
\* nothing is missing: what it writes is what update read.
THEOREM PageKeepsWhatWasTyped == Spec => KeepsWhatWasTyped
  <1> USE DEF inputs, convert, tasks, bounds
  <1> DEFINE Kept ==
        UNCHANGED changes /\ ~timer /\ ~bump /\ Complete =>
            /\ address' \in {address, Target(address)}
            /\ asset' # asset => address \in DOMAIN LinkAsset
            /\ greedy' # greedy => address \in Priced
            /\ input' # input => address \in Priced \/ (greedy /\ address \notin Links)
  <1>1. ASSUME CreationInv, [Next]_vars PROVE Kept
    <2> SUFFICES ASSUME UNCHANGED changes, ~timer, ~bump, Complete,
                        ~UNCHANGED <<address, asset, greedy, input>>
                 PROVE  /\ address' \in {address, Target(address)}
                        /\ asset' # asset => address \in DOMAIN LinkAsset
                        /\ greedy' # greedy => address \in Priced
                        /\ input' # input => address \in Priced \/ (greedy /\ address \notin Links)
      BY DEF Kept
    <2>1. ~User
      <3>1. User => Change
        BY DEF User, TypeAddress, TypeAmount, SendAll, ChangeOptions, Select, Selected
      <3>2. changes \in Nat
        BY <1>1, CreationAssumption DEF CreationInv, TypeOK
      <3>3. QED
        BY <3>1, <3>2 DEF Change
    <2>2. PICK c \in creates : CreateFinished(c)
      BY <1>1, <2>1 DEF Next, Answer, Tick, TimerEvent, ConvertTimerEvent, FetchFinished, FetchFailed,
                  CreateFailed, Converted, vars
    <2>3. c.seq = seq /\ WriteBack(c.details)
      BY <2>2 DEF CreateFinished
    <2>4. c.details = Details(utxos)
      BY <1>1, <2>3 DEF CreationInv, AnswerFollowsInputs
    <2>5. /\ c.details.address = address
          /\ c.details.greedy => greedy /\ address \notin Priced
      <3>1. c.details.address = address /\ c.details.greedy = (greedy /\ address \notin Priced)
        BY <2>4 DEF Details
      <3>2. QED
        BY <3>1, Zenon
    <2>6. CASE address \in Links
      BY <2>3, <2>5, <2>6 DEF WriteBack
    <2>7. CASE address \notin Links
      BY <2>3, <2>5, <2>7 DEF WriteBack
    <2>8. QED
      BY <2>6, <2>7
  <1>2. QED
    BY CreationCorrect, <1>1, PTL DEF Spec, KeepsWhatWasTyped
=============================================================================
