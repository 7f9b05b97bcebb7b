-------------------------- MODULE TransactionCreation --------------------------
(***************************************************************************)
(* The transaction a send page shows for the inputs it takes                 *)
(* (src/src/createtransactioncontroller.cpp with src/src/convert.cpp, as     *)
(* src/qml/SendPage.qml drives them).                                        *)
(*                                                                           *)
(* Every change of an input restarts a timer; when it fires, update fetches  *)
(* the coins of the account if it has none, or has GDK create a transaction, *)
(* and the answer may change the inputs in turn.  The amount goes through a  *)
(* Convert, which has a timer and answers of its own.  Answers come back     *)
(* from threads in any order.                                                *)
(***************************************************************************)
EXTENDS Naturals, FiniteSets, Sequences, SequencesExt

CONSTANTS
    Accounts,   \* the accounts to send from
    Assets,     \* the assets to send
    Addresses,  \* the plain addresses
    Links,      \* payment links (BIP21)
    Priced,     \* those that name an amount
    LinkAsset,  \* the assets links name, for those that do
    NoCoins,    \* m_utxos before they are fetched
    NoTx,       \* no transaction
    NoResult,   \* an empty result of a conversion
    MaxChanges, \* bound: changes by the user
    MaxTicks,   \* bound: changes of the exchange rate or the settings
    MaxOut      \* bound: answers out at once; timers wait while there are as many

ASSUME CreationAssumption ==
    /\ MaxChanges \in Nat /\ MaxTicks \in Nat /\ MaxOut \in Nat
    /\ Accounts # {} /\ NoCoins \notin Accounts
    /\ Assets # {}
    /\ Addresses # {} /\ Addresses \cap Links = {}
    /\ Priced \subseteq Links
    /\ DOMAIN LinkAsset \subseteq Links /\ \A x \in DOMAIN LinkAsset : LinkAsset[x] \in Assets

NoAddress == "no address"
Address == Addresses \cup Links \cup {NoAddress}

\* The plain address a link stands for.
Target(x) == IF x \in Links THEN CHOOSE a \in Addresses : TRUE ELSE x

\* Amounts: none, what the user types, what a link asks for, all of the coins fetched
\* or (NoCoins) selected, and what the transaction that is replaced paid.
Amount == {<<"zero">>, <<"typed">>, <<"link">>, <<"previous">>}
          \cup {<<"all", a>> : a \in Accounts \cup {NoCoins}}

\* What a conversion is of; a result is told by it.
Conversion == [input : Amount, asset : Assets]

VARIABLES
    bump,        \* m_previous_transaction is set: its fee is raised
    account, asset, address, greedy, input, \* the inputs, input: that of the Convert
    coins,       \* m_coins: coins are selected by hand
    fee,         \* m_fee_rate
    utxos,       \* whose coins m_utxos has
    timer,       \* m_update_timer runs
    seq,         \* m_seq
    fetches,     \* fetches[a]: GetUnspentOutputsTasks out
    creates,     \* CreateTransactionTasks out
    convertTimer,\* Convert::m_timer_id runs
    conversions, \* conversions out, the oldest first
    result,      \* Convert::m_result
    transaction, \* what the transaction shown was created from
    changes,     \* changes by the user so far
    ticks,       \* changes of the rate so far
    current,     \* history: the conversion asked for last is "pending", its result
                 \* "shown", or "overtaken" by the result of an earlier one
    overlapped   \* history: coins of another account were out when this one was selected

inputs == <<bump, account, asset, address, greedy, input, coins, fee>>
convert == <<convertTimer, conversions, result, current>>
tasks == <<fetches, creates>>
bounds == <<changes, ticks>>
vars == <<inputs, utxos, timer, seq, tasks, convert, transaction, bounds, overlapped>>

\* What update puts into the details of a transaction, m_utxos holding those of from.
Details(from) ==
    IF bump
    THEN [account |-> account, asset |-> asset, coins |-> coins, fee |-> fee]
    ELSE [account |-> account, asset |-> asset, coins |-> coins, fee |-> fee,
          utxos |-> IF coins THEN NoCoins ELSE from, address |-> address,
          satoshi |-> result, greedy |-> greedy /\ address \notin Priced]

\* update has a transaction created.
Complete == bump \/ (utxos # NoCoins /\ address # NoAddress)

\* Bound: there may be another answer to wait for.
Room ==
    Len(conversions) + Cardinality(creates) + FoldFunction(LAMBDA m, n : m + n, 0, fetches) < MaxOut

\* Nothing is under way.
Settled ==
    /\ ~timer /\ ~convertTimer /\ conversions = <<>>
    /\ creates = {} /\ \A a \in Accounts : fetches[a] = 0

-----------------------------------------------------------------------------
(* The user. *)

Change ==
    /\ changes < MaxChanges
    /\ changes' = changes + 1
    /\ UNCHANGED <<bump, seq, tasks, conversions, result, current, transaction, ticks>>

\* Recipient::setAddress.
TypeAddress(x) ==
    /\ Change /\ ~bump /\ x # address
    /\ address' = x
    /\ timer' = TRUE
    /\ UNCHANGED <<account, asset, greedy, input, coins, fee, utxos, convertTimer, overlapped>>

\* The amount field: Convert::setInput, and greedy no more.
TypeAmount ==
    /\ Change /\ ~bump /\ input # <<"typed">>
    /\ input' = <<"typed">>
    /\ convertTimer' = TRUE
    /\ greedy' = FALSE
    /\ timer' = (timer \/ greedy)
    /\ UNCHANGED <<account, asset, address, coins, fee, utxos, overlapped>>

\* "Send all": Recipient::setGreedy.
SendAll ==
    /\ Change /\ ~bump /\ ~greedy
    /\ greedy' = TRUE
    /\ timer' = TRUE
    /\ UNCHANGED <<account, asset, address, input, coins, fee, utxos, convertTimer, overlapped>>

\* setCoins and setFeeRate.
ChangeOptions(c, f) ==
    /\ Change /\ <<c, f>> # <<coins, fee>>
    /\ coins' = c /\ fee' = f
    /\ timer' = TRUE
    /\ UNCHANGED <<account, asset, address, greedy, input, utxos, convertTimer, overlapped>>

\* What an account, or the asset alone, being selected does to the rest of the page:
\* coins are not selected, the amount is cleared and with it greedy.
Selected(a, s) ==
    /\ Change /\ ~bump
    /\ account' = a /\ asset' = s
    /\ coins' = FALSE /\ input' = <<"zero">> /\ greedy' = FALSE
    /\ timer' = (timer \/ a # account \/ s # asset \/ coins \/ greedy)
    /\ convertTimer' = (convertTimer \/ a # account \/ s # asset \/ input # <<"zero">>)
    /\ UNCHANGED <<address, fee>>

\* A variant of setAccount that keeps the coins.
SelectKeepingCoins(a, s) ==
    /\ Selected(a, s)
    /\ overlapped' = IF a = account THEN overlapped ELSE \E b \in Accounts \ {a} : fetches[b] > 0
    /\ UNCHANGED utxos

\* The account and asset selector: setAccount, setAsset, setCoins and clearText.
Select(a, s) ==
    /\ Selected(a, s)
    /\ IF a = account
       THEN UNCHANGED <<utxos, overlapped>>
       ELSE utxos' = NoCoins /\ overlapped' = \E b \in Accounts \ {a} : fetches[b] > 0

-----------------------------------------------------------------------------
(* Updates. *)

\* A variant of update that does not take a new number for every transaction.
UpdateUnnumbered(from, out) ==
    \/ /\ ~bump /\ from = NoCoins
       /\ fetches' = [out EXCEPT ![account] = @ + 1]
       /\ UNCHANGED <<seq, creates, transaction>>
    \/ /\ ~bump /\ from # NoCoins /\ address = NoAddress
       /\ transaction' = NoTx
       /\ fetches' = out
       /\ UNCHANGED <<seq, creates>>
    \/ /\ bump \/ (from # NoCoins /\ address # NoAddress)
       /\ seq' = IF creates = {} THEN seq + 1 ELSE seq
       /\ creates' = creates \cup {[seq |-> seq', details |-> Details(from)]}
       /\ fetches' = out
       /\ UNCHANGED transaction

\* CreateTransactionController::update with m_utxos holding those of from, and the
\* GetUnspentOutputsTasks of out being out.  Only a transaction takes a number.
Update(from, out) ==
    \/ /\ ~bump /\ from = NoCoins
       /\ fetches' = [out EXCEPT ![account] = @ + 1]
       /\ UNCHANGED <<seq, creates, transaction>>
    \/ /\ ~bump /\ from # NoCoins /\ address = NoAddress
       /\ transaction' = NoTx
       /\ fetches' = out
       /\ UNCHANGED <<seq, creates>>
    \/ /\ bump \/ (from # NoCoins /\ address # NoAddress)
       /\ seq' = seq + 1
       /\ creates' = creates \cup {[seq |-> seq', details |-> Details(from)]}
       /\ fetches' = out
       /\ UNCHANGED transaction

\* CreateTransactionController::timerEvent.
TimerEvent ==
    /\ timer /\ Room
    /\ timer' = FALSE
    /\ Update(utxos, fetches)
    /\ UNCHANGED <<inputs, utxos, convert, bounds, overlapped>>

\* A GetUnspentOutputsTask finished, for whatever account.
FetchFinished(a) ==
    /\ fetches[a] > 0
    /\ utxos' = a
    /\ Update(a, [fetches EXCEPT ![a] = @ - 1])
    /\ UNCHANGED <<inputs, timer, convert, bounds, overlapped>>

\* A GetUnspentOutputsTask failed: nobody listens.
FetchFailed(a) ==
    /\ fetches[a] > 0
    /\ fetches' = [fetches EXCEPT ![a] = @ - 1]
    /\ UNCHANGED <<inputs, utxos, timer, seq, creates, convert, transaction, bounds, overlapped>>

-----------------------------------------------------------------------------
(* Answers. *)

\* What setTransaction writes back: the asset, address and amount of a link, or the
\* amount of a transaction that sends all or replaces another.
WriteBack(d) ==
    /\ IF bump
       THEN /\ address' = CHOOSE a \in Addresses : TRUE
            /\ input' = <<"previous">>
            /\ UNCHANGED <<greedy, asset>>
       ELSE IF d.address \in Links
       THEN /\ address' = Target(d.address)
            /\ asset' = IF d.address \in DOMAIN LinkAsset THEN LinkAsset[d.address] ELSE asset
            /\ IF d.address \in Priced
               THEN greedy' = FALSE /\ input' = <<"link">>
               ELSE UNCHANGED <<greedy, input>>
       ELSE IF d.greedy
       THEN /\ address' = d.address
            /\ input' = <<"all", d.utxos>>
            /\ UNCHANGED <<greedy, asset>>
       ELSE UNCHANGED <<address, input, greedy, asset>>
    /\ timer' = (timer \/ address' # address \/ greedy' # greedy \/ asset' # asset)
    /\ convertTimer' = (convertTimer \/ input' # input \/ asset' # asset)

\* A variant that takes every answer.
CreateFinishedAnyway(c) ==
    /\ creates' = creates \ {c}
    /\ transaction' = c.details
    /\ WriteBack(c.details)
    /\ UNCHANGED <<bump, account, coins, fee, utxos, seq, fetches, conversions, result, current,
                   bounds, overlapped>>

\* A CreateTransactionTask finished; only the answer numbered last counts.
CreateFinished(c) ==
    /\ creates' = creates \ {c}
    /\ IF c.seq = seq
       THEN transaction' = c.details /\ WriteBack(c.details)
       ELSE UNCHANGED <<transaction, asset, address, greedy, input, timer, convertTimer>>
    /\ UNCHANGED <<bump, account, coins, fee, utxos, seq, fetches, conversions, result, current,
                   bounds, overlapped>>

CreateFailed(c) ==
    /\ creates' = creates \ {c}
    /\ transaction' = IF c.seq = seq THEN NoTx ELSE transaction
    /\ UNCHANGED <<inputs, utxos, timer, seq, fetches, convert, bounds, overlapped>>

\* Convert::timerEvent and update: GA_convert_amount in a thread, or an empty result
\* if there is no session; the controller hears of a result as a change.
ConvertTimerEvent ==
    /\ convertTimer /\ Room
    /\ convertTimer' = FALSE
    /\ \/ /\ conversions' = Append(conversions, [input |-> input, asset |-> asset])
          /\ current' = "pending"
          /\ UNCHANGED <<result, timer>>
       \/ /\ result' = NoResult /\ timer' = TRUE
          /\ current' = "shown"
          /\ UNCHANGED conversions
    /\ UNCHANGED <<inputs, utxos, seq, tasks, transaction, bounds, overlapped>>

\* Is the result of conversion i the latest, an earlier one, or one too late?
Arrived(i) ==
    IF current # "pending" THEN "overtaken"
    ELSE IF i = Len(conversions) THEN "shown" ELSE "pending"

\* A variant whose result starts another conversion.
ConvertedAgain(i) ==
    /\ result' \in {conversions[i], NoResult}
    /\ current' = Arrived(i)
    /\ conversions' = RemoveAt(conversions, i)
    /\ timer' = TRUE /\ convertTimer' = TRUE
    /\ UNCHANGED <<inputs, utxos, seq, tasks, transaction, bounds, overlapped>>

\* The watcher's finished handler: setResult with what the conversion gave, nothing if it
\* failed.
Converted(i) ==
    /\ result' \in {conversions[i], NoResult}
    /\ current' = Arrived(i)
    /\ conversions' = RemoveAt(conversions, i)
    /\ timer' = TRUE
    /\ UNCHANGED <<inputs, utxos, seq, tasks, convertTimer, transaction, bounds, overlapped>>

\* Session::tickerEvent or settingsChanged: the amount is converted again.
Tick ==
    /\ ticks < MaxTicks
    /\ ticks' = ticks + 1
    /\ convertTimer' = TRUE
    /\ UNCHANGED <<inputs, utxos, timer, seq, tasks, conversions, result, current, transaction,
                   changes, overlapped>>

-----------------------------------------------------------------------------
\* The page opens for an account, on a link or not, or to replace a transaction.
Init ==
    /\ bump \in BOOLEAN
    /\ account = CHOOSE a \in Accounts : TRUE
    /\ asset = CHOOSE s \in Assets : TRUE
    /\ address \in IF bump THEN {NoAddress} ELSE Links \cup {NoAddress}
    /\ greedy = FALSE /\ input = <<"zero">> /\ coins = FALSE /\ fee = 0
    /\ utxos = NoCoins
    /\ timer = TRUE /\ convertTimer = TRUE
    /\ seq = 0 /\ fetches = [a \in Accounts |-> 0] /\ creates = {}
    /\ conversions = <<>> /\ result = NoResult /\ current = "shown"
    /\ transaction = NoTx /\ changes = 0 /\ ticks = 0 /\ overlapped = FALSE

User ==
    \/ \E x \in Address : TypeAddress(x)
    \/ TypeAmount \/ SendAll
    \/ \E c \in BOOLEAN, f \in {0, 1} : ChangeOptions(c, f)
    \/ \E a \in Accounts, s \in Assets : Select(a, s)

Answer ==
    \/ \E a \in Accounts : FetchFinished(a) \/ FetchFailed(a)
    \/ \E c \in creates : CreateFinished(c) \/ CreateFailed(c)
    \/ \E i \in DOMAIN conversions : Converted(i)

Next == User \/ Tick \/ TimerEvent \/ ConvertTimerEvent \/ Answer

Spec == Init /\ [][Next]_vars

\* Timers fire and GDK answers every call.
FairSpec ==
    /\ Spec
    /\ WF_vars(TimerEvent) /\ WF_vars(ConvertTimerEvent)
    /\ WF_vars(Answer)

-----------------------------------------------------------------------------
(* Properties. *)

\* Type invariant.
TypeOK ==
    /\ bump \in BOOLEAN /\ greedy \in BOOLEAN /\ timer \in BOOLEAN /\ convertTimer \in BOOLEAN
    /\ account \in Accounts /\ asset \in Assets /\ utxos \in Accounts \cup {NoCoins}
    /\ address \in Address /\ input \in Amount
    /\ coins \in BOOLEAN /\ fee \in {0, 1}
    /\ seq \in Nat /\ fetches \in [Accounts -> Nat]
    /\ \A c \in creates : c.seq \in 1 .. seq
    /\ \A c, d \in creates : c.seq = d.seq => c = d
    /\ conversions \in Seq(Conversion) /\ result \in Conversion \cup {NoResult}
    /\ current \in {"pending", "shown", "overtaken"} /\ overlapped \in BOOLEAN
    /\ changes \in 0 .. MaxChanges /\ ticks \in 0 .. MaxTicks

\* Once nothing is under way, what is shown belongs to the inputs shown, but in the two
\* ways the code lets an answer overtake another.  The amount is the conversion of what
\* is entered, or empty, unless the result of an earlier conversion came last.  The
\* transaction is one created for these inputs, or none, if update had one created.
\* The coins are the account's, unless those of another were on their way when it was
\* selected.
ShowsWhatWasEntered ==
    Settled =>
        /\ current = "shown" => result \in {NoResult, [input |-> input, asset |-> asset]}
        /\ Complete => transaction \in {NoTx, Details(utxos)}
        /\ ~bump /\ ~overlapped => utxos \in {account, NoCoins}

\* While no change waits for its update and there is what a transaction needs, no
\* answer takes back what the user entered: at most it puts in what the link entered
\* stands for, or the amount that "send all" amounts to.
KeepsWhatWasTyped ==
    [][UNCHANGED changes /\ ~timer /\ ~bump /\ Complete =>
           /\ address' \in {address, Target(address)}
           /\ asset' # asset => address \in DOMAIN LinkAsset
           /\ greedy' # greedy => address \in Priced
           /\ input' # input => address \in Priced \/ (greedy /\ address \notin Links)]_vars

\* The page comes to rest between changes of the rate and of the settings: what answers
\* write back does not set off updates for ever.
Settles == <>[]Settled

\* What one might expect of the page instead, and the code does not provide: an answer
\* may overtake another, come before the update that a change has started, or count
\* although there are no coins or no address any more.
AlwaysShowsWhatWasEntered ==
    Settled =>
        /\ result \in {NoResult, [input |-> input, asset |-> asset]}
        /\ ~bump => utxos \in {account, NoCoins}
        /\ transaction \in {NoTx, Details(utxos)}

AlwaysKeepsWhatWasTyped ==
    [][UNCHANGED changes /\ ~bump => address' \in {address, Target(address)}]_vars

-----------------------------------------------------------------------------
(* The inductive invariant. *)

Shapes ==
    [account : Accounts, asset : Assets, coins : BOOLEAN, fee : {0, 1},
     utxos : Accounts \cup {NoCoins}, address : Address,
     satoshi : Conversion \cup {NoResult}, greedy : BOOLEAN]

\* The conversion started last is of the input there is now.
ConversionFollowsInput ==
    ~convertTimer =>
        /\ current = "pending" =>
               /\ conversions # <<>>
               /\ Last(conversions) = [input |-> input, asset |-> asset]
        /\ current = "shown" => result \in {NoResult, [input |-> input, asset |-> asset]}

\* The coins, those on their way too, are the account's.
CoinsFollowAccount ==
    ~bump /\ ~overlapped =>
        /\ utxos \in {account, NoCoins}
        /\ \A a \in Accounts : fetches[a] > 0 => a = account

\* With the timer off, the answer that counts is to the inputs there are now;
\* when it has come, the transaction shown is.
AnswerFollowsInputs ==
    ~timer /\ Complete =>
        /\ \A c \in creates : c.seq = seq => c.details = Details(utxos)
        /\ (\E c \in creates : c.seq = seq) \/ transaction \in {NoTx, Details(utxos)}

CreationInv ==
    /\ TypeOK
    /\ ~bump => \A c \in creates : c.details \in Shapes
    /\ ConversionFollowsInput /\ CoinsFollowAccount /\ AnswerFollowsInputs
=============================================================================
