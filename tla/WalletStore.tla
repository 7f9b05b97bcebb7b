------------------------------ MODULE WalletStore ------------------------------
(***************************************************************************)
(* The wallets on disk and in memory (src/src/wallet.cpp,                   *)
(* src/src/walletmanager.cpp) with what writes them: creating, renaming and *)
(* removing wallets, setting and disabling PINs, and logging in with a PIN  *)
(* (src/src/loginwithpincontroller.cpp, src/qml/PinLoginPage.qml), where    *)
(* every wrong answer takes an attempt off the record.                      *)
(*                                                                          *)
(* A wallet is one file of the directory wallets2.  Wallet::save truncates  *)
(* it and then writes it; the program may die in between, and whenever      *)
(* else.  The first start with this layout migrates the old directory, one  *)
(* record at a time, and a start that finds wallets2 does not migrate.      *)
(***************************************************************************)
EXTENDS Integers, FiniteSets

CONSTANTS
    New,         \* wallets created with this layout
    Old,         \* wallets of the old layout
    Logins,      \* Logins[o]: the logins the old record of o has
    MaxCrashes,  \* bound: crashes and restarts
    MaxTries,    \* bound: wrong PINs of a wallet in a row
    MaxOpen      \* bound: wallets logged in or with a PIN page at once

LoginType == {"pin", "device", "watchonly"}

ASSUME StoreAssumption ==
    /\ Logins \in [Old -> SUBSET LoginType]
    /\ MaxCrashes \in Nat
    /\ MaxOpen \in Nat
    /\ MaxTries \in Nat /\ MaxTries >= 3   \* the old records say up to three wrong PINs

\* Each login of an old record becomes a wallet of its own.
Migrated == {m \in Old \X LoginType : m[2] \in Logins[m[1]]}
Wallet == New \cup Migrated

\* What a record says: its login, and for a PIN the attempts that are left.
Content == [login : LoginType \cup {"none"}, attempts : (3 - MaxTries) .. 3]
Absent == [login |-> "absent", attempts |-> 0]
Torn == [login |-> "torn", attempts |-> 0]
Pin(n) == [login |-> "pin", attempts |-> n]
Plain(t) == [login |-> t, attempts |-> 3]

VARIABLES
    exists,    \* the directory wallets2 exists
    file,      \* file[w]: the record of w, Absent, or Torn when it does not parse
    proc,      \* the program: "down", "migrating" or "up"
    todo,      \* logins the running migration has yet to write
    writing,   \* the wallet whose file is truncated and not yet written
    mem,       \* mem[w]: the Wallet object, Absent when there is none
    shown,     \* WalletManager::m_wallets
    persisted, \* wallets with m_is_persisted
    context,   \* wallets with a context
    page,      \* page[w]: its PIN page: "closed", "busy", "ready", or "barred" from more PINs
    login,     \* login[w]: the PIN login: "none", "out", "right" or "failed"
    wrong,     \* wrong[w]: wrong PINs since the last right or new one
    removed,   \* wallets that were removed
    copies,    \* copies[m]: records the migration wrote for m
    crashes,   \* crashes so far
    interrupted \* a crash interrupted the migration after its first record

disk == <<exists, file>>
objects == <<mem, shown, persisted, context>>
history == <<wrong, removed, copies, crashes, interrupted>>
vars == <<disk, proc, todo, writing, objects, page, login, history>>

\* There is room for one more wallet that is logged in or has a PIN page.
Room == Cardinality(context \cup {w \in Wallet : page[w] # "closed"}) < MaxOpen

\* The program is at its event loop.
Idle == proc = "up" /\ writing = {}

-----------------------------------------------------------------------------
(* Saving. *)

\* The change of a wallet to c and Wallet::save, up to the truncated file.
Save(w, c) ==
    /\ mem' = [mem EXCEPT ![w] = c]
    /\ IF w \in persisted
       THEN /\ file' = [file EXCEPT ![w] = Torn]
            /\ writing' = {w}
       ELSE UNCHANGED <<file, writing>>

\* write and flush: the rest of Wallet::save, and of `add` in loadWallets.
Flush ==
    /\ \E w \in writing : file' = [file EXCEPT ![w] = mem[w]]
    /\ writing' = {}
    /\ UNCHANGED <<exists, proc, todo, objects, page, login, history>>

-----------------------------------------------------------------------------
(* Starting and dying. *)

\* The program dies, wherever it is.
Crash ==
    /\ proc # "down" /\ crashes < MaxCrashes
    /\ crashes' = crashes + 1
    /\ interrupted' = (interrupted \/ (proc = "migrating" /\ exists /\ todo \cup writing # {}))
    /\ proc' = "down"
    /\ writing' = {} /\ todo' = {}
    /\ mem' = [w \in Wallet |-> Absent]
    /\ shown' = {} /\ persisted' = {} /\ context' = {}
    /\ page' = [w \in Wallet |-> "closed"]
    /\ login' = [w \in Wallet |-> "none"]
    /\ UNCHANGED <<disk, wrong, removed, copies>>

\* ReadWalletRecord and what loadWallets makes of it: files that do not parse
\* and records without a login are skipped.
Loadable == {w \in Wallet : file[w] \in Content /\ file[w].login # "none"}

\* A variant that loads PIN records with all their attempts.
LoadAllAttempts ==
    /\ exists' = TRUE
    /\ proc' = "up"
    /\ mem' = [w \in Wallet |-> IF w \in Loadable THEN Plain(file[w].login) ELSE Absent]
    /\ shown' = Loadable
    /\ persisted' = Loadable

\* The second half of WalletManager::loadWallets.
Load ==
    /\ exists' = TRUE
    /\ proc' = "up"
    /\ mem' = [w \in Wallet |-> IF w \in Loadable THEN file[w] ELSE Absent]
    /\ shown' = Loadable
    /\ persisted' = Loadable

\* The program starts; without wallets2 it migrates first.
Start ==
    /\ proc = "down"
    /\ \/ ~exists /\ Migrated # {}
          /\ proc' = "migrating"
          /\ todo' = Migrated
          /\ UNCHANGED <<exists, mem, shown, persisted>>
       \/ (exists \/ Migrated = {}) /\ Load /\ UNCHANGED todo
    /\ UNCHANGED <<file, writing, context, page, login, history>>

\* A variant that takes one login of each old record.
LeftAfterOne(m) == {x \in todo : x[1] # m[1]}

\* What is left of the migration after m.
LeftAfter(m) == todo \ {m}

\* `add` in loadWallets for one login of an old record, up to the truncated
\* file: GetDataFile makes the directory.  The old record keeps its attempts.
Migrate(m) ==
    /\ proc = "migrating" /\ writing = {} /\ m \in todo
    /\ todo' = LeftAfter(m)
    /\ exists' = TRUE
    /\ file' = [file EXCEPT ![m] = Torn]
    /\ writing' = {m}
    /\ copies' = [copies EXCEPT ![m] = @ + 1]
    /\ \E n \in IF m[2] = "pin" THEN 0 .. 3 ELSE {3} :
           /\ mem' = [mem EXCEPT ![m] = [login |-> m[2], attempts |-> n]]
           /\ wrong' = [wrong EXCEPT ![m] = 3 - n]
    /\ UNCHANGED <<proc, shown, persisted, context, page, login, removed, crashes, interrupted>>

EndMigration ==
    /\ proc = "migrating" /\ writing = {} /\ todo = {}
    /\ Load
    /\ UNCHANGED <<file, todo, writing, context, page, login, history>>

-----------------------------------------------------------------------------
(* Wallets come and go. *)

\* createWallet and save or insertWallet: a wallet that signed up or was
\* restored has no login yet, one of a device has, and is kept on demand only.
Create(w, t, keep) ==
    /\ Idle /\ Room /\ mem[w] = Absent /\ file[w] = Absent /\ w \notin removed
    /\ mem' = [mem EXCEPT ![w] = Plain(t)]
    /\ IF keep
       THEN /\ persisted' = persisted \cup {w}
            /\ file' = [file EXCEPT ![w] = Torn]
            /\ writing' = {w}
       ELSE UNCHANGED <<persisted, file, writing>>
    /\ shown' = shown \cup {w}
    /\ context' = context \cup {w}
    /\ UNCHANGED <<exists, proc, todo, page, login, history>>

\* PinDataController::update and Controller::changePin.  PinData::setData saves the
\* old login before the new one is set: what that leaves if the program dies then is
\* what SaveAgain leaves.
SetPin(w) ==
    /\ Idle /\ w \in context
    /\ Save(w, Pin(3))
    /\ wrong' = [wrong EXCEPT ![w] = 0]
    /\ UNCHANGED <<exists, proc, todo, shown, persisted, context, page, login,
                   removed, copies, crashes, interrupted>>

\* Controller::disableAllPins: the wallet is not saved.
DisableAllPins(w) ==
    /\ Idle /\ w \in context
    /\ mem' = [mem EXCEPT ![w] = Plain("none")]
    /\ UNCHANGED <<disk, proc, todo, writing, shown, persisted, context, page, login, history>>

\* Wallet::rename, PinData::setPassphrase, the end of LoadController's loading.  A
\* wallet that was deleted is still persisted and keeps its context for a moment.
SaveAgain(w) ==
    /\ Idle /\ w \in shown \cup context
    /\ Save(w, mem[w])
    /\ UNCHANGED <<exists, proc, todo, shown, persisted, context, page, login, history>>

\* The page goes, and its controller with it: it hears no answer any more.
PageGone(w) ==
    /\ page' = [page EXCEPT ![w] = "closed"]
    /\ login' = [login EXCEPT ![w] = "none"]

\* A variant that leaves the PIN page open.
LoginOtherwiseKeepingPage(w) ==
    /\ Idle /\ (Room \/ page[w] # "closed") /\ w \in shown \ context
    /\ context' = context \cup {w}
    /\ UNCHANGED <<disk, proc, todo, writing, mem, shown, persisted, page, login, history>>

\* A login by other means: restoring the wallet's phrase, its device, watch-only.
LoginOtherwise(w) ==
    /\ Idle /\ (Room \/ page[w] # "closed") /\ w \in shown \ context
    /\ context' = context \cup {w}
    /\ PageGone(w)
    /\ UNCHANGED <<disk, proc, todo, writing, mem, shown, persisted, history>>

\* Wallet::disconnect; addWallet has the manager remove a wallet that is not kept.
Disconnect(w) ==
    /\ Idle /\ w \in context
    /\ context' = context \ {w}
    /\ shown' = IF w \in persisted THEN shown ELSE shown \ {w}
    /\ mem' = IF w \in persisted /\ w \in shown THEN mem ELSE [mem EXCEPT ![w] = Absent]
    /\ UNCHANGED <<disk, proc, todo, writing, persisted, page, login, history>>

\* A variant that leaves the PIN page of the wallet open.
RemoveWalletOnly(w) ==
    /\ Idle /\ w \in shown
    /\ shown' = shown \ {w}
    /\ file' = [file EXCEPT ![w] = Absent]
    /\ removed' = removed \cup {w}
    /\ UNCHANGED <<exists, proc, todo, writing, mem, persisted, context, page, login,
                   wrong, copies, crashes, interrupted>>

\* WalletManager::removeWallet: AppPage closes the wallet's pages before, the
\* wallet deleted by Controller::deleteWallet is disconnected a moment later.
RemoveWallet(w) ==
    /\ Idle /\ w \in shown
    /\ shown' = shown \ {w}
    /\ file' = [file EXCEPT ![w] = Absent]
    /\ removed' = removed \cup {w}
    /\ mem' = IF w \in context THEN mem ELSE [mem EXCEPT ![w] = Absent]
    /\ PageGone(w)
    /\ UNCHANGED <<exists, proc, todo, writing, persisted, context, wrong, copies, crashes, interrupted>>

-----------------------------------------------------------------------------
(* Logging in with a PIN. *)

\* The PIN page is opened: StackView.onActivating takes a PIN whatever the attempts.
OpenPage(w) ==
    /\ Idle /\ Room /\ w \in shown \ context /\ mem[w].login = "pin" /\ page[w] = "closed"
    /\ page' = [page EXCEPT ![w] = "ready"]
    /\ UNCHANGED <<disk, proc, todo, writing, objects, login, history>>

ClosePage(w) ==
    /\ Idle /\ page[w] # "closed"
    /\ PageGone(w)
    /\ UNCHANGED <<disk, proc, todo, writing, objects, history>>

\* onPinEntered and LoginController::loginWithPin; the context of the last login
\* is deleted, and the group that had yet to fail never does.
LoginWithPin(w) ==
    /\ Idle /\ page[w] = "ready"
    /\ page' = [page EXCEPT ![w] = "busy"]
    /\ login' = [login EXCEPT ![w] = "out"]
    /\ UNCHANGED <<disk, proc, todo, writing, objects, history>>

\* A variant of setAttempts that does not save.
SetAttemptsUnsaved(w, n) ==
    /\ mem' = [mem EXCEPT ![w] = Pin(n)]
    /\ UNCHANGED <<file, writing>>

\* PinData::setAttempts.
SetAttempts(w, n) ==
    IF mem[w].attempts = n THEN UNCHANGED <<mem, file, writing>> ELSE Save(w, Pin(n))

\* The field of the page is enabled or not, unless the page is barred.
EnableField(w, yes) ==
    page' = [page EXCEPT ![w] = IF @ = "barred" THEN @ ELSE IF yes THEN "ready" ELSE "busy"]

\* The LoginTask finished: resetAttempts.
PinRight(w) ==
    /\ Idle /\ login[w] = "out"
    /\ SetAttempts(w, 3)
    /\ login' = [login EXCEPT ![w] = "right"]
    /\ wrong' = [wrong EXCEPT ![w] = 0]
    /\ UNCHANGED <<exists, proc, todo, shown, persisted, context, page,
                   removed, copies, crashes, interrupted>>

\* "id_invalid_pin": decrementAttempts, then the page's onInvalidPin.
PinWrong(w) ==
    /\ Idle /\ login[w] = "out" /\ wrong[w] < MaxTries
    /\ SetAttempts(w, mem[w].attempts - 1)
    /\ login' = [login EXCEPT ![w] = "failed"]
    /\ wrong' = [wrong EXCEPT ![w] = @ + 1]
    /\ EnableField(w, mem'[w].attempts > 0)
    /\ UNCHANGED <<exists, proc, todo, shown, persisted, context,
                   removed, copies, crashes, interrupted>>

\* Any other failure of the connection or the login.
PinError(w) ==
    /\ Idle /\ login[w] = "out"
    /\ login' = [login EXCEPT ![w] = "failed"]
    /\ UNCHANGED <<disk, proc, todo, writing, objects, page, history>>

\* The group finished: the wallet has its context and the loading page comes.
LoginFinished(w) ==
    /\ Idle /\ login[w] = "right"
    /\ context' = context \cup {w}
    /\ PageGone(w)
    /\ UNCHANGED <<disk, proc, todo, writing, mem, shown, persisted, history>>

\* The group failed, maybe by its GetCredentialsTask: onLoginFailed enables the
\* field whatever the attempts.
LoginFailed(w) ==
    /\ Idle /\ login[w] \in {"right", "failed"}
    /\ login' = [login EXCEPT ![w] = "none"]
    /\ EnableField(w, TRUE)
    /\ UNCHANGED <<disk, proc, todo, writing, objects, history>>

\* Two seconds with no attempts left: the page offers to restore the wallet.
NoAttempts(w) ==
    /\ Idle /\ page[w] \in {"ready", "busy"} /\ mem[w].attempts = 0
    /\ page' = [page EXCEPT ![w] = "barred"]
    /\ UNCHANGED <<disk, proc, todo, writing, objects, login, history>>

-----------------------------------------------------------------------------
Init ==
    /\ exists = FALSE
    /\ file = [w \in Wallet |-> Absent]
    /\ proc = "down"
    /\ todo = {} /\ writing = {}
    /\ mem = [w \in Wallet |-> Absent]
    /\ shown = {} /\ persisted = {} /\ context = {}
    /\ page = [w \in Wallet |-> "closed"]
    /\ login = [w \in Wallet |-> "none"]
    /\ wrong = [w \in Wallet |-> 0]
    /\ removed = {}
    /\ copies = [m \in Migrated |-> 0]
    /\ crashes = 0 /\ interrupted = FALSE

Store(w) ==
    \/ SetPin(w) \/ DisableAllPins(w) \/ SaveAgain(w)
    \/ LoginOtherwise(w) \/ Disconnect(w) \/ RemoveWallet(w)

PinLogin(w) ==
    \/ OpenPage(w) \/ LoginWithPin(w) \/ ClosePage(w)
    \/ PinRight(w) \/ PinWrong(w) \/ PinError(w)
    \/ LoginFinished(w) \/ LoginFailed(w) \/ NoAttempts(w)

Next ==
    \/ Crash \/ Start \/ EndMigration \/ Flush
    \/ \E m \in Migrated : Migrate(m)
    \/ \E w \in New : Create(w, "none", TRUE)
    \/ \E w \in New, keep \in BOOLEAN : Create(w, "device", keep)
    \/ \E w \in Wallet : Store(w) \/ PinLogin(w)

Spec == Init /\ [][Next]_vars

-----------------------------------------------------------------------------
(* Properties. *)

\* Type invariant; one file at most is being written, every wallet shown
\* exists, and the PIN page is open only for wallets without a context.
TypeOK ==
    /\ exists \in BOOLEAN /\ interrupted \in BOOLEAN
    /\ file \in [Wallet -> Content \cup {Absent, Torn}]
    /\ mem \in [Wallet -> Content \cup {Absent}]
    /\ proc \in {"down", "migrating", "up"}
    /\ todo \subseteq Migrated
    /\ writing = {} \/ \E w \in Wallet : writing = {w}
    /\ shown \cup context \subseteq {w \in Wallet : mem[w] # Absent}
    /\ persisted \subseteq Wallet /\ removed \subseteq Wallet
    /\ page \in [Wallet -> {"closed", "busy", "ready", "barred"}]
    /\ \A w \in Wallet : page[w] # "closed" => w \in shown \ context
    /\ login \in [Wallet -> {"none", "out", "right", "failed"}]
    /\ wrong \in [Wallet -> 0 .. MaxTries]
    /\ copies \in [Migrated -> Nat]
    /\ crashes \in 0 .. MaxCrashes

\* The record of every kept wallet that has a login and is not just being written
\* says what the wallet says: no change of a PIN, of its attempts or of a login is
\* left unsaved, whatever came between.
RecordsFollowWallets ==
    proc = "up" => \A w \in (shown \cap persisted) \ writing :
                       mem[w].login # "none" => file[w] = mem[w]

\* In memory and on disk, whatever restarts and logins come between, a wallet has
\* exactly the attempts that the wrong PINs since the last right or new one left:
\* PinData::decrementAttempts saves before anything else happens.
AttemptsAreCounted ==
    \A w \in Wallet :
        /\ mem[w].login = "pin" => mem[w].attempts = 3 - wrong[w]
        /\ file[w].login = "pin" => file[w].attempts = 3 - wrong[w]

\* Once a wallet that was removed has lost its context as well, nothing writes its
\* file: no PIN login that was on its way, no write that was under way, no restart.
\* A file that comes back has been saved in the half second in between, and the wallet
\* is listed again at the next start.
NoWriteAfterRemoval ==
    [][\A w \in removed \ (shown \cup context) : file'[w] = file[w]]_vars

\* Unless a crash interrupts it after its first record the migration writes
\* every login of every old record, and it never writes one twice.
MigrationIsComplete ==
    \A m \in Migrated :
        /\ copies[m] <= 1
        /\ proc = "up" /\ ~interrupted => copies[m] = 1

\* What the invariants above rest on.  Only a wallet with a context may not be
\* kept, and then it has no file; the PIN page is for kept wallets with a PIN.
WalletsInPlace ==
    /\ proc # "up" => shown = {} /\ context = {}
    /\ proc = "down" => writing = {}
    /\ persisted \subseteq shown \cup removed
    /\ proc = "up" => exists /\ writing \subseteq persisted
    /\ shown \ context \subseteq persisted
    /\ \A w \in context \ persisted : file[w] = Absent
    /\ \A w \in Wallet : page[w] # "closed" => mem[w].login = "pin"
    /\ \A w \in Wallet : login[w] # "none" => page[w] # "closed"

\* Only a context, or the list after a restart, leads to the file of a removed wallet.
RemovedInPlace ==
    /\ removed \cap writing \subseteq shown \cup context
    /\ ~exists \/ proc = "migrating" => removed = {}

\* How far the migration is.
MigrationInPlace ==
    /\ proc = "migrating" => \A m \in Migrated : copies[m] = IF m \in todo THEN 0 ELSE 1
    /\ proc = "migrating" /\ ~exists => todo = Migrated
    /\ ~exists => \A m \in Migrated : copies[m] = 0
    /\ exists /\ proc # "migrating" /\ ~interrupted => \A m \in Migrated : copies[m] = 1

\* The inductive invariant.
StoreInv ==
    /\ TypeOK /\ WalletsInPlace
    /\ RecordsFollowWallets /\ AttemptsAreCounted
    /\ RemovedInPlace
    /\ MigrationIsComplete /\ MigrationInPlace

\* What the user is told (id_this_will_log_you_out_and: "delete this wallet from the
\* app"): the file of a deleted wallet is gone.
DeletedForGood == \A w \in removed : file[w] = Absent

\* The code asserts that there is an attempt left to take: Q_ASSERT(m_attempts > 0).
AttemptsStayPositive == \A w \in Wallet : mem[w].attempts >= 0
=============================================================================
