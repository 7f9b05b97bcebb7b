--------------------------- MODULE WalletStoreProofs ---------------------------
(* The invariants of WalletStore hold for any wallets, any old records and any *)
(* number of crashes.  StoreInv is inductive; the proof goes action by action. *)
EXTENDS WalletStore, TLAPS

\* The records that exist, the one that does not and the torn one are told apart
\* by their login.
LEMMA RecordsDiffer ==
    /\ Absent.login = "absent" /\ Torn.login = "torn"
    /\ Absent \notin Content /\ Torn \notin Content /\ Absent # Torn
    /\ \A c \in Content : c.login \in LoginType \cup {"none"}
    /\ \A t \in LoginType \cup {"none"} : Plain(t) \in Content /\ Plain(t).login = t
    /\ \A t \in LoginType \cup {"none"} : Plain(t).attempts = 3
    /\ \A n \in (3 - MaxTries) .. 3 : /\ Pin(n) \in Content
                                     /\ Pin(n).login = "pin" /\ Pin(n).attempts = n
    /\ 0 \in 0 .. MaxTries
    /\ \A n \in 0 .. 3 : n \in (3 - MaxTries) .. 3 /\ 3 - n \in 0 .. MaxTries
  BY StoreAssumption DEF Absent, Torn, Content, LoginType, Plain, Pin

\* Each login that is migrated is a wallet, and has a type.
LEMMA MigratedAreWallets ==
    /\ Migrated \subseteq Wallet
    /\ \A m \in Migrated : m[2] \in LoginType
  BY DEF Migrated, Wallet

-----------------------------------------------------------------------------
LEMMA InitInv == Init => StoreInv
  <1> SUFFICES ASSUME Init PROVE StoreInv
    OBVIOUS
  <1>1. TypeOK
    <2>1. exists \in BOOLEAN /\ interrupted \in BOOLEAN
      BY DEF Init
    <2>2. wrong \in [Wallet -> 0 .. MaxTries] /\ crashes \in 0 .. MaxCrashes
      BY RecordsDiffer, StoreAssumption DEF Init
    <2>3. file \in [Wallet -> Content \cup {Absent, Torn}] /\ mem \in [Wallet -> Content \cup {Absent}]
      BY DEF Init
    <2>4. copies \in [Migrated -> Nat]
      BY DEF Init
    <2>5. QED
      BY <2>1, <2>2, <2>3, <2>4 DEF Init, TypeOK
  <1>2. WalletsInPlace /\ RecordsFollowWallets
    BY DEF Init, WalletsInPlace, RecordsFollowWallets
  <1>3. AttemptsAreCounted
    BY RecordsDiffer DEF Init, AttemptsAreCounted
  <1>4. RemovedInPlace
    BY DEF Init, RemovedInPlace
  <1>5. MigrationIsComplete /\ MigrationInPlace
    BY DEF Init, MigrationIsComplete, MigrationInPlace
  <1>6. QED
    BY <1>1, <1>2, <1>3, <1>4, <1>5 DEF StoreInv

\* The program dies: nothing is left in memory, and what is on disk is as it was.
LEMMA CrashInv == StoreInv /\ Crash => StoreInv'
  <1> SUFFICES ASSUME StoreInv, Crash PROVE StoreInv'
    OBVIOUS
  <1> USE DEF StoreInv, Crash, disk
  <1>1. TypeOK'
    <2>1. exists' \in BOOLEAN /\ interrupted' \in BOOLEAN
      BY Zenon DEF TypeOK
    <2>2. crashes' \in 0 .. MaxCrashes
      BY StoreAssumption DEF TypeOK
    <2>3. /\ file' \in [Wallet -> Content \cup {Absent, Torn}]
          /\ mem' \in [Wallet -> Content \cup {Absent}]
      BY DEF TypeOK
    <2>4. QED
      BY <2>1, <2>2, <2>3 DEF TypeOK
  <1>2. WalletsInPlace' /\ RecordsFollowWallets'
    BY DEF WalletsInPlace, RecordsFollowWallets
  <1>3. AttemptsAreCounted'
    BY RecordsDiffer DEF AttemptsAreCounted
  <1>4. RemovedInPlace'
    BY DEF RemovedInPlace
  <1>5. MigrationIsComplete' /\ MigrationInPlace'
    BY DEF TypeOK, MigrationIsComplete, MigrationInPlace, WalletsInPlace
  <1>6. QED
    BY <1>1, <1>2, <1>3, <1>4, <1>5

\* Loading reads every record as it is (the second half of loadWallets).
LEMMA LoadLemma ==
    ASSUME StoreInv, Load, proc # "up", writing = {},
           UNCHANGED <<file, writing, context, page, login, history>>
    PROVE  /\ mem' \in [Wallet -> Content \cup {Absent}]
           /\ shown' \subseteq {w \in Wallet : mem'[w] # Absent}
           /\ WalletsInPlace' /\ RecordsFollowWallets' /\ AttemptsAreCounted'
           /\ RemovedInPlace'
  <1> USE DEF StoreInv, Load, history
  <1>1. Loadable \subseteq Wallet /\ \A w \in Loadable : file[w] \in Content
    BY DEF Loadable
  <1>2. mem' \in [Wallet -> Content \cup {Absent}]
    BY <1>1
  <1>3. shown' \subseteq {w \in Wallet : mem'[w] # Absent}
    BY <1>1, RecordsDiffer
  <1>4. WalletsInPlace' /\ RecordsFollowWallets'
    BY <1>1 DEF TypeOK, WalletsInPlace, RecordsFollowWallets
  <1>5. AttemptsAreCounted'
    BY <1>1, RecordsDiffer DEF AttemptsAreCounted
  <1>6. RemovedInPlace'
    BY <1>1, RecordsDiffer DEF TypeOK, RemovedInPlace
  <1>7. QED
    BY <1>2, <1>3, <1>4, <1>5, <1>6

LEMMA StartInv == StoreInv /\ Start => StoreInv'
  <1> SUFFICES ASSUME StoreInv, Start PROVE StoreInv'
    OBVIOUS
  <1>1. CASE /\ ~exists /\ Migrated # {}
             /\ proc' = "migrating" /\ todo' = Migrated
             /\ UNCHANGED <<exists, mem, shown, persisted>>
    <2> USE <1>1 DEF StoreInv, Start, history
    <2>1. TypeOK'
      BY DEF TypeOK
    <2>2. WalletsInPlace' /\ RecordsFollowWallets'
      BY DEF WalletsInPlace, RecordsFollowWallets
    <2>3. AttemptsAreCounted'
      BY DEF AttemptsAreCounted
    <2>4. RemovedInPlace'
      BY DEF RemovedInPlace
    <2>5. MigrationIsComplete' /\ MigrationInPlace'
      BY DEF MigrationIsComplete, MigrationInPlace
    <2>6. QED
      BY <2>1, <2>2, <2>3, <2>4, <2>5
  <1>2. CASE (exists \/ Migrated = {}) /\ Load /\ UNCHANGED todo
    <2>1. /\ writing = {} /\ proc = "down"
          /\ UNCHANGED <<file, writing, context, page, login, history>>
      BY <1>2 DEF Start, StoreInv, WalletsInPlace
    <2>2. /\ mem' \in [Wallet -> Content \cup {Absent}]
          /\ shown' \subseteq {w \in Wallet : mem'[w] # Absent}
          /\ WalletsInPlace' /\ RecordsFollowWallets' /\ AttemptsAreCounted'
          /\ RemovedInPlace'
      BY <1>2, <2>1, LoadLemma
    <2>3. TypeOK'
      BY <1>2, <2>1, <2>2 DEF StoreInv, TypeOK, WalletsInPlace, Load, Loadable, history
    <2>4. MigrationIsComplete' /\ MigrationInPlace'
      BY <1>2, <2>1 DEF StoreInv, Load, MigrationIsComplete, MigrationInPlace, history
    <2>5. QED
      BY <2>2, <2>3, <2>4 DEF StoreInv
  <1>3. QED
    BY <1>1, <1>2 DEF Start

LEMMA EndMigrationInv == StoreInv /\ EndMigration => StoreInv'
  <1> SUFFICES ASSUME StoreInv, EndMigration PROVE StoreInv'
    OBVIOUS
  <1>1. /\ Load /\ UNCHANGED <<file, todo, writing, context, page, login, history>>
        /\ proc = "migrating" /\ writing = {} /\ todo = {}
    BY DEF EndMigration
  <1>2. /\ mem' \in [Wallet -> Content \cup {Absent}]
        /\ shown' \subseteq {w \in Wallet : mem'[w] # Absent}
        /\ WalletsInPlace' /\ RecordsFollowWallets' /\ AttemptsAreCounted'
        /\ RemovedInPlace'
    BY <1>1, LoadLemma
  <1>3. TypeOK'
    BY <1>1, <1>2 DEF StoreInv, TypeOK, WalletsInPlace, Load, Loadable, history
  <1>4. MigrationIsComplete' /\ MigrationInPlace'
    BY <1>1 DEF StoreInv, Load, MigrationIsComplete, MigrationInPlace, history
  <1>5. QED
    BY <1>2, <1>3, <1>4 DEF StoreInv

-----------------------------------------------------------------------------
\* A record is truncated: nothing of it counts until it is written again.
LEMMA MigrateInv == StoreInv /\ (\E m \in Migrated : Migrate(m)) => StoreInv'
  <1> SUFFICES ASSUME StoreInv, NEW m \in Migrated, Migrate(m) PROVE StoreInv'
    OBVIOUS
  <1> USE MigratedAreWallets DEF StoreInv, Migrate, LeftAfter
  <1>1. PICK n \in IF m[2] = "pin" THEN 0 .. 3 ELSE {3} :
            /\ mem' = [mem EXCEPT ![m] = [login |-> m[2], attempts |-> n]]
            /\ wrong' = [wrong EXCEPT ![m] = 3 - n]
    OBVIOUS
  <1>2. /\ n \in 0 .. 3 /\ n \in (3 - MaxTries) .. 3 /\ 3 - n \in 0 .. MaxTries
        /\ [login |-> m[2], attempts |-> n] \in Content
        /\ n = 3 - (3 - n)
    <2>1. n \in 0 .. 3
      BY <1>1
    <2>2. QED
      BY <2>1, RecordsDiffer DEF Content
  <1>3. TypeOK'
    <2>1. mem' \in [Wallet -> Content \cup {Absent}] /\ wrong' \in [Wallet -> 0 .. MaxTries]
      BY <1>1, <1>2 DEF TypeOK
    <2>2. exists' \in BOOLEAN /\ copies' \in [Migrated -> Nat]
      BY DEF TypeOK
    <2>3. shown = {} /\ context = {}
      BY DEF WalletsInPlace
    <2>4. QED
      BY <2>1, <2>2, <2>3 DEF TypeOK
  <1>4. WalletsInPlace' /\ RecordsFollowWallets'
    BY <1>1 DEF TypeOK, WalletsInPlace, RecordsFollowWallets
  <1>5. AttemptsAreCounted'
    BY <1>1, <1>2, RecordsDiffer DEF TypeOK, AttemptsAreCounted
  <1>6. RemovedInPlace'
    BY DEF TypeOK, RemovedInPlace, MigrationInPlace
  <1>7. MigrationIsComplete' /\ MigrationInPlace'
    BY DEF TypeOK, MigrationIsComplete, MigrationInPlace
  <1>8. QED
    BY <1>3, <1>4, <1>5, <1>6, <1>7

\* A step of the program that is up leaves the migration as it is.
LEMMA MigrationUntouched ==
    ASSUME StoreInv, proc = "up", UNCHANGED <<exists, proc, todo, copies, interrupted>>
    PROVE  MigrationIsComplete' /\ MigrationInPlace'
  BY DEF StoreInv, MigrationIsComplete, MigrationInPlace

\* A step that changes only the pages of a wallet and its login.
LEMMA PageStep ==
    ASSUME StoreInv, Idle, NEW w \in Wallet,
           NEW p \in {"closed", "busy", "ready", "barred"},
           NEW l \in {"none", "out", "right", "failed"},
           page' = [page EXCEPT ![w] = p], login' = [login EXCEPT ![w] = l],
           p # "closed" => w \in shown \ context /\ mem[w].login = "pin",
           l # "none" => p # "closed",
           UNCHANGED <<disk, proc, todo, writing, objects, history>>
    PROVE  StoreInv'
  <1> USE DEF disk, objects, history
  <1>1. TypeOK'
    BY DEF StoreInv, TypeOK
  <1>2. WalletsInPlace' /\ RecordsFollowWallets'
    BY DEF StoreInv, TypeOK, WalletsInPlace, RecordsFollowWallets
  <1>3. AttemptsAreCounted'
    BY DEF StoreInv, AttemptsAreCounted
  <1>4. RemovedInPlace'
    BY DEF StoreInv, RemovedInPlace
  <1>5. MigrationIsComplete' /\ MigrationInPlace'
    BY MigrationUntouched DEF Idle
  <1>6. QED
    BY <1>1, <1>2, <1>3, <1>4, <1>5 DEF StoreInv

\* The change of a wallet that may be saved: its file is torn until the flush.
LEMMA SaveLemma ==
    ASSUME StoreInv, Idle, NEW w \in Wallet, NEW c \in Content, Save(w, c),
           w \in shown \cup context
    PROVE  /\ mem' \in [Wallet -> Content \cup {Absent}]
           /\ file' \in [Wallet -> Content \cup {Absent, Torn}]
           /\ writing' = {} \/ writing' = {w}
           /\ \A v \in Wallet \ {w} : mem'[v] = mem[v] /\ file'[v] = file[v]
           /\ mem'[w] = c
           /\ IF w \in persisted
              THEN file'[w] = Torn /\ writing' = {w}
              ELSE file'[w] = Absent /\ writing' = {} /\ w \in context
  BY DEF StoreInv, Idle, Save, TypeOK, WalletsInPlace, RemovedInPlace

\* A step that changes a wallet, saves it and may change the login of its page.
LEMMA SaveStep ==
    ASSUME StoreInv, Idle, NEW w \in Wallet, NEW c \in Content, Save(w, c),
           w \in shown \cup context,
           UNCHANGED <<exists, proc, todo, shown, persisted, context, removed, copies,
                       crashes, interrupted>>,
           wrong' \in [Wallet -> 0 .. MaxTries],
           \A v \in Wallet \ {w} : wrong'[v] = wrong[v],
           c.login = "pin" => c.attempts = 3 - wrong'[w],
           page' \in [Wallet -> {"closed", "busy", "ready", "barred"}],
           login' \in [Wallet -> {"none", "out", "right", "failed"}],
           \A v \in Wallet : page'[v] # "closed" <=> page[v] # "closed",
           \A v \in Wallet \ {w} : login'[v] = login[v],
           login'[w] # "none" => page[w] # "closed",
           page[w] # "closed" => c.login = "pin"
    PROVE  StoreInv'
  <1>1. /\ mem' \in [Wallet -> Content \cup {Absent}]
        /\ file' \in [Wallet -> Content \cup {Absent, Torn}]
        /\ writing' = {} \/ writing' = {w}
        /\ \A v \in Wallet \ {w} : mem'[v] = mem[v] /\ file'[v] = file[v]
        /\ mem'[w] = c
        /\ IF w \in persisted
           THEN file'[w] = Torn /\ writing' = {w}
           ELSE file'[w] = Absent /\ writing' = {} /\ w \in context
    BY SaveLemma
  <1>2. TypeOK'
    BY <1>1, RecordsDiffer DEF StoreInv, TypeOK
  <1>3. WalletsInPlace'
    BY <1>1 DEF StoreInv, TypeOK, WalletsInPlace, Idle
  <1>4. RecordsFollowWallets'
    BY <1>1 DEF StoreInv, TypeOK, RecordsFollowWallets, Idle
  <1>5. AttemptsAreCounted'
    BY <1>1, RecordsDiffer DEF StoreInv, TypeOK, AttemptsAreCounted
  <1>6. RemovedInPlace'
    BY <1>1 DEF StoreInv, TypeOK, RemovedInPlace, Idle
  <1>7. MigrationIsComplete' /\ MigrationInPlace'
    BY MigrationUntouched DEF Idle
  <1>8. QED
    BY <1>2, <1>3, <1>4, <1>5, <1>6, <1>7 DEF StoreInv

LEMMA FlushInv == StoreInv /\ Flush => StoreInv'
  <1> SUFFICES ASSUME StoreInv, NEW w \in writing, file' = [file EXCEPT ![w] = mem[w]],
                      writing' = {},
                      UNCHANGED <<exists, proc, todo, objects, page, login, history>>
               PROVE StoreInv'
    BY DEF Flush
  <1> USE DEF objects, history
  <1>1. w \in Wallet /\ writing = {w}
    BY DEF StoreInv, TypeOK
  <1>2. TypeOK'
    BY <1>1 DEF StoreInv, TypeOK
  <1>3. WalletsInPlace' /\ RecordsFollowWallets'
    BY <1>1 DEF StoreInv, TypeOK, WalletsInPlace, RecordsFollowWallets
  <1>4. AttemptsAreCounted'
    BY <1>1 DEF StoreInv, TypeOK, AttemptsAreCounted
  <1>5. RemovedInPlace'
    BY <1>1 DEF StoreInv, TypeOK, RemovedInPlace
  <1>6. MigrationIsComplete' /\ MigrationInPlace'
    BY DEF StoreInv, MigrationIsComplete, MigrationInPlace
  <1>7. QED
    BY <1>2, <1>3, <1>4, <1>5, <1>6 DEF StoreInv

-----------------------------------------------------------------------------
LEMMA CreateInv ==
    ASSUME StoreInv, NEW w \in New, NEW t \in {"none", "device"}, NEW keep \in BOOLEAN,
           Create(w, t, keep), keep \/ t = "device"
    PROVE  StoreInv'
  <1> USE DEF Create, Idle, history
  <1>1. w \in Wallet /\ Plain(t) \in Content /\ Plain(t) # Absent /\ Plain(t).login = t
    BY RecordsDiffer DEF Wallet, LoginType
  <1>2. w \notin shown /\ w \notin context /\ w \notin persisted
    BY <1>1 DEF StoreInv, TypeOK, WalletsInPlace
  <1>3. TypeOK'
    BY <1>1, <1>2 DEF StoreInv, TypeOK
  <1>4. WalletsInPlace'
    BY <1>1, <1>2 DEF StoreInv, TypeOK, WalletsInPlace
  <1>5. RecordsFollowWallets'
    BY <1>1, <1>2 DEF StoreInv, TypeOK, RecordsFollowWallets
  <1>6. AttemptsAreCounted'
    BY <1>1, RecordsDiffer DEF StoreInv, TypeOK, AttemptsAreCounted
  <1>7. RemovedInPlace'
    BY <1>1 DEF StoreInv, TypeOK, RemovedInPlace
  <1>8. MigrationIsComplete' /\ MigrationInPlace'
    BY MigrationUntouched
  <1>9. QED
    BY <1>3, <1>4, <1>5, <1>6, <1>7, <1>8 DEF StoreInv

LEMMA StoreStepInv == ASSUME StoreInv, NEW w \in Wallet, Store(w) PROVE StoreInv'
  <1>1. CASE SetPin(w)
    <2>1. Pin(3) \in Content /\ Pin(3).login = "pin" /\ Pin(3).attempts = 3 - 0 /\ 0 \in 0 .. MaxTries
      BY RecordsDiffer
    <2>2. wrong' \in [Wallet -> 0 .. MaxTries] /\ wrong'[w] = 0
      BY <1>1, <2>1 DEF SetPin, StoreInv, TypeOK
    <2>3. page[w] = "closed" /\ login[w] = "none"
      BY <1>1 DEF SetPin, StoreInv, TypeOK, WalletsInPlace
    <2>4. QED
      BY <1>1, <2>1, <2>2, <2>3, SaveStep DEF SetPin, StoreInv, TypeOK
  <1>2. CASE SaveAgain(w)
    <2>1. mem[w] \in Content /\ w \in shown \cup context
      BY <1>2 DEF SaveAgain, StoreInv, TypeOK
    <2>2. mem[w].login = "pin" => mem[w].attempts = 3 - wrong[w]
      BY DEF StoreInv, AttemptsAreCounted
    <2>3. (login[w] # "none" => page[w] # "closed") /\ (page[w] # "closed" => mem[w].login = "pin")
      BY DEF StoreInv, WalletsInPlace
    <2>4. QED
      BY <1>2, <2>1, <2>2, <2>3, SaveStep DEF SaveAgain, StoreInv, TypeOK, history
  <1>3. CASE DisableAllPins(w)
    <2> USE <1>3 DEF DisableAllPins, disk, history
    <2>1. Plain("none") \in Content /\ Plain("none").login = "none"
      BY RecordsDiffer
    <2>2. TypeOK'
      BY <2>1, RecordsDiffer DEF StoreInv, TypeOK
    <2>3. WalletsInPlace' /\ RecordsFollowWallets'
      BY <2>1 DEF StoreInv, TypeOK, WalletsInPlace, RecordsFollowWallets
    <2>4. AttemptsAreCounted'
      BY <2>1 DEF StoreInv, TypeOK, AttemptsAreCounted
    <2>5. RemovedInPlace'
      BY DEF StoreInv, RemovedInPlace
    <2>6. MigrationIsComplete' /\ MigrationInPlace'
      BY MigrationUntouched DEF Idle
    <2>7. QED
      BY <2>2, <2>3, <2>4, <2>5, <2>6 DEF StoreInv
  <1>4. CASE LoginOtherwise(w)
    <2> USE <1>4 DEF LoginOtherwise, PageGone, disk, history
    <2>1. TypeOK'
      BY DEF StoreInv, TypeOK
    <2>2. WalletsInPlace' /\ RecordsFollowWallets'
      BY DEF StoreInv, TypeOK, WalletsInPlace, RecordsFollowWallets, Idle
    <2>3. AttemptsAreCounted'
      BY DEF StoreInv, AttemptsAreCounted
    <2>4. RemovedInPlace'
      BY DEF StoreInv, RemovedInPlace
    <2>5. MigrationIsComplete' /\ MigrationInPlace'
      BY MigrationUntouched DEF Idle
    <2>6. QED
      BY <2>1, <2>2, <2>3, <2>4, <2>5 DEF StoreInv
  <1>5. CASE Disconnect(w)
    <2> USE <1>5 DEF Disconnect, disk, history
    <2>1. TypeOK'
      BY RecordsDiffer DEF StoreInv, TypeOK
    <2>2. WalletsInPlace' /\ RecordsFollowWallets'
      BY RecordsDiffer DEF StoreInv, TypeOK, WalletsInPlace, RecordsFollowWallets, Idle
    <2>3. AttemptsAreCounted'
      BY RecordsDiffer DEF StoreInv, TypeOK, AttemptsAreCounted
    <2>4. RemovedInPlace'
      BY DEF StoreInv, RemovedInPlace, Idle
    <2>5. MigrationIsComplete' /\ MigrationInPlace'
      BY MigrationUntouched DEF Idle
    <2>6. QED
      BY <2>1, <2>2, <2>3, <2>4, <2>5 DEF StoreInv
  <1>6. CASE RemoveWallet(w)
    <2> USE <1>6 DEF RemoveWallet, PageGone
    <2>1. TypeOK'
      BY RecordsDiffer DEF StoreInv, TypeOK
    <2>2. WalletsInPlace' /\ RecordsFollowWallets'
      BY RecordsDiffer DEF StoreInv, TypeOK, WalletsInPlace, RecordsFollowWallets, Idle
    <2>3. AttemptsAreCounted'
      BY RecordsDiffer DEF StoreInv, TypeOK, AttemptsAreCounted
    <2>4. RemovedInPlace'
      BY DEF StoreInv, TypeOK, WalletsInPlace, RemovedInPlace, Idle
    <2>5. MigrationIsComplete' /\ MigrationInPlace'
      BY MigrationUntouched DEF Idle
    <2>6. QED
      BY <2>1, <2>2, <2>3, <2>4, <2>5 DEF StoreInv
  <1>7. QED
    BY <1>1, <1>2, <1>3, <1>4, <1>5, <1>6 DEF Store

-----------------------------------------------------------------------------
\* An answer that sets the attempts of a PIN: the record goes with them.
LEMMA AttemptsStep ==
    ASSUME StoreInv, Idle, NEW w \in Wallet, NEW n \in (3 - MaxTries) .. 3,
           SetAttempts(w, n), page[w] # "closed",
           UNCHANGED <<exists, proc, todo, shown, persisted, context, removed, copies,
                       crashes, interrupted>>,
           wrong' = [wrong EXCEPT ![w] = 3 - n],
           page' \in [Wallet -> {"closed", "busy", "ready", "barred"}],
           \A v \in Wallet : page'[v] # "closed" <=> page[v] # "closed",
           NEW l \in {"none", "out", "right", "failed"}, login' = [login EXCEPT ![w] = l]
    PROVE  StoreInv'
  <1>1. w \in shown \ context /\ mem[w] \in Content /\ mem[w].login = "pin"
    BY DEF StoreInv, TypeOK, WalletsInPlace
  <1>2. /\ wrong' \in [Wallet -> 0 .. MaxTries] /\ wrong'[w] = 3 - n
        /\ n = 3 - wrong'[w]
    BY StoreAssumption DEF StoreInv, TypeOK
  <1>3. CASE mem[w].attempts # n
    <2>1. Save(w, Pin(n)) /\ Pin(n) \in Content /\ Pin(n).login = "pin" /\ Pin(n).attempts = n
      BY <1>3, RecordsDiffer DEF SetAttempts
    <2>2. QED
      BY <1>1, <1>2, <2>1, SaveStep DEF StoreInv, TypeOK
  <1>4. CASE mem[w].attempts = n
    <2>1. UNCHANGED <<mem, file, writing>>
      BY <1>4 DEF SetAttempts
    <2>2. wrong' = wrong
      <3>1. mem[w].attempts = 3 - wrong[w] /\ wrong[w] \in 0 .. MaxTries
        BY <1>1 DEF StoreInv, TypeOK, AttemptsAreCounted
      <3>2. 3 - n = wrong[w]
        BY <1>4, <3>1
      <3>3. QED
        BY <3>2 DEF StoreInv, TypeOK
    <2>3. TypeOK' /\ WalletsInPlace'
      BY <2>1, <2>2 DEF StoreInv, TypeOK, WalletsInPlace
    <2>4. RecordsFollowWallets' /\ AttemptsAreCounted'
      BY <2>1, <2>2 DEF StoreInv, RecordsFollowWallets, AttemptsAreCounted
    <2>5. RemovedInPlace'
      BY <2>1 DEF StoreInv, RemovedInPlace
    <2>6. MigrationIsComplete' /\ MigrationInPlace'
      BY MigrationUntouched DEF Idle
    <2>7. QED
      BY <2>3, <2>4, <2>5, <2>6 DEF StoreInv
  <1>5. QED
    BY <1>3, <1>4

LEMMA PinLoginInv == ASSUME StoreInv, NEW w \in Wallet, PinLogin(w) PROVE StoreInv'
  <1>0. /\ page[w] # "closed" => w \in shown \ context /\ mem[w].login = "pin" /\ mem[w] \in Content
        /\ login[w] # "none" => page[w] # "closed"
        /\ page[w] \in {"closed", "busy", "ready", "barred"}
        /\ login[w] \in {"none", "out", "right", "failed"}
        /\ page = [page EXCEPT ![w] = page[w]] /\ login = [login EXCEPT ![w] = login[w]]
    BY DEF StoreInv, TypeOK, WalletsInPlace
  <1>1. CASE OpenPage(w)
    <2>1. login[w] = "none"
      BY <1>0, <1>1 DEF OpenPage
    <2>2. QED
      BY <1>0, <1>1, <2>1, PageStep DEF OpenPage
  <1>2. CASE LoginWithPin(w)
    BY <1>0, <1>2, PageStep DEF LoginWithPin
  <1>3. CASE ClosePage(w)
    BY <1>3, PageStep DEF ClosePage, PageGone
  <1>4. CASE PinError(w)
    BY <1>0, <1>4, PageStep DEF PinError
  <1>5. CASE LoginFailed(w)
    BY <1>0, <1>5, PageStep DEF LoginFailed, EnableField
  <1>6. CASE NoAttempts(w)
    BY <1>0, <1>6, PageStep DEF NoAttempts
  <1>7. CASE PinRight(w)
    <2>1. 3 \in (3 - MaxTries) .. 3 /\ wrong' = [wrong EXCEPT ![w] = 3 - 3]
      BY <1>7, StoreAssumption DEF PinRight
    <2>2. page' = page /\ page \in [Wallet -> {"closed", "busy", "ready", "barred"}]
      BY <1>7 DEF PinRight, StoreInv, TypeOK
    <2>3. QED
      BY <1>0, <1>7, <2>1, <2>2, AttemptsStep DEF PinRight
  <1>8. CASE PinWrong(w)
    <2> DEFINE n == mem[w].attempts - 1
    <2>1. page[w] # "closed" /\ mem[w].attempts = 3 - wrong[w] /\ wrong[w] \in 0 .. MaxTries - 1
      BY <1>0, <1>8, StoreAssumption DEF PinWrong, StoreInv, TypeOK, AttemptsAreCounted
    <2>2. n \in (3 - MaxTries) .. 3 /\ 3 - n = wrong[w] + 1
      BY <2>1, StoreAssumption
    <2>3. wrong' = [wrong EXCEPT ![w] = 3 - n]
      BY <1>8, <2>2 DEF PinWrong
    <2>4. /\ page' \in [Wallet -> {"closed", "busy", "ready", "barred"}]
          /\ \A v \in Wallet : page'[v] # "closed" <=> page[v] # "closed"
      BY <1>8, <2>1 DEF PinWrong, EnableField, StoreInv, TypeOK
    <2> HIDE DEF n
    <2>5. SetAttempts(w, n) /\ Idle /\ login' = [login EXCEPT ![w] = "failed"]
          /\ UNCHANGED <<exists, proc, todo, shown, persisted, context, removed, copies,
                         crashes, interrupted>>
      BY <1>8 DEF PinWrong, n
    <2>6. QED
      BY <2>1, <2>2, <2>3, <2>4, <2>5, AttemptsStep
  <1>9. CASE LoginFinished(w)
    <2> USE <1>9, <1>0 DEF LoginFinished, PageGone, disk, history
    <2>1. TypeOK'
      BY DEF StoreInv, TypeOK
    <2>2. WalletsInPlace' /\ RecordsFollowWallets'
      BY DEF StoreInv, TypeOK, WalletsInPlace, RecordsFollowWallets, Idle
    <2>3. AttemptsAreCounted'
      BY DEF StoreInv, AttemptsAreCounted
    <2>4. RemovedInPlace'
      BY DEF StoreInv, RemovedInPlace
    <2>5. MigrationIsComplete' /\ MigrationInPlace'
      BY MigrationUntouched DEF Idle
    <2>6. QED
      BY <2>1, <2>2, <2>3, <2>4, <2>5 DEF StoreInv
  <1>10. QED
    BY <1>1, <1>2, <1>3, <1>4, <1>5, <1>6, <1>7, <1>8, <1>9 DEF PinLogin

\* Nothing happens to the invariant when nothing happens.
LEMMA StutterInv == StoreInv /\ UNCHANGED vars => StoreInv'
  <1> SUFFICES ASSUME StoreInv, UNCHANGED vars PROVE StoreInv'
    OBVIOUS
  <1> USE DEF vars, disk, objects, history
  <1>1. TypeOK' /\ WalletsInPlace'
    BY DEF StoreInv, TypeOK, WalletsInPlace
  <1>2. RecordsFollowWallets' /\ AttemptsAreCounted'
    BY DEF StoreInv, RecordsFollowWallets, AttemptsAreCounted
  <1>3. RemovedInPlace'
    BY DEF StoreInv, RemovedInPlace
  <1>4. MigrationIsComplete' /\ MigrationInPlace'
    BY DEF StoreInv, MigrationIsComplete, MigrationInPlace
  <1>5. QED
    BY <1>1, <1>2, <1>3, <1>4 DEF StoreInv

-----------------------------------------------------------------------------
\* Every state of the wallet store satisfies the inductive invariant: whatever
\* is created, removed, saved, logged in to, killed and restarted.
THEOREM StoreCorrect == Spec => []StoreInv
  <1>1. StoreInv /\ [Next]_vars => StoreInv'
    <2> SUFFICES ASSUME StoreInv, [Next]_vars PROVE StoreInv'
      OBVIOUS
    <2>1. CASE Crash \/ Start \/ EndMigration \/ Flush
      BY <2>1, CrashInv, StartInv, EndMigrationInv, FlushInv
    <2>2. CASE \E m \in Migrated : Migrate(m)
      BY <2>2, MigrateInv
    <2>3. CASE \E w \in New : Create(w, "none", TRUE)
      BY <2>3, CreateInv
    <2>4. CASE \E w \in New, keep \in BOOLEAN : Create(w, "device", keep)
      BY <2>4, CreateInv
    <2>5. CASE \E w \in Wallet : Store(w) \/ PinLogin(w)
      BY <2>5, StoreStepInv, PinLoginInv
    <2>6. CASE UNCHANGED vars
      BY <2>6, StutterInv
    <2>7. QED
      BY <2>1, <2>2, <2>3, <2>4, <2>5, <2>6 DEF Next
  <1>2. QED
    BY InitInv, <1>1, PTL DEF Spec

\* The types hold, one file at most is being written, every wallet that is shown
\* exists, and a PIN page is open only for a wallet without a context.
THEOREM StoreTypes == Spec => []TypeOK
  <1>1. StoreInv => TypeOK
    BY DEF StoreInv
  <1>2. QED
    BY StoreCorrect, <1>1, PTL

\* No change of a kept wallet with a login is left out of its record
\* (Wallet::save after every change but Controller::disableAllPins).
THEOREM RecordsAreSaved == Spec => []RecordsFollowWallets
  <1>1. StoreInv => RecordsFollowWallets
    BY DEF StoreInv
  <1>2. QED
    BY StoreCorrect, <1>1, PTL

\* The attempts of a PIN are three less the wrong PINs, in memory and on disk,
\* whatever restarts and logins come between (PinData::setAttempts).
THEOREM AttemptsCannotBeRegained == Spec => []AttemptsAreCounted
  <1>1. StoreInv => AttemptsAreCounted
    BY DEF StoreInv
  <1>2. QED
    BY StoreCorrect, <1>1, PTL

\* Nothing writes the file of a removed wallet once its context is gone as well:
\* no PIN login, no write that was under way, no restart (Controller::deleteWallet,
\* Wallet::disconnect, Wallet::save).
THEOREM RemovedFilesAreLeft == Spec => NoWriteAfterRemoval
  <1>1. StoreInv /\ [Next]_vars => \A w \in removed \ (shown \cup context) : file'[w] = file[w]
    <2> SUFFICES ASSUME StoreInv, [Next]_vars, NEW w \in removed, w \notin shown \cup context
                 PROVE  file'[w] = file[w]
      OBVIOUS
    <2>1. /\ w \in Wallet /\ w \notin writing
          /\ page[w] = "closed" /\ login[w] = "none"
          /\ \A v \in Wallet : page[v] # "closed" => v \in shown
          /\ \A v \in Wallet : login[v] # "none" => page[v] # "closed"
          /\ file \in [Wallet -> Content \cup {Absent, Torn}]
      BY DEF StoreInv, TypeOK, WalletsInPlace, RemovedInPlace
    <2>2. CASE Crash \/ Start \/ EndMigration
      BY <2>2 DEF Crash, Start, EndMigration, disk
    <2>3. CASE Flush
      BY <2>3, <2>1 DEF Flush
    <2>4. CASE \E m \in Migrated : Migrate(m)
      BY <2>4 DEF Migrate, StoreInv, RemovedInPlace
    <2>5. CASE \E v \in New, t \in {"none", "device"}, keep \in BOOLEAN : Create(v, t, keep)
      BY <2>5, <2>1 DEF Create
    <2>6. CASE \E v \in Wallet : Store(v)
      BY <2>6, <2>1 DEF Store, SetPin, DisableAllPins, SaveAgain, LoginOtherwise, Disconnect,
                        RemoveWallet, Save, disk
    <2>7. CASE \E v \in Wallet : PinLogin(v)
      <3>1. PICK v \in Wallet : PinLogin(v)
        BY <2>7
      <3>2. CASE PinRight(v) \/ PinWrong(v)
        BY <3>2, <2>1 DEF PinRight, PinWrong, SetAttempts, Save
      <3>3. CASE ~(PinRight(v) \/ PinWrong(v))
        BY <3>1, <3>3 DEF PinLogin, OpenPage, LoginWithPin, ClosePage, PinError,
                          LoginFinished, LoginFailed, NoAttempts, disk
      <3>4. QED
        BY <3>2, <3>3
    <2>8. CASE UNCHANGED vars
      BY <2>8 DEF vars, disk
    <2>9. QED
      BY <2>2, <2>3, <2>4, <2>5, <2>6, <2>7, <2>8 DEF Next
  <1>2. QED
    BY StoreCorrect, <1>1, PTL DEF Spec, NoWriteAfterRemoval

\* The migration of the old layout writes no login twice, and every one unless a
\* crash interrupts it (WalletManager::loadWallets).
THEOREM MigrationTakesAll == Spec => []MigrationIsComplete
  <1>1. StoreInv => MigrationIsComplete
    BY DEF StoreInv
  <1>2. QED
    BY StoreCorrect, <1>1, PTL
=============================================================================
