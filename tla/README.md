# A TLA+ model of the wallet's core

This directory specifies and verifies the parts of the Blockstream desktop
wallet (`src/`, C++ and Qt/QML on top of GDK and LWK) in which order, failure and
time matter: the task scheduler, the tasks that connect and log in a session, the
sessions and the loading of a network, the wallets on disk and their PINs, the
creation of a transaction, the protocol driver of the Jade hardware wallet, the
negotiation of DLC contracts and the shared HTTP queue. Modules are checked with TLC
on small instances. With TLAPS it is proved, for every value of the constants, that the
tasks implement the scheduler and the Jade driver its specification, and that every safety
property the passing runs check holds. One theorem has a hypothesis beyond the constants'
assumptions, the order of logins in `GdkTasks` (section 4).

Where the code itself lets something go wrong, no model leaves the case out by a guard: the properties
are what is true of the code as it is, with the cases that spoil more named in them, and the stronger
statements one might expect are defined beside them, with what refutes them (section 5).

Paths below are relative to `src/src/` in the mapped tree.

## 1. The system

The wallet is one process. Almost everything runs on Qt's event loop: timers,
signals, queued calls and the `QFutureWatcher`s through which worker threads
hand back the results of GDK calls. There is hardly any shared memory between
threads; what makes the code hard is that *an answer is handled later than it was
asked for*, in a state nobody looked at when the question was put: a task whose group
has failed, a session that has been replaced, an order that was dropped, a
message whose timer has fired. The models follow that grain: an action is one
callback of the event loop, from its first line to its last, and answers, timers,
losses and user actions are interleaved in every order Qt allows.

### Inventory

| Part (source) | State | Operations | What is hard | What makes it correct |
| --- | --- | --- | --- | --- |
| Task scheduler (`task.cpp`, `task.h`) | status, inputs, outputs of each `Task`; tasks and status of each `TaskGroup`; groups, zero timer and busy flag of `TaskDispatcher` | add, destroy, setStatus with its cascade, a dispatch pass | snapshots walked while handlers change what they copy; answers after a failure; a timer cleared before the work | a failed group is dead; no change is missed; busy is right; failures arrive |
| GDK tasks (`task.cpp`) | GDK auth handler of a task, connect timer, prompts, resolvers | connect, login, `AuthHandlerTask::next`, account sync, loaders | timer, worker and notification race; retry after a lost connection; events that do not wake the dispatcher | a failed attempt stays failed; nothing runs on unfinished inputs; a group ends |
| Session (`session.cpp`) | connected, active, ready, event, auto logout timer | setActive, notifications, logout | notifications from GDK's own thread; settings that change | one owner at a time; no stale connection is believed |
| HTTP manager (`httpmanager.cpp`) | queue, running request, session, idle timer | exec, dispatch, drain, idle release | requests destroyed while they wait or run; settings changed; connection lost while work is queued | a request is in one place and ends once; its session stays; the queue moves |
| Jade API (`jade/jadeapi.cpp`) | handlers, proxies and timeouts by message id; queue, in flight set, lock | about 25 calls, multi-message exchanges, HTTP forwarding, timeouts | a handler that calls again while its caller is on the stack; lost links; ids drawn again | a handler is called once; exchanges are not mixed; the queue never stops |
| Jade link (`jade/jadeserialimpl.cpp`, `jade/jadebleimpl.cpp`) | bytes to send, bytes received | write, reassemble, connect, disconnect | partial writes and reads | messages arrive whole or not at all |
| Jade firmware update (`jade/jadeupdatecontroller.cpp`) | lock, chosen firmware, download | check, download, update | lock held when the download fails | the lock is given back |
| Jade devices (`jade/jadedevicemanager.cpp`, discovery agent, controllers) | list of devices, failed and polled ports | scan, poll, unlock | polls of devices that go | a device is listed while it is there |
| DLC state machine (`dlc/dlc_state_machine.cpp`) | state, context and retry count of each order | track, submit, poll, one handler per answer | overlapping polls; answers without an order; late signatures | bounded retries; no accept without context; no order is forgotten |
| DLC coordinator client (`dlc/dlc_coordinator_client.cpp`) | none | HTTP calls | failures that do not say for which order | each call has one outcome |
| Context (`context.cpp`) | sessions by network and as a list, accounts, monitors, dispatcher | load and log in networks, release sessions | failure handlers that both release; answers after the group failed; accounts that make sessions | a session is released once; a loaded network keeps its session |
| Session manager (`sessionmanager.cpp`) | sessions, garbage, Tor session | create, release | release while tasks run | no use after release |
| Accounts and transactions (`account.cpp`) | transactions, dangling set | paged load, notifications | overlapping fetches | no transaction is lost |
| Transaction creation (`createtransactioncontroller.cpp`, `convert.cpp`) | inputs, coins, sequence number, transaction | change inputs, fetch, convert, create, write back | an answer to earlier inputs; an answer that writes inputs | the transaction shown is for the inputs shown; nothing typed is lost; it settles |
| Wallet store (`wallet.cpp`, `walletmanager.cpp`) | records on disk, wallets in memory | save, load, migrate, create, remove | a crash in the middle of a write or of the migration; saves after removal | records follow the wallets; a removed wallet is not written to; migration takes all |
| PIN and other logins (`loginwithpincontroller.cpp` and others) | attempts left | login, reset, decrement | two logins at once; restarts between attempts | attempts are counted right |
| Activities (`activity.cpp`, `activitymanager.cpp`) | status of an activity | exec, finish, fail | an activity that ends twice | it ends once |
| Ledger devices (`ledger/`) | APDU queue | exchange | HID framing | commands are answered in order |
| Swaps (`swap*.cpp`, `lwk/`) | kept by the LWK library | create, poll, claim | polling | a swap is resumed |
| Settings, analytics, quotes, amounts, QML views | key-value data and display state | get, set, fetch, show | nothing beyond their inputs | - |

`PROJECT.json` repeats the list with the source files and, for each part, whether it
is modelled. How the parts meet: `Context` owns a `TaskDispatcher` and creates
groups of GDK tasks on `Session`s; controllers add tasks of their own to such groups;
`HttpManager` has its own dispatcher and runs `ConnectTask`s in it; the DLC
client, the Jade firmware download and the PIN-server requests of the Jade login go
through `HttpManager`; the Jade controllers and the resolvers of the GDK
tasks call `JadeAPI`.

## 2. The modules

| Module | Models | Composes |
| --- | --- | --- |
| `TaskScheduler` | `Task`, `TaskGroup`, `TaskDispatcher` | - |
| `GdkTasks` | the task classes on a session | extends `TaskScheduler`, implements `TaskScheduler!Spec` |
| `JadeCalls` | what `JadeAPI` promises a caller | - |
| `JadeApi` | `JadeAPI` with device, link and clients | implements `JadeCalls` |
| `DlcNegotiation` | `DLCStateMachine` over its client | - |
| `HttpManager` | `HttpManager` with `Session` and `ConnectTask` as it sees them | - |
| `NetworkLogin` | the sessions of a network: `Context`, `SessionManager`, `LoadController`, account creation | the group of `TaskScheduler` and the tasks of `GdkTasks`, reduced to one network |
| `WalletStore` | `Wallet`, `WalletManager`, PIN login and its page | - |
| `TransactionCreation` | `CreateTransactionController`, `Convert` and the send page | - |
| `TaskSchedulerProofs`, `GdkTasksProofs`, `JadeApiProofs`, `DlcNegotiationProofs`, `HttpManagerProofs`, `NetworkLoginProofs`, `WalletStoreProofs`, `TransactionCreationProofs` | theorems about the module they extend | |
| `MC*` | small instances of the above | - |

Definitions named "a variant ..." are not part of a specification. They are
plausible mistakes in the code, each next to the definition it departs from, and
are used to confirm that a property notices.

### TaskScheduler

`status` is `m_status` of each task, `where` its `m_group` (`"new"` before it has one,
`"gone"` after), `gstatus` and `stage` the group's `m_status` and whether the dispatcher
holds it, `timer` the zero timer, `busy` the flag bound to the user interface.
A pass (`TaskDispatcher::timerEvent`) is not one action, since the signals it emits
run arbitrary handlers that add tasks and groups: `TimerEvent` starts it with a copy
of the groups (`turn`), `UpdateGroup` is the scan of `TaskGroup::update` up to its loop,
`TaskUpdate` one round of the loop over a copy of the tasks (`todo`), `EndPass`
is `updateBusy`. Between these steps only `AddTask` and `AddGroup` may happen; all else
(`Callback`, `DestroyGroup`, `DestroyTask`, `PeriodicDispatch`) needs the event
loop. The recursion of `Task::setStatus(Failed)` into `m_outputs`, which stops at tasks
that have failed already, is the least set closed under failure (`Cascade`), so that no
recursive operator stands in the way of the proofs. `DispatchIfChanged` is the
`dispatch()` that each change of status makes in the dispatcher of the task's group.
`TaskUpdate` and `Callback` leave open what a task does.

### GdkTasks

Gives `TaskUpdate` and `Callback` for the classes of the wallet: `ConnectUpdate`,
`ConnectAnswer`, `ConnectTimeout` (update, watcher and single shot timer of `ConnectTask`),
`LoginUpdate`, `AuthUpdate`, `NextStep` (`AuthHandlerTask::next` with
`handleDone`, `handleError` and the three ways of going on), `UserAnswer` and
`ResolverAnswer` (prompts and device resolvers), `SyncUpdate`, `LoaderUpdate`.
Session events (`NetworkUp`, `NetworkDown`, `AccountsSynced`, `TorDone`) change what
`update()` looks at *without* waking the dispatcher, as in the code; the dispatcher's one
second timer is what picks them up. `work[t]` is the worker, prompt or resolver the
task waits for. What GDK answers is left open.

### JadeApi and JadeCalls

The three tables keyed by message id (`handlers`, `proxies`, `timeouts`), the queue,
`m_msg_inflight` and the lock are as in the class. The closures that the code
registers are three kinds of handler: a client's, one that forwards the response to
a HTTP request to the original handler (`handleHttpResponse`), and a step of an exchange that sends
further messages (`signMessage`, `signTx`, `otaUpdate`). Since a client's handler may
call the API again while `processResponseMessage` or a timer's function is on the
stack, these are split at that point: `Response`, `Timeout`, `Posted` run to the
handler, `frame` says who is on the stack, `Return` does the rest (removing the
message from the in-flight set, draining). Messages sent to a closed link are
dropped but counted as in flight, as in `send`.

`registerResponseHandler` draws ids at random, tries five times to avoid those that have a handler, and then takes
what it gets. `Drawable` thus offers any id, in use or not: a new one stands for all the ids the tables say nothing
of, and up to `MaxRepeats` steps may draw one that some table, message or handler still mentions. `clashed` records that an id
has been drawn while it was in use (or, by a call without a timeout, while `m_msg_timeout` has it). A proxy that is
copied for an id that has none becomes an empty function, as with `QMap::operator[]`.

`JadeCalls` states the promise: a handler is invoked once at most, after its call.

### DlcNegotiation

`tracked`, `state`, `context` and `retries` are `m_operations` and `m_retry_counts`.
`calls` is the list of HTTP calls under way; `HttpManager` runs them in order, so they succeed in the
order of the calls (`Answered`), while any of them may fail (`Failed`), as `HttpManager::drain` fails those in the queue. The handlers are one action each,
with the failures that the client reports *without an order*: they hit every order in
the matching state. `toSign` holds the signatures the wallet has been asked for,
delivered later, whatever has happened to the order. `OtherQuery` is another user
of the client (it emits to everyone).

### HttpManager

`Dispatch` is `HttpManager::dispatch` in full, from the release of an outdated session to the
start of a request; it is run by `PostedDispatch` (queued from `exec`, from the end
of a request and from the destruction of the running one), by `ChangeSettings` and by
`connectedChanged` (`NetworkUp`, `NetworkDown`). Each activation of a session makes a
`ConnectTask` (`attempt`), whose behaviour is that of `GdkTasks` reduced to what the
manager can see. Its failure handler is translated as written: it uses the
session that is *current* when it runs. When there is none the code dereferences null, which
`crashed` records.

### NetworkLogin

One network of a wallet, from its sessions' point of view. `mapped` and `listed` are
`Context::m_sessions` and `m_sessions_list`, which the code keeps apart; `managed` and `garbage`
are `SessionManager`'s two lists, the second with multiplicities, because `release` does not
notice that it is called twice. `status`, `asked` and `alarm` are the tasks of the group `LoadController`
makes for the network, what GDK still owes them, and the connect timer; a pass
of the dispatcher over the group is one of `PassUpdate`, `PassFailed`, `PassFinished`.
The handlers that `loginNetwork` and `loadNetwork` attach to the tasks run inside the action that
fires them. A `ConnectTask` of a session on Tor stays `Ready` until the Tor session reports "done"
(`WaitsForTor`, `TorDone`), and one that GDK answers with "session already connected" finishes, whatever `m_connected` says
(`ConnectAnswer`). `FailTasks` is the failure of a set of tasks with everything downstream, the releases and the
outage notification; `LoginDone`, `AccountsDone` and `ViewsWanted` add what is loaded
next (`Enter`), after a look at the session they get *then*. An answer is taken whatever the
task's status has become, as `AuthHandlerTask` does. `AccountSession` is `Account::session()`, called
by anything at any time; `EnsureSession` to `EnsureAccount` are the user's account creation
beside all this, once the wallet is open.

### WalletStore

A wallet is a file and, when the program runs, an object. `Save` is `Wallet::save` up
to the truncated file and `Flush` the rest; `Crash` is possible in between and everywhere else.
`Start` runs `WalletManager::loadWallets`: without `wallets2` it migrates, one login
of an old record at a time (`Migrate`, also truncate and write), and `Load` reads
what parses and has a login. `page` and `login` are the PIN page of a wallet
and the login it has under way: `LoginWithPin`, the answers `PinRight`, `PinWrong` and `PinError` of
the `LoginTask`, then `LoginFinished` or `LoginFailed` of its group, in the order the handlers
are connected in; `NoAttempts` is the page's two second timer. `wrong` and `removed` are history, to say what should be
remembered. `DisableAllPins` does not save, as in the code.

### TransactionCreation

The send page and its controller: `timer` is the controller's 5 ms timer, `seq` is `m_seq`, `fetches` and
`creates` the tasks under way with the details they were given, `convertTimer`, `conversions`
and `result` those of `Convert`, whose conversions may also fail. `Update` is `update()`, run by the timer and by
an answer with coins, of whichever account; `WriteBack` is what `setTransaction` writes into the inputs: the address, asset and amount of a payment
link, the amount of a transaction that sends all. `Select` is the account and asset selector of the page, which clears coins, amount and
"send all" with them; `Tick` is a change of the exchange rate or of the settings, which converts the amount again.
Answers come in any order and at any time, between a change and its update too. Two histories say which
of the code's races has happened: `current`, whether the result of an earlier conversion came after one of a later, and `overlapped`, whether coins
of another account were on their way when this one was selected. `Complete` is the condition under which
`update` takes a number. Left out is `Convert`'s choice of unit and of fiat: an amount is the same in any unit.

## 3. Runs

| Run | Question | Instance |
| --- | --- | --- |
| `scheduler` | Are the scheduler's invariants, and the one the proofs use, true? | 3 tasks, one needing another, in 2 groups, any assignment; symmetric groups |
| `gdk_tasks` | Do the wallet's tasks implement the scheduler; is a failed connection final; do running tasks have what they need? | connect, login, assets; 1 lost connection, prompts and devices |
| `gdk_load` | Does loading a network over Tor end, and does a failure reach its group? | connect, login, account sync, a loader; Tor |
| `jade_api` | Is each call answered once, in order and unmixed, and is `isBusy` right? | ping, firmware upload, login with PIN server; 1 lost link, 6 ids, 1 drawn again |
| `jade_ends` | Do calls end, whatever times out or is lost; what can stop the queue? | version poll, message to sign, unlock with up to 2 HTTP requests; 1 lost link |
| `dlc` | Are retries bounded, are contexts there, do takers move on? | a taker's and a maker's order, 2 calls under way, 1 retry |
| `http` | Is every request in one place, ended once, on its own session? | 3 requests, 2 sessions, 2 connection attempts, 1 change of settings, 1 lost connection, Tor |
| `http_live` | Does every request end, and is an idle session released? | 2 requests, 2 sessions, 2 attempts, 1 lost connection |
| `network` | Are sessions accounted for, given back at the right time, and kept while in use; does loading end? | 3 sessions, 1 lost connection, Tor |
| `network_late` | finding, see below | 2 sessions, no lost connection |
| `wallet_store` | Do records follow wallets, are attempts counted, does anything write a removed wallet, is the migration complete? | a new wallet, an old record with a PIN and a watch-only login; 1 crash, 3 wrong PINs, 1 open page |
| `create_tx` | Is what stays on the page for the inputs shown, is nothing typed overwritten, and does the page settle? | 2 accounts, 2 assets, an address, a link with amount and asset and one without; 1 change by the user, 1 of the rate, 2 answers out |

**Why these bounds.** The scheduler's hazards need a task, a task it needs and an
unrelated sibling, and two groups so that dependencies cross groups; what three
tasks show is then proved for any number. In `gdk_tasks` one lost connection is enough
for every race of a timer, a worker and a notification about one attempt, and one
further round of `next()` reaches every branch of it. In `jade_api` the ping has a timeout, the upload is
an exchange that goes on under new ids and the login forwards a HTTP answer; an exchange has a middle with one
message after the first, and one loss of the link separates a message from its answer.
One id drawn again is enough for a late answer, a timer or an inherited timeout to meet another call's id (`BusyTellsTheTruth` without
its condition is then false). The kinds the run leaves out have been checked apart, with the same properties: ping, a transaction to sign and login
(`MaxId = 6`, one id drawn again, one lost link), ping, message and login (`MaxId = 5`, likewise), and all of
ping, transaction, login, message without repeats (`MaxId = 8`); `EveryCallEnds` on the version poll and the upload with an unlock or a
message. In `jade_ends` no id is drawn again, as three calls with one take too long;
`EveryCallEnds` has been checked with `MaxRepeats = 1` for the version poll beside an unlock and beside a message (`MaxId = 4`). In the DLC
runs two orders are needed for failures to hit the wrong one and two calls for polls
to overlap; one retry distinguishes the first failure from the last. `http` has a request that runs and two
that queue behind each other, and a second session, with its attempt, to replace the first. `network` has a session to release, one made by an account meanwhile and one more for the
user's account creation; one lost connection falls in the group's time or the user's. In `wallet_store`
the old record becomes two wallets, so a crash can come between them, and three wrong PINs are as many as there
are attempts; the theorems lift all of it. In `create_tx` the page opens with both timers running, so one change meets a fetch, a creation and a conversion at every stage, and
two answers out are what it takes for one to overtake the other (a timer waits while there are as many). With two changes and no change of the rate
the run takes longer and holds too. Bounds are guards of the actions and are named `Max...` in each module.

**`CHECK_DEADLOCK FALSE`** is given where the system may come to rest: all calls made,
all requests ended, all tasks done. The DLC instances do not rest.

**Fairness.** Never of users, and of the outside world only as said here.
- `gdk_load`: weak fairness of a pass (the event loop fires a timer that is due and a pass ends), and strong fairness of what is queued to the event loop (the one second
  timer, answers, the last sync event): it is handled when the loop is free, which it is
  again and again but not all the time in the model, because passes recur. The connect
  timer bounds a worker that says nothing. GDK reports a connection it has, Tor becomes
  ready, accounts are synced. `MaxDrops = 0`: connections last (see section 6).
- `jade_ends`: the event loop; and the device and the HTTP server answer what reaches
  them, since unlock and signing have no timeout. What is lost with the link is not answered:
  `EveryCallEnds` shows that a lost poll is ended by its timer and that the queue stops only
  if a call without a timeout is lost.
- DLC: calls end, since HTTP requests have a timeout; the poll timer repeats (strong,
  since the bound on calls disables it now and then); the wallet signs when asked.
- `network`: passes of the dispatcher, the connect timer, and GDK answers each call. Connections need not
  come back and Tor need not become ready: `LoadEnds` names the two outcomes nothing in the code ends. `Stranded`: the session is not
connected and no connect timer runs, because the connection was lost or because GDK called the session connected already. `WaitsForTor`: no
timer runs while a `ConnectTask` waits for Tor.
- `create_tx`: timers and answers; the user owes nothing, and the rate changes `MaxTicks` times: `Settles` is about the time between two
  changes of the rate, each of which starts a conversion.
- `http_live`: posted calls, timers and workers end; GDK reports a connection it has but
  owes none: the attempt may end by its timer.

## 4. What is proved

`TaskSchedulerProofs` proves, for every set of tasks and groups and every
dependency relation `Needs \in [Task -> SUBSET Task]` (cyclic ones included; finiteness
is not needed), from the two named assumptions of `TaskScheduler` alone:

- `SchedulerInvariant`: `Spec => []SchedulerInv`;
- `TypeCorrect`: `Spec => []TypeOK`;
- `FailedGroupIsDead`: `Spec => []FailedGroupRunsNothing`;
- `NoChangeIsMissed`: `Spec => []GroupsAgreeWithTasks`;
- `BusyFlagIsRight`: `Spec => []BusyIsAccurate`.

None of the last three is inductive. A failed group stays dead only because the
tasks of a pass's snapshot belong to groups that have not failed
(`SnapshotIsAlive`): a task that is updated late in a pass could else start in
a group that failed early in it. It also needs that a task that joins a failed group is not
running (`NewTasksAreIdle`). That a resting dispatcher has missed nothing follows
from the same being true, halfway through a pass, of the groups the pass is
done with: `VisitedGroupsAgree` says that unless a new pass is due, every listed group
not in `turn` agrees with its tasks. Each step that would spoil this arms the timer
(`DispatchIfChanged`), and `UpdateGroup` leaves the group it visits in agreement. `BusyIsAccurate`
rests on it in `EndPass`. `SchedulerInv` is the conjunction of these parts, and is checked by TLC in the run
`scheduler` before it is proved. The proof has one lemma about failures (what
`Cascade` and `FailAll` do to a status), and one lemma per group of actions with one step per conjunct.

`WalletStoreProofs` does the same for the wallet records, for any wallets, old
records and number of crashes, from `StoreAssumption` alone (`MaxTries >= 3` because a PIN has
three attempts and a bound below that would forbid legal runs):

- `StoreCorrect`: `Spec => []StoreInv`;
- `StoreTypes`, `RecordsAreSaved`, `AttemptsCannotBeRegained` and `MigrationTakesAll`: `TypeOK`,
  `RecordsFollowWallets`, `AttemptsAreCounted` and `MigrationIsComplete` in every state;
- `RemovedFilesAreLeft`: `Spec => NoWriteAfterRemoval`, an action property: no step writes the file of a removed
  wallet that has lost its context. In the half second before, a page that saves the wallet brings the file back (section 5).

`StoreInv` adds three parts to the properties. `WalletsInPlace` says where a wallet can be in each phase
of the process (nothing is shown while the program is down, a record that is being
written belongs to a wallet that is shown or to the migration); without it a crash or a load
could start from a wallet in two places. `RemovedInPlace` says that a removed wallet
is being written only while it is shown or has a context, so nothing else leads to its file.
`MigrationInPlace` says how many copies of each old login have been written at each point of the
migration; completeness is that count at its end. `StoreInv` is an invariant of the run
`wallet_store`.

`HttpManagerProofs` proves for any requests, sessions, ConnectTasks, lost connections and
changes of settings, with or without Tor and late news, from `HttpAssumption`:

- `HttpCorrect`: `Spec => []HttpInv`;
- `HttpTypes`, `QueueKeepsAccount`, `SessionIsKept`: `TypeOK`, `RequestsAccountedFor` and
  `RunsOnItsSession` in every state;
- `RequestsEndOnce`: `Spec => EndsOnce`, an action property: it follows from `HttpInv`, as every
  step that ends a request ends one that is queued or the one that runs.

`RequestsAccountedFor` is not inductive: the answer of a worker sets `m_running` to
null, so it must be known that a worker whose request still exists is that of the running
request (`WorkersAreLive`). The module first proves what `Append`, `Tail` and `RemoveAt` do to the
elements of a sequence without repetitions, for any sequence, then deals with the requests and
the sessions apart, and with `Dispatch` once for its four callers.

`DlcNegotiationProofs` proves, for any orders, takers and makers, `MaxRetries` and bound on calls,
from `DlcAssumption`:

- `NegotiationCorrect`: `Spec => []DlcInv`;
- `RetriesAreBounded` and `TakersHaveContext`: `TypeOK` (no order is retried more often than
  `m_max_retries`, whichever orders the failures were for) and `SubmitsOnlyWithContext`.

`DlcInv` adds that finitely many orders are tracked, so that the calls of a poll are a
sequence (`SetToSeqType`, `PollCalls`).

`GdkTasksProofs` proves for any tasks, dependencies, kinds of task, sessions and answers of GDK, from
`KindAssumption` and the assumptions of `TaskScheduler`:

- `GdkImplementsScheduler`: `GdkSpec => Spec`, where `Spec` is the scheduler's: `update()` of each
  class of task is what `TaskUpdate` allows, each answer is a `Callback`, and what happens to a session
  is a stutter. The theorems of `TaskSchedulerProofs` thus hold of the wallet's tasks;
  `FailedGroupsRunNoGdkTask` draws one such conclusion;
- `GdkCorrect`: `GdkSpec => []GdkInv`;
- `NoInputIsTakenBack`: with `ASSUME LoginsApart`, `GdkSpec => []RunningInputsFinished`;
- `FailedConnectStaysFailed`: `GdkSpec => ConnectFailureIsFinal`.

The refinement needs that `pending` is what `work` and `alarm` say (`PendingIsRight`) and that a worker is
of a kind that suits its task (`WorkSuitsKind`). `RunningInputsFinished` would be spoiled by an answer
that turns a finished task back to `Ready`. None can come: the work of a task that is not a `ConnectTask`
ends when the task does (`WorkingIsUnfinished`), and a `ConnectTask` looks at its status first. The one way
to finish with an answer still to come is `LoginTask::update` on a session that is logged in. With
one `LoginTask` per session that task has then ended (`LoggedInIsDone`); with two the second could be
with GDK when the first logs in, the statement is false, and `LoginsApart` is its hypothesis. Most
sessions of the code have one; account creation (`createaccountcontroller.cpp:94`) may make a second, a case that `NetworkLogin` models.

`JadeApiProofs` proves for any calls, exchanges, HTTP requests and losses of the link, from
`JadeAssumption`, whether ids are drawn again or not:

- `HandlersInOrder`: `Spec => []CallsInv`;
- `JadeApiImplementsCalls`: `Spec => CallsAnsweredOnce`, the refinement of `JadeCalls`;
- `CallsStartInOrder`: `Spec => NoOvertaking`, an action property;
- `ExchangesInOrder`: `Spec => []ExchangeInv`;
- `BusyMeansWaiting`: `Spec => []BusyTellsTheTruth`;
- `ExchangesAreNotMixed`: `Spec => OneExchangeAtATime`, an action property;
- `JadeTypes`: `Spec => []TypeOK`.

The first three hold whatever ids are drawn. The others say more until an id is drawn that is in use
(`clashed`), which is exactly when the code's tables get mixed up; an id that is drawn again when nothing uses it any more is harmless, although
its entry in `m_request_proxy`, and for a call with a timeout in `m_msg_timeout`, is left from before (`DrawFacts`, `Undisturbed`).

`OneHandlerEach` is the core of the first two: a client that waits has one handler in the table and all others have none,
so whoever takes it, a response, a late response, a timer or the end of an exchange, takes the only one.
A response may be handed from handler to handler; `OneEnd` shows that it reaches one client at most, wherever the
chain leads, also when it meets an id that has been drawn again. `Passes`, the ids on the way, is the least set
closed under handing over, so that no recursion stands in the way.

`CallsInv` does not say that *all* handlers of a call go when it is answered, nor that a call in progress
keeps the queue waiting. For that `ExchangeInv` adds that the handlers of a call that waits are one chain, from the
handler of its last message to its client's, and that the others have none (`Chained`); that a message is in the queue, in
the device, on the wire or at a client's proxy, in one of them and once (`SentOnce`), and that it is
the last message of its chain (`MessagesHaveHandlers`), so that the answer to it takes the whole chain (`PassesAll`) or
moves its end (`NextInChain`, `LongerChain`, `ShorterChain`); that only calls with a
timeout have timers (`TimersInOrder`); and that the last message of a call is in flight if it is not queued, and is not the one the
function on the stack is about to release (`LastInFlight`). All this is under `~clashed`; a draw that does not clash gives an id that none of these parts is about (`DrawnFacts`). When a call starts nothing is in flight but
what a timer has given up (`StartStep`), so no other is in progress. auth_user is the exception, while its HTTP request
is at the client. TLC has checked `ExchangeInv` on the instance of `jade_api`.

That `~clashed` is needed is shown by TLC on the instance of `jade_api`. Without it `BusyTellsTheTruth` is refuted in four states (a
login draws the id of a ping that waits and ends by the ping's timer; the ping has no handler left) and `OneExchangeAtATime` in
six (an upload loses its handler likewise, and its message goes out between others). `getNewId` draws one of 90000 ids and, five times,
avoids those that have a handler, but not those of a message whose timer has fired and whose answer is still to come.
The theorems say that there is no other way.

`NetworkLoginProofs` proves for any number of sessions made for a network and of connections lost, from `BoundAssumption`:

- `NetworkCorrect`: `Spec => []NetworkInv`;
- `NetworkTypes`, `NetworkAccounts`, `NetworkReleases`, `NetworkStaysUsable`, `NetworkKeepsUser`,
  `NetworkMapsLogins` and `NetworkOutages`: `TypeOK`, `SessionsAccountedFor`, `ReleasedTwiceOnlyAfterTimeout`,
  `LoadedNetworkStaysUsable`, `UserKeepsSession`, `LoggedInSessionsAreMapped` and `OutageIsTrue` in every state.

`NetworkInv` adds three parts to these properties. `LoginInOrder` says which combinations of states the login tasks
can have, and what GDK may still owe them: without it a late answer of `LoginTask` could come for a group that
is finished. `NewSessionsAreFresh` says that a session that has not been made is in no list. `GroupSession` is about the
session the group works on: it is the mapped one while it is listed, none else is ready before the group ends,
it has been released once at most by a failure and once more if its connect timer ran out, and the user's account creation comes after all that. A step
changes the registry in one of four ways (nothing, a session is made, released or lost), so what the
invariant says of sessions is proved by these ways and what it says of tasks by the actions.

`TransactionCreationProofs` proves for any accounts, addresses, payment links and number of changes, from
`CreationAssumption`:

- `CreationTypes` and `CreationCorrect`: `Spec => []TypeOK` and `Spec => []CreationInv`;
- `PageShowsWhatWasEntered`: `Spec => []ShowsWhatWasEntered`;
- `PageKeepsWhatWasTyped`: `Spec => KeepsWhatWasTyped`, an action property.

No order of the answers is excluded. What an answer that overtakes another can spoil is named in the properties: the amount, if the result of an
earlier conversion came last (`current = "overtaken"`); the coins, if those of another account were on their way when this one was selected
(`overlapped`), and then the transaction is still one for the coins there are; the transaction, if there is nothing to create one from
(`~Complete`). The first property speaks of a page at rest, the second of an answer that comes while no
change waits for its update. `CreationInv` says what leads there: the last conversion under way is of the input there is
(`ConversionFollowsInput`), coins and the fetches for them are of the selected account (`CoinsFollowAccount`), and with the
timer off the answer that counts is for the inputs there are, or has come and is shown (`AnswerFollowsInputs`). Each part is
inductive with the types alone, so they are proved apart. The types need that the numbers of the
transactions being created differ from those to come.

Both `NetworkInv` and `CreationInv` have been checked by TLC on the instances of `network` and `create_tx`.

Only model-checked: liveness, which the prover cannot express here
(`FailureReachesGroup`, `GroupEnds`, `EveryCallEnds`, `TakerMovesOn`, `EveryRequestEnds`,
`IdleSessionIsReleased`, `LoadEnds`, `Settles`). Every invariant and every action property of a passing run is a theorem. The type invariants of the scheduler, the
HTTP queue and the wallet store are conjuncts of `SchedulerInv`, `HttpInv` and `StoreInv`, which the runs check; the runs do not repeat
`GdkTypeOK` and the `TypeOK` of `JadeApi`, which are proved.

## 5. Findings

- **`network_late`** refutes `LoadsLoggedInSessions`. When one task of a network's group fails, say
  `GetWatchOnlyDetailsTask`, `TaskGroup::update` sets all tasks to `Failed`, the finished `LoginTask` too; the handler that
  "ignores" its failure (`context.cpp:701`) releases the session. If `LoadAccountsTask` is
  with GDK at that moment, its answer is handled all the same and calls `loadNetwork2`, whose
  `getOrCreateSession` makes a session that is not ready: `Q_UNREACHABLE()` (`context.cpp:632`).

Other statements of the repository are stated in the modules, are in no run, and are
false of the code; TLC refutes each on the instance given:

- "Nothing in progress, nothing queued" (`jade/jadeapi.cpp:260`), `NothingInProgress` of `JadeApi`, on `MCJadeApi` with
  `MaxDrops = 0` and `MaxRepeats = 0`: while `auth_user` waits for a HTTP answer nothing is in flight and another call is sent in its middle.
- The user has a chance to confirm or cancel a signing (`jade/jadeapi.cpp:571`), `SigningWaitsForTheUser` of `JadeApi`, for a
  ping and a signing with `MaxId = 3` and `MaxRepeats = 1`: timeouts by message id are never removed from
  `m_msg_timeout`, so a signing that draws the id of an earlier ping inherits its second.
- `Error` is terminal (`dlc/dlc_state_machine.h:35`), `ErrorIsTerminal` of `DlcNegotiation`, on `MCDlc`: the answer to
  an earlier poll takes an order out of it.
- Makers request a sign context (`dlc/dlc_state_machine.h:17`), `MakerRequestsSignContext` of `DlcNegotiation`, on
  `MCDlc` with fairness: an order tracked for the maker stays `Idle`.
- There is an attempt left to take, `Q_ASSERT(m_attempts > 0)` (`wallet.cpp:240`), `AttemptsStayPositive` of `WalletStore`, on
  `MCWallet` with `MaxTries = 4`: the page enables its field when a login has failed, whatever the attempts.

Three statements a user might expect are in the modules too, and are false for want of something in the code:

- A deleted wallet is gone (`DeletedForGood` of `WalletStore`, on `MCWallet`): after `Controller::deleteWallet` the wallet keeps its context and its page for
  half a second (`controller.cpp:121`), and `Wallet::save` asks only for `m_is_persisted`, which `removeWallet` leaves set. A PIN set, or a name
  changed, in that time writes the file anew, and the next start lists the wallet. TLC finds it in nine states.
- The page always shows what was entered (`AlwaysShowsWhatWasEntered` of `TransactionCreation`, on `MCCreation`): coins of the account selected before arrive after the
  next was selected and become its coins, in six states. Likewise results of conversions are taken in the order they
  arrive (`convert.cpp:390`), and an update that finds no coins or no address takes no sequence number, so a transaction being created meanwhile
  still counts (`createtransactioncontroller.cpp:119`).
- An answer never overwrites what was typed (`AlwaysKeepsWhatWasTyped`, on `MCCreation`): an answer that writes a link's address comes in the 5 ms
  between a change and the update it triggers, in five states.

No doc, comment or test of the repository states these three (the interface only offers to delete the wallet from the app), so they are no runs.

## 6. What is not covered, and why

- Two hazards of `HttpManager` are outcomes of its model rather than findings, because no
  line of the repository says what should happen. `crashed` is reachable: settings change
  while a session whose request was destroyed is connecting, the session is released, and its
  attempt fails. And with `LateNews = TRUE` the property `EveryRequestEnds` is false: a "connected"
  notification on its way as the attempt fails leaves `m_connected` set on an inactive session.
  `http` runs with both possible; `http_live` excludes the second.
- A connect timer that fires while the session is connected does nothing, and nothing arms it again; if the
  connection is then lost for good before the dispatcher looks, the task stays active.
  `gdk_load` assumes that connections last.
- Calls of `JadeAPI` without a timeout never end if their message is lost with the link (`Lost`).
- `TakerAcceptSubmitted` is not among the states the DLC poll timer looks at, so nothing
  monitors such an order, although `dlc/dlc_state_machine.h:18` speaks of both sides.
- An id of `JadeAPI` that clashes is followed by the model (its bound is `MaxRepeats`), but `BusyTellsTheTruth`, `OneExchangeAtATime` and
  `EveryCallEnds` say nothing from then on. Two equal messages under way (the same id and call) are one in the model; that takes an id drawn again twice.
- A session that waits for Tor, or that GDK called connected when `m_connected` is not set, keeps its loaders waiting (`WaitsForTor`,
  `Stranded` of `NetworkLogin`): nothing in the code fails them. `LoadEnds` names both.
- A crash while a record is truncated loses the wallet's record, and a crash in the middle of the migration
  leaves the rest of the old records behind; both are what the code does and are behaviours of the model.
- The two lists of `SessionManager` agree with `Context`'s whatever happens, but a session whose connection timed out
  is in the garbage twice (`ReleasedTwiceOnlyAfterTimeout`), and `exit` deletes what is there.
- A `TaskGroupMonitor` only observes groups. Tasks that others depend on are not destroyed
  on their own in the model: the code's clients delete only tasks nothing depends on.
- Message contents, transactions, keys, amounts and everything shown are abstracted away.
- Generated bindings, third-party code, settings, analytics, quotes, charts and QML keep
  no protocol state.

Every hazard found is in `PROJECT.json` at its line, with the properties
that watch it or the reason why none does.

## 7. Plan

1. *Done.* `TaskScheduler`, `GdkTasks`, `JadeApi` with `JadeCalls`, `DlcNegotiation`, `HttpManager`, `NetworkLogin`,
   `WalletStore`, `TransactionCreation`; proofs as in section 4.
2. `JadeLink`: the byte stream as a sequence of pieces, partial writes and reassembly, shown to
   implement the link `JadeApi` assumes; the discovery agent and the firmware lock on top.
3. `AccountTransactions`: overlapping paged fetches with the dangling set.
4. `SessionLife`: activity, auto logout and its timer.
5. The Ledger queue; swaps as far as the controllers keep state.

Theorems left: none of the safety properties the runs check. Worth stating and proving next: that `HttpManager`
starts requests in the order they were made, and that `DlcNegotiation` implements the life of one order.
