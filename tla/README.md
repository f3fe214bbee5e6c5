# A verification development of the kitakami device code

`android_device_sony_kitakami-common` holds the device-specific part of an
Android system: the radio interface layer, the GPS engine, the camera HAL, the
FM radio daemon, lights and a number of small libraries and configuration files.
This directory models the parts whose correctness depends on threads, timers and
messages that cross each other, checks them with TLC and proves the most
important safety properties with TLAPS.

Paths below are relative to the repository. `ril.cpp` is `libril/ril.cpp`,
`ril_service.cpp` is `libril/ril_service.cpp`; the `loc_eng*` files are in
`gps/loc_api/libloc_api_50001/`.

## 1. Inventory

| part | state it keeps | operations | hard because |
|---|---|---|---|
| libril, wake lock (`ril.cpp`) | the kernel lock, `s_wakelock_count`, `s_last_wake_timeout_info`, one `UserCallbackInfo` per timer | grab for a message, release on acknowledgement, release on a 200 ms timer, cancel a timer by a newer one | vendor threads, the HIDL thread and the event loop thread; the event loop touches the shared pointer without the mutex; `calloc` may fail |
| libril, solicited requests (`ril.cpp`, `ril_service.cpp`) | `s_pendingRequests`, a heap block per request, `wasAckSent`, `s_subActivated` | dispatch, `RIL_onRequestAck`, `RIL_onRequestComplete`, error responses, self-activation of the SIM | a token is a heap address that is reused; several vendor threads answer at once |
| libril, HIDL service (`ril_service.cpp`) | callback objects, `mCounterRadio`, an rwlock per slot, the saved NITZ message | client connects, client dies, response, indication, resend of NITZ | the lock is given up in the middle of a call; the client may be replaced meanwhile |
| libril, radio interface (`ril_service.cpp`, `ril_commands.h`, `ril_unsol_commands.h`, `ril.h`) | the heap copy of a request's arguments; nothing between calls | 136 methods of IRadio 1.0 and 1.1 and IOemHook, 135 answers, 51 indications | each method has error paths of its own that must free what was copied; a payload's layout is told by its length; two tables and the vendor lie between a method and its callback |
| libril, event loop (`ril_event.cpp`, `ril.cpp`) | watch table, timer list, pending list, wakeup pipe | start, add a timed callback, wake, expire, fire | the loop looks at its list without the mutex before it sleeps; callbacks change the lists that are being walked |
| libril, SAP (`RilSapSocket.cpp`, `sap_service.cpp`, `rilSocketQueue.h`) | `sapCallback`, the queue of pending requests, up to six heap blocks a request | 8 methods of ISap, dispatch, complete, indications | two threads free each other's blocks; the callback is read, called and cleared with no lock |
| ril-wrapper, radioconfig | none to speak of | pass-through | - |
| GPS, data connections (`loc_eng_agps.cpp`) | a state and a list of subscribers per interface, retries, timers | subscribe, unsubscribe, granted, denied, released, retry, modem restart | answers carry no request id and arrive late; the emergency machine falls back and retries |
| GPS, network-initiated requests (`loc_eng_ni.cpp`) | two sessions: request, id, response flag, lock | request from the modem, user response, timeout, modem restart | `rawRequest` and `reqID` are used outside the lock; a thread per request outlives its session |
| GPS, engine sessions (`loc_eng.cpp`, `LocEngAdapter.cpp`, `loc.cpp`, `LocApiBase.cpp`) | navigating, fix criteria, mute session, engine status, aiding data to delete, configuration | init, cleanup, mode, start, stop, reports, aiding data, SUPL server, configuration update, ULP, engine down and up | calls of the framework, reports of the modem, a restart and a ULP that forwards late all meet in one queue |
| GPS, utilities (`gps/utils`) | message queue, timer heap, delegates, one timer descriptor a container; thread delegates | start, stop, expire; send, receive | expiry against stop; two threads arm and disarm one descriptor |
| camera HAL (`camera/`) | primary and extension sessions, memory slots and heaps, preview window and buffers, parameters | open, close, destroy, preview, recording, frames, buffers, get and set parameters | two objects on one sensor; the vendor has one user pointer for both; its threads run beside the calls |
| FM radio (`fmradio/`) | power, event queue of 8, replies | commands, events | one opcode for all commands; late replies |
| lights (`light/lights.c`) | attention, notification, battery, under one lock | set | priority of the sources |
| shims, sensors, health, configuration | - | - | not stateful |

Interaction. The framework calls libril over HIDL, on one thread
(`configureRpcThreadpool(1, true)`); the dispatch functions put a `RequestInfo`
in the list and call the vendor RIL; vendor threads call back with
acknowledgements, completions and indications, which take the slot's read lock,
grab the wake lock where an acknowledgement is expected, and call the framework.
The wake lock's timers are callbacks of the event loop. In the GPS engine,
callbacks from the modem, the framework and timers post messages to one MsgTask
thread, which runs the handlers one by one; the threads of network-initiated
requests and of timers run beside it. In the camera HAL the framework and Sony's
extension service each call a device object of their own; the vendor's threads
call back into whichever was opened first.

What makes each part correct: the wake lock is held while a message is on its
way and never for ever; each accepted request is answered once, with its own
result and through its own callback; arguments are freed once and payloads not
read beyond their end; a live client is never disconnected and the lock stays
balanced; every timed callback runs, in order; a data connection is held just as
long as somebody wants it and whoever asks is answered; the modem is told exactly
once what the user decided; the GPS engine runs what was asked for last; a timer
that is started ends once; no table of the camera names a closed session, and a
heap, a frame or a buffer goes back to where it came from.

## 2. Modules

| module | models | proofs |
|---|---|---|
| `RilThreads` | the threads that share libril's locks | - |
| `RilWakeLock` | the wake lock, its counter and timers, for RIL versions below and from 13 | `RilLocks_proofs` |
| `RadioContract` | abstract: what the framework is promised about a request | - |
| `RilRequest` | the pending list, dispatch, acknowledgement, completion; implements `RadioContract` | `RilRequest_proofs` |
| `RilService` | clients, rwlock, `checkReturnStatus`, NITZ | `RilLocks_proofs` |
| `RilTypes` | sizes and fields of the structures of `ril.h` that readers look at, and the readers | - |
| `RadioRequests`, `RadioResponses`, `RadioIndications` | the methods of the radio services as programs of steps, the answers, the indications | - |
| `RadioInterface` | one request, and the answers and indications, over these tables | - |
| `RilEventLoop` | the event loop: its start, timers, pending events, `select` and the pipe | `RilEventLoop_proofs` |
| `RilSap` | SIM access requests, their heap blocks, their queue and their client | `RilSap_proofs` |
| `AgpsStateMachine` | the state machines agnss, wifi and ds, their clients and services | `AgpsStateMachine_proofs` |
| `LocEngNi` | network-initiated requests | `LocThreads_proofs` |
| `LocEngSession` | engine sessions: framework, MsgTask, ULP and modem | `LocEngSession_proofs` |
| `LocHeap` | the heap of `LocHeap.cpp`: operators on trees | `LocThreads_proofs` |
| `LocTimer` | timers, delegates, poll thread, message task and queue, over `LocHeap` | `LocThreads_proofs` |
| `SonyParameters` | the translation of camera parameters, and what it promises a client | - |
| `CameraDevice` | the device objects of a camera, their tables, heaps, frames and buffers | `CameraDevice_proofs` |

`MC<module>.tla` gives the constants their small values. Operators whose comment
begins with "Mutant" are not part of the model: each is a definition with one
plausible mistake, kept to show that a property would notice it.

### RilWakeLock

Each vendor thread, the HIDL thread and the event loop thread has a program
counter. `GrabCounted`, `LoadLast`, `CancelLast`, `StoreLast` are
`grabPartialWakeLock`; `ReleaseOne`, `ReleaseLast`, `ReleaseUnlock` are
`releaseWakeLock` (`ReleasePlain` below version 13); `userTimerCallback`,
`wakeTimeoutCallback`, `CompareLast`, `ClearLast`, `FreeInfo` are the expiry of
a timer. The steps are as small as the unlocked accesses to
`s_last_wake_timeout_info`. A block is "free", "armed" or "running", and a freed
one may be allocated again, so a stale pointer can hit a newer timer. The kernel
lock is a name that is held or not. `due` orders timers: `processTimeouts` fires
them in that order. `PromptSetup` excludes (below version 13) that a 200 ms timer
expires before the thread that armed it has run the next statement; it is set in
the run that refutes `LegacyHoldCovered`, so the counterexample does not depend
on such a delay.

### RilRequest and RadioContract

A token is a block of `Tokens`; `addRequestToList` takes a free one, and
`FreeRequest` frees it. `Dequeue` and `checkRequestInfoIfAck` are the two uses of
`checkAndDequeueRequestInfoIfAck`, atomic under its mutex. The vendor is a set of
records (token, serial, acked): any vendor thread may acknowledge once and complete
once, also while another is inside `RIL_onRequestAck` for the same request. That
call looks the token up, gives the mutex up and reads the block it points to
(`SerialRead`), which may by then be free or hold the next request; the ghost
`crossed` says that a request was completed during its acknowledgement, and
restricts nothing. `sendErrorResponse` leaves the
block in the list, as the code does. The refinement maps "accepted" to "in
`accepted`" and keeps what the framework was sent, so `Implements` says that the
framework sees exactly one answer, with the request's own result; at most one
acknowledgement, before the answer; and a type that asks for a wake lock
acknowledgement just when one was sent. What it says of acknowledgements holds
until one is `crossed`. Its fairness, that an accepted request
is answered, is part of it. `SET_NETWORK_SELECTION_MANUAL` is completed by
libril itself and the vendor issues no callback for it, as the comment at
`ril_service.cpp:626-634` says.

### RilService

`client` stands for `mRadioResponse` and `mRadioIndication`, `counter` for
`mCounterRadio`. The rwlock is `readers` and `writer`; `Unlock` gives back the
writer's lock or one read lock, whoever took it, as the pthread function does,
and a lock that was never taken fails the `assert`. A call to a dead client
returns an error, and `checkReturnStatus` runs in six steps, one per lock
operation. `copyFails` is fixed in the initial state: only then do error
responses, which take no lock, occur.

### AgpsStateMachine

All handlers run on the MsgTask thread, so each is one action, taken from the
FIFO queue `msgs`. There is one action per state and event; the machines differ
in `EnforceSingle` (wifi), `WaitForClose` (wifi, ds) and the outcome of the data
call (ds). The services and clients are other processes: they take requests in
order and answer later, a connection may be lost by itself, and the modem may
restart. `service` picks which of the three kinds of clients exist in a run; the
machines share no state, so they are not combined. An emergency client that falls
back becomes a client of agnss, through the queue, as in `informStatus`. Dropped
messages (an event a state does not expect) are `UnexpectedEvent`.

### LocEngNi

The MsgTask thread, a thread of the framework and one thread per request. Every
access to `rawRequest` and `reqID` outside `tLock` is a step of its own; a locked
section is one step where nothing unlocked can meet it. Requests are named by the
value of `reqIDCounter`. `memory` records whether a payload was freed, so freeing
it again is visible ("broken").

### RadioInterface and its tables

A method of IRadio is a `Program`: a request code, a sequence of steps (allocate
a block, copy a string, fill a list), each with what an error at it frees and
which error it answers, and what the ordinary path frees after `onRequest`. The
programs of `RadioRequests` are written with one operator per dispatch function
(`dispatchVoid`, `dispatchString`, `dispatchStrings`, ...) and one program for
each method that copies a structure of its own. A heap block is "garbage"
(a member of a structure nobody initialised), "null", "live", "freed" or "broken".
`RadioResponses` gives, for each callback, the reader of its payload;
`RadioIndications` the same for what the vendor sends on its own. A payload is its
length and the size of the element it was written with; a reader says how many
bytes it reads, which layout it took the payload for and which strings it looks
at. `RadioInterface` runs one request through `Call`, `StepDone`, `StepFails`,
`onRequest`, `FreeArguments` and `onRequestComplete`. Values that are copied from
one structure to another are left out; the kind of a record (which technology,
which cell type) is kept, since four tables translate it.

### RilEventLoop

The event loop's thread takes the steps of `ril_event_loop`; a callback that is
requested is added under the mutex and the byte is written to the pipe in a
second step. `calcNextTimeout` reads the list without the mutex: with a thread
adding at that moment it may return any timeout. `firePending` runs one callback
at a time, and callbacks may ask for others. Only the wakeup descriptor is ever
watched (`ril_event_del` has no caller), so the watch table has that one entry.

### RilSap

A request is two threads: the method's (`at`) and the vendor's (`vendor`). `block`
has the heap blocks (message, its buffer, payload, request, copied command, decoded
response), each freed by whoever's code does it. Reading a freed message yields its old contents or an
undefined outcome (`crashed`). Tokens are the client's; two of the requests in the
run have the same one, of different methods.

### LocEngSession

One queue `mQ`, one MsgTask thread; the handlers that span two threads
(`loc_eng_init`, `loc_eng_handle_engine_up`, the update of the configuration) are
two steps. A call through the ULP proxy is two steps as well: `ToUlp` reads the pointer and
makes the virtual call, `SendCall` posts the message if the base proxy left that to the
caller. `setUlpProxy` is three: the mode, the start, the replacement. It runs on MsgTask
without a lock, so the two interleave: a call may be recorded in a proxy that has
already been read, or post its message after the new ULP was told to start.
A ULP keeps a queue of the calls it has yet to forward. `asked`, `refused`, `stale`,
`undeleted`, `replaced` (aiding data that waited when a later request overwrote it) and
`crossed` (a call met the change of the proxy) record what the properties compare with;
they restrict nothing.

### LocTimer and LocHeap

A delegate is an address that may be reused after it is deleted. Client, heap,
queue and message task each hold the bare address. The heap is the code's own:
`push`, `pop` and `remove` on trees that record the sizes of their
subtrees. A node is known by its place in the tree; where the code calls itself for
a child, the places of its calls are its way down (`OnWay`), and what it does to
each node on that way is said at once for all of them. `timerfd` is the one
descriptor of a container, armed and disarmed by the message task and the poll thread
in separate steps; `Tick` moves the clock.

### CameraDevice and SonyParameters

`mLock` of an object is `pc`: one call at a time, with a step for each lock of the
static tables it takes. An id of a heap stands for its heap. `sGetMemory` is
called with any open object's user pointer, since the vendor keeps one for all its
sessions. The calls that are only forwarded (`enableMsgType`, `autoFocus`, ...) are
actions too: a closed object refuses them. `SonyParameters` is pure: parameters are
partial functions, and `fixupGetParameters` and `fixupSetParameters` are
compositions of one operator per clause of the code.

## 3. What the runs show

| run | bounds | properties |
|---|---|---|
| `wake_lock` | 2 vendor threads, 3 blocks, 3 messages, `calloc` may fail | `WakeTypeOK`, `HoldCovered`, `NoUncountedHold`, `AckedMeansReleased`, `WakeLockReleased` |
| `request` | 2 vendor threads, 2 blocks, 3 framework requests, allocation may fail, one activation thread | `PointerNamesRequest`, `NoLostRequest`, `Implements` |
| `service` | 2 clients, 2 vendor threads, 1 NITZ and 2 other messages | `NoAbort`, `LiveClientKept`, `DeadClientDropped` |
| `radio_interface` | all methods, answers and indications; library versions 12 and 15; lists of 1 to 9 elements, 8-byte pointers | `ArgumentsOwned`, `AnsweredInKind`, `ReadsWithinPayload` |
| `event_loop` | 2 threads, 3 blocks, delays 0 to 2, clock up to 3 | `BlocksOwned`, `InOrder`, `CallbackRuns` |
| `sap` | 2 requests with one token, 3 methods, 2 clients, every allocation may fail | `HeapOwned`, `AnsweredOwn`, `Answered` |
| `agps` | 2 clients, 2 asks, 1 retry, 1 lost connection, 1 modem restart | `HeldForSubscriber`, `OpenIsHeld`, `Answered` |
| `ni` | 2 requests, 1 modem restart | `TypeOK`, `InformedOnce`, `EmergencyFirst`, `PayloadOwned`, `Settled` |
| `gps_session` | 2 starts or deletions, 2 overlapping sets of aiding data, 1 position report, 1 modem restart, 1 other event, at most 1 message waiting when another thread posts | `SessionAgrees`, `AidingDeleted`, `MuteEnds`, `StartAnswered` |
| `loc_timer` | 3 clients, 3 delegates, 1 container, 2 delays, 3 starts, clock up to 2 | `DelegatesOwned`, `EndsOnce`, `Expires` |
| `camera` | 2 objects, 2 heaps, 2 slots, 2 windows, 1 buffer | `SessionsAgree`, `MemoryOwned`, `BuffersKnown`, `ParametersKept` |

The first safety property of each run contains the types of its variables.
Deadlock is checked in `wake_lock`, `request` and `service`, whose `Quiet` action is
the only way to stop; elsewhere clients and users may really stop asking, or a
bound is used up.

Why these bounds are enough to be interesting:

- two vendor threads are the least that race; a third timer block lets one be freed
  and reused while two are in use; a third message arrives after a timer has expired;
- two blocks for four requests (the self-activation is one) make a block reused
  while a thread still acknowledges the request it held before;
- two clients are one that dies and its successor;
- two AGPS clients are one that leaves while another stays, and with two asks one
  can ask again while the answer to its first request is still coming; two
  network-initiated requests share a session, or one is SUPL and the other an
  emergency;
- the radio interface keeps nothing between requests, so one at a time is enough;
  data calls have 56, 64 or 72 bytes in the three layouts, so lists of 8 and 9
  are the shortest that can be taken for one another, and the bound reaches them;
  version 12 is what this device's library registers, and with 15 every test of the
  version in `ril_service.cpp` goes both ways;
- three delays and three blocks make timers that are due together, in order and
  out of order of being asked for; a callback can ask for a block just freed;
- two SAP requests complete in both orders and one may meet the other's client;
- two starts are a session that is replaced; a start and a deletion, or two
  deletions, of which the second overwrites one that waits, cross each other; and
  with one restart and one event any of ULP, muting, server and configuration
  crosses a session; a message that waits is enough for a start to stand between the
  modem's return and the messages that report it, which are two;
- three timers make a heap of two levels, and a delegate's address is reused;
- two camera objects can be primary and extension, or both primary when their opens
  race; two heaps belong to different sessions; a second window comes while the
  buffers of the first are out.

### A comment the code does not keep

| run | comment | what happens |
|---|---|---|
| `wake_lock_legacy` | `ril.cpp:790-792`, "as we exit we'll either release it immediately or set a timer to release it later" | below version 13, which is what this device registers, the timer pointer is shared without a mutex; a thread cancels the newest timer through a stale pointer and the lock stays |

### Where the properties stop, because the code does

- `PointerNamesRequest` and `Implements` are run with one activation thread: two
  completions under the shared read lock can both find `s_subActivated` false
  (`ril_service.cpp:3124`), and the activation is then sent twice.
- `RIL_onRequestAck` uses the block after it gave the mutex up (`ril.cpp:581-595`).
  If the vendor completes the request meanwhile (657), the framework is sent an
  acknowledgement after the answer, or one for the block's next request.
  `PointerNamesRequest` excepts that pointer; `RadioContract` promises nothing about
  acknowledgements from then on, and all it promises about answers.
- `NoAbort` and `LiveClientKept` suppose that arguments can be copied
  (`~copyFails`): `sendErrorResponse` reaches `checkReturnStatus` without the read
  lock it gives up there.
- The saved NITZ message is copied after the lock is released (`ril.cpp:866`); which
  of two times survives is not promised.
- `ArgumentsOwned` excepts the strings of `setCarrierInfoForImsiEncryption`, freed on
  its error paths only; `AnsweredInKind` excepts `hangupForegroundResumeBackground`,
  answered as `hangupWaitingOrBackground`; `ReadsWithinPayload` excepts
  `networkScanResult`, whose length is not checked, and `getAvailableNetworks` where
  `ro.ril.telephony.mqanelements` is below 4, since four strings of each network are
  read all the same (`ril_service.cpp:4721-4730`).
- `CallbackRuns` supposes the loop's thread and its pipe could be made; a loop that
  could not make its pipe returns, and nothing is promised.
- SAP `Answered` excepts a client dropped, or a callback used as NULL, in the race
  for `sapCallback`. `HeapOwned` excepts the command copied by `apduReq` and the
  response `sapDecodeMessage` decodes for every completion
  (`sap_service.cpp:535-661`), which are never freed.
- `PayloadOwned` and `Settled` are stated up to the first modem restart:
  `loc_eng_ni_reset_on_engine_restart` frees the payload without `tLock`, and the
  session's thread can meet it. A user's response that loses against the timeout
  answers the next request (`loc_eng_ni.cpp:403` after 384); the model has it happen.
- `HeldForSubscriber` excepts a machine whose subscribers a modem restart dropped
  without resetting its state; `OpenIsHeld` and `Answered` leave out the emergency
  machine, whose list keeps a subscriber it released and whose retry is ignored when
  Releasing goes to Pending.
- `SessionAgrees` says nothing of the session once a call met the change of the proxy
  (`LocEngAdapter.cpp:278-303` against `loc_eng.cpp:1911`, `1962`, `2038`): a stop
  recorded in the old proxy can post its message before the start the new ULP was told
  is forwarded, and the session goes on. `AidingDeleted` excepts data of a request that
  waited for the engine when a later one overwrote it (`loc_eng.cpp:1300`), in spite
  of the comment at 2115-2119.
- `SessionAgrees` excepts an update that `reinit` undoes with what it read before
  (`loc_eng.cpp:1788`), and promises nothing of single-shot sessions, whose last
  report may clear the flag of the next one (`loc_eng.cpp:791`). After a restart
  `AidingDeleted` promises nothing, because the modem makes no report.
- `EndsOnce` counts callbacks; one may come early: `MsgTimerExpire` pops the head of
  the heap without looking at its time (`LocTimer.cpp:367`).
- `MemoryOwned` protects the frames of primary sessions; an extension's heaps are
  other sessions'.

## 4. Fairness

A thread that is inside the code goes on (weak fairness of its steps). Beyond it:

- wake lock: the event loop thread is woken by `select`'s timeout; nothing makes
  the framework acknowledge. `WakeLockReleased` therefore rests on the timers.
- requests: the vendor completes, some time, every request it was given; that is
  the contract of `RIL_RadioFunctions.onRequest`. It need not acknowledge.
- service: the callbacks are one-way HIDL calls, which return whether the client
  lives or not; no client has to connect.
- event loop: time passes, and signals do not interrupt every `select` for ever
  (strong fairness of its return, since `EINTR` goes back to computing a timeout).
- SAP: the vendor completes what it was asked; no client has to connect or to live.
- AGPS: the MsgTask thread loops for ever, timers expire, and a connectivity
  service answers what it was asked; nobody has to ask or to let go.
- network-initiated: the threads run and the timed wait ends
  (`pthread_cond_timedwait`); the user need never respond.
- engine sessions: MsgTask loops, a ULP forwards what it was given, the framework's
  thread goes on with a call or an update it is in (`HalSteps`), and a modem that went down comes up again. The modem need
  not report anything.
- timers: poll thread and message task loop, and time passes.

The radio interface and the camera have safety properties only, and no fairness.

## 5. Proofs

Eight modules prove, for every value of the constants:

| theorem | module | states |
|---|---|---|
| `TypeCorrect` | `RilLocks_proofs` | `WakeSpec => []WakeTypeOK` |
| `HoldAlwaysCovered` | | `WakeSpec => []HoldCovered`: a held lock has a live timer or an expiry under way |
| `HoldAlwaysCounted` | | `WakeSpec => []NoUncountedHold`: the counter and the kernel lock agree |
| `AckedAlwaysReleased` | | `WakeSpec => []AckedMeansReleased`: once all is acknowledged, no lock waits for its timer |
| `NiTypeCorrect` | `LocThreads_proofs` | `Spec => []TypeOK` |
| `NiEmergencyFirst` | | `Spec => []EmergencyFirst` |
| `NiInformedOnce` | | `Spec => []InformedOnce` |
| `NiPayloadOwned` | | `Spec => []PayloadOwned`: a request's payload is freed once, by who took it, and used by nobody later |
| `DelegatesAlwaysOwned` | | `TimerSpec => []DelegatesOwned`: no thread reaches a deleted timer delegate, none leaks, and a running timer is on its way to expire |
| `TimersEndOnce` | | `TimerSpec => []EndsOnce`: a timer that was started ends by one stop or one callback |
| `PointersNameRequests` | `RilRequest_proofs` | `Spec => []PointerNamesRequest`: no use of a freed or reused request, but in an acknowledgement the vendor overtook |
| `NothingLost` | | `Spec => []NoLostRequest` |
| `ContractKept` | | one activation thread: `Spec` implements the safety part of `RadioContract` |
| `NeverAborts` | `RilLocks_proofs` | `Spec => []NoAbort` |
| `LiveClientAlwaysKept` | | `Spec => LiveClientKept`, an action property |
| `SessionsAlwaysAgree` | `CameraDevice_proofs` | `Spec => []SessionsAgree` |
| `MemoryAlwaysOwned` | | `Spec => []MemoryOwned`: a heap belongs to the session that asked for it |
| `BuffersAlwaysKnown` | | `Spec => []BuffersKnown`: a buffer the vendor holds goes back to the window it came from |
| `ParametersAlwaysKept` | | `Spec => []ParametersKept`: a client reads back what it chose |
| `RoundTrip` | | for any parameters: what may be set through `fixupSetParameters` is what `fixupGetParameters` shows |
| `BlocksStayOwned` | `RilEventLoop_proofs` | `Spec => []BlocksOwned`: an event is in one place, and freed once |
| `CallbacksInOrder` | | `Spec => []InOrder`: a due callback runs before any later one |
| `HeapAlwaysOwned` | `RilSap_proofs` | `Spec => []HeapOwned`: no block of a SIM access request is freed twice, and only the copied command and the decoded response are leaked |
| `AlwaysAnsweredOwn` | | `Spec => []AnsweredOwn`: a client is told the result of its own request |
| `HeldAlwaysForSubscriber` | `AgpsStateMachine_proofs` | `Spec => []HeldForSubscriber`: an interface is waited for or held only while a subscriber wants it |
| `OpenAlwaysHeld` | | `Spec => []OpenIsHeld`: a client that believes its connection open is an active subscriber of a machine that has it |
| `SessionAlwaysAgrees` | `LocEngSession_proofs` | `Spec => []SessionAgrees`: the engine runs what was asked for unless a call met the change of the proxy, and is configured as `gps.conf` says |
| `MuteAlwaysEnds` | | `Spec => []MuteEnds`: a session stays muted no longer than it lasts |
| `AidingAlwaysDeleted` | | `Spec => []AidingDeleted`: no aiding data that was to be deleted is left, but for what a later request replaced |

They rest on the named assumptions of the modules: bounds that are numbers, marks
(`NoInfo`, `NoDevice`, ...) that are not among what they mark, finitely many
vendor threads that are neither the HIDL thread nor a mark (`ThreadsDiffer` of
`RilThreads`), delays that are numbers (`TimerBounds`) and a mark that is no client,
container or delegate (`NoneIsNobody` of `LocTimer`), and no more device objects
than memory slots (`SlotsEnough` of `CameraDevice`: beyond them a session gets the callback without a slot, which is not modelled).
`ContractKept` has the premise `OneActivator`, for the reason given in section 3.

Wake lock. `HoldCovered` speaks of the moments when the mutex is free, so it is
not inductive by itself: inside the critical section an older timer has been
cancelled and the new one is not stored yet. The inductive invariant `WakeInv` adds
what each place knows. `MutexInv`: a thread inside one of the critical sections
owns the mutex. `LoopInv`: the block of the timer that is running belongs to the
event loop thread, so it is not allocated again before it is freed. `LastInv`:
`s_last_wake_timeout_info` does not dangle, because the event loop clears it
before it frees the block. `GrabInv`: the timer of an unfinished grab is armed and
live, or its expiry is under way, and it is not the one the grab cancels; so when
the grab leaves, its own timer covers the hold. `ReleaseInv`: an unfinished release
has already dropped the kernel's lock, so whatever it cancels covers nothing.
`CountInv` relates counter and lock at every step, and gives `NoUncountedHold`.
`LastInv` is what fails below version 13, and with it the claim. For
`AckedMeansReleased`, `OwedInv` bounds the counter by the messages that still owe a
release: those in the hands of a thread (`Carriers`, a finite set), those the
framework has not acknowledged, and those that found no client.

Requests. What a thread may do with a bare `RequestInfo` pointer depends on who
else could free it. `HeldInv`: a thread that owns a block (any that holds one but
for an acknowledgement) has it live, with the serial it acts for, still in the list
before its completion and no longer after. `VendorInv`: a token of the vendor's
names a block that is in the list with its request. `OwnerInv`: a block has one
owner, the vendor or a thread; a thread that acknowledges owns nothing, so its
pointer is good just as long as the vendor's is. `FreedInv`: an answer comes before
its block is freed. Completion takes the block out of the list under the mutex and
away from the vendor; that is what makes these four inductive together, with
`NoLostRequest`, and they give `PointerNamesRequest`. For the contract, `BlockInv`
says that no two live blocks have one serial (here a second activation thread
would break it), and `SentInv` that the answers the framework was sent are what the
place of the owner says. Until an acknowledgement is crossed, `CallInv` says that
what is being acknowledged is still the vendor's, and `AckInv` that the
acknowledgements that were sent are what `ackSent` says. Every step
then is a step of `RadioContract` under the mapping of the refinement, or leaves
what the framework sees alone.

Service. `LockInv`: the number of readers is the number of threads at places
between taking and giving up the read lock, and a writer excludes them; this is an
equation between a counter and a cardinality, hence the finite set of vendor
threads. `OpInv` and `ClientInv`: what a thread knows of the callback it tested,
while it holds the lock. `SeenInv`: the counter a thread noted is an old one, or the
client is still the dead one it was noted for (or none); the counter only grows, so
`checkReturnStatus`, which compares it under the write lock, drops nobody else.

Camera. `SessionsAgree` needs two more facts to be inductive. `PlaceInv`: what the
call that holds an object's `mLock` has decided and done at each of its places.
`UnslottedInv`: an object that is being opened has no slot yet. That
`claimMemorySlot` finds a free slot is the pigeonhole principle over the slots and
the other objects.

Camera memory. The vendor keeps the callbacks of a primary session, and so the slot
they carry, from the end of `open` to the end of `close`; so the slot with which
`sGetMemory` is called names the object that asked. The heap maps of an object are
empty while it is closed or being opened, and a heap that was forgotten exists only
while its session is inside a call of the vendor's or is being closed. For the
buffers: a buffer that is held was configured; the vendor has a part of them only
while the device is open; and a buffer that circulates does so in no window or in
the current one.

Camera parameters. Each stage of a translation changes a few keys and leaves all
others as they are (`Only`), so a key is followed through the stages that touch it.
For the exposure, `AeMode` tabulates the mode that ISO and shutter speed together
stand for: `Told` says that the library has been given that mode and the values
behind it, whatever mode it had, and `ExposureShown` that the client is shown the
same again. What a client may set follows from what the library says
(`WhatIsShown`), which is where the bounded sets of `SonyParameters` enter;
`RoundTrip` holds for any parameters.

Event loop. The lists start empty, and the pending list is filled and emptied within
one round, so at every other place it is empty. The places of an event (watched,
timer list, pending list, running) exclude each other, each list names an event
once, and the timer list is sorted by time. `InOrder` follows because the pending
events are due and were due before everything that is still in the timer list. The
lemmas are about the operators that the loop is built from: the least timeout is a
member and is least (by well-founded induction on the numbers), an insertion keeps a
list sorted and adds one place, `processTimeouts` splits a sorted list in what is
due and what is not.

SIM access. The queue is exactly what the vendor holds and has not completed, in the
order of the requests. Two outstanding requests differ in token or in message id, so
`checkAndDequeue`, which compares both, takes out the request that was completed.
What is allocated and freed of each block is fixed by the places of the two threads
that handle it, the one that dispatches and the one that answers.
`ConvertedHonest`: only a success of the vendor's is told as one.

Network-initiated requests. A request is named by the value of `reqIDCounter`,
which only grows. `Fresh`: a request that was not accepted has no thread.
`LockOwner`: a lock belongs to a thread of its session. `RawBound`: no session
holds a request newer than the newest accepted. From these an accepted
emergency request is newer than any SUPL request in session, and no later SUPL
request is accepted: `EmergencyFirst`. `InformedOnce` needs to know where the one
message about a request can be. `MessageInv`: a thread has a message only between
making and sending it. `SessionInv`: a request whose message exists and that is
still in its session is about to leave it, by the thread that holds the lock.
`FlightInv`: a request's message is in one place only, in one thread, once in the
queue or once at the modem. A restart takes a request away from its thread, and
the thread then may find a newer one in its session; the lock makes one of the two
threads of that session take it, and `InformedOnce` holds all the same.
`PayloadOwned` rests on that: a request has no payload just when it is newer than the
newest accepted; a live payload is in its session, in a thread or in the queue; a
freed one is in none of them, but in a session that is being cleared; and until the
modem restarts, the request a thread holds stays in its session until it clears it.

Timers. `TimerInv` says what each pointer to a delegate may rely on. `RunningOwned`:
the delegate of a timer that runs is alive, names its client, and is in a heap, in
one push that is queued, or expiring. `LiveOwned`: a delegate that is alive runs or
is to be removed. `RemoveOwned` and `PushOwned`: nothing is asked for twice, a
removal is of a disowned delegate, and it comes after the push of the same delegate
to the same heap. `HeapOwned`: what is in a heap is alive, ranked by its own time, in
one heap only, and removed from no other. `ExpiringOwned`: the delegate whose expiry
the message task carries out is alive, its client's or disowned. So whoever wins
the race between `stop()` and `expire()`, one removal follows, and it deletes the
delegate after everyone else has let go; and `EndsOnce`, an equation of counters, is
inductive beside it. All this rests on the heap, for trees of any size: a tree that
`checkTree` accepts is still one after `push` (`PushTree`), `pop` (`PopTree`) and
`remove` (`RemoveTree`), which hold what they held and the new datum, or lack the
datum taken out and nothing else; in particular the search of `remove` finds its
datum, because the order of the tree lets it skip only what cannot hold it. Walks
in a tree are functions by recursion on the halves of a place. That there is such a
function (`HalvingFunction`) is proved here, by descent to the least place at which
there would be none: the library's induction theorems take an operator.

Data connections. `LInv` gives `HeldForSubscriber`: besides the types, `ListFits`
says of each machine what its list holds in its state, in particular that nobody
subscribes twice, that "Released" leaves agnss and wifi nobody, and that a WiFi
machine in "Releasing" has only subscribers that gave up. Notifications drop
subscribers from the list through `Pick`, whose lemmas (which places it keeps, in
which order, that it adds none) rest on ranks: the place of a kept subscriber is the
number of kept ones up to it. `OpenIsHeld` needs what the parts of the system know
of one another, `CInv`. For all clients: machines that nobody reaches rest
(`OthersRest`), a message is from the kind of client that runs (`SendersKnown`), and
a client of agnss of a modem that comes up again has asked for nothing yet
(`RestartQuiet`). For WiFi, whose client and machine see one another late:
`WifiCalls` bounds what a client can believe by its messages under way (one request
at most, after any releases; none while it is subscribed), and `WifiLine` lists which
requests to the service, state of the connection and unheard reports go with a state
of the machine. An answer that crosses a release, or a connection that is lost while
a grant is unheard, are lines of that table; the second part of `OpenIsHeld` is the
table once every queue is empty. TLC checked both invariants first.

Engine sessions. The three properties speak of the moments when every queue is
empty; the invariants say what the messages that are on their way will still do.
The lemmas about queues (what one that has grown at its end, or lost its head, still
has) carry most of the work. `RestartInv`: a modem that is down or coming up runs
nothing, and the two messages of one that comes up stand together in the queue.
`ConfInv` and `ServerInv`: the last value posted is the current one, unless it is
about to be posted again (or was read before an update: `stale`). `MuteInv` and
`OnInv`: a session that is muted, or an engine that is on, and every message that
would make it so, is followed in the queue by one that ends it, unless the modem has
still to tell. `AidInv`: until the modem restarts, each kind of data that is
left to delete and was not replaced is in a request on its way (`Asking`) or in
`aiding_data_for_deletion`, and what is in the latter waits for an engine that is on. For `SessionAgrees` the commands count, wherever they wait.
`CommandInv`: those among MsgTask's messages, followed by those that wait for the
ULP, are one sequence, which grows at its end as the framework asks and loses its
head as MsgTask acts (`Spells`). That sequence says what will happen (`Orders`): a
start comes after its mode (`ModeFirst`); one that is not stopped is what was asked
for (`StartsNear`, `LastNear`); a mode does not turn a session that runs into a
single one (`ModesSame`); and when no stop is on its way, MsgTask and modem already
do what was asked, or were refused (`Unstopped`). `AskedInv` is what the base proxy
remembers of it, from which a ULP that is put in between starts: with the call that is
being made (`WantedCommand`, `WantedCriteria`), since it is recorded before it is
posted. `Told`: the start that the new ULP will be told comes behind its mode. All of
this holds as long as no call met the change of the proxy, so the invariant is
`crossed`, which stays, or these. TLC checked the model on small instances before
they were proved.

Only model-checked: everything temporal beyond safety (`WakeLockReleased`,
`DeadClientDropped`, `CallbackRuns`, `Expires`, both `Answered`, `Settled`,
`StartAnswered`, the liveness of `Implements`), which is out of this prover's
reach; and all of `RadioInterface`, whose steps are cases over large concrete
tables, which TLC visits in full.

## 6. Assumptions and what is left out

libril.

- What a vendor's `RIL_onRequestAck` does that reads `pCI` through a freed block
  (`ril.cpp:588`) is taken not to crash; whatever serial the block then says is given.
- Heap memory is a finite set of blocks; a use of a freed block is modelled where
  it matters (`UserCallbackInfo`, `RequestInfo`, the messages of SAP).
- One slot. `getRadioServiceRwlock` compares `slotId` with 2 although slots count
  from 0, so two slots share one lock; sharing is coarser than intended, not unsafe.
- The radio interface abstracts the values that are copied and formatted. A payload
  that is not NULL has at least one byte, and arrays in it are as long as their
  counts say. Null pointers inside a payload are not given; some readers would use
  them (`atoi` of the mode of `onUssdInd`, `ril_service.cpp:7150`; `strncmp` of a
  network's status, 4688 after 4730). A program ends in "crashed" where the model has
  the code use a null pointer; no property says that these are all. `MaxProfiles`
  bounds the list of data profiles to one.
- SAP: `TokensExist`, `MethodsKnown`: clients number their requests, and `ISap` has
  only the methods modelled.
- Event loop: errors of `select` other than `EINTR` are not modelled. The clock is
  bounded by `MaxTime`; delays are below it.
- SAP: a client's outstanding requests of one kind have different tokens. An
  indication is one step. The socket is absent only when it could not be allocated.

GPS.

- `pthread_create` succeeds in `LocEngNi`; it may fail in `RilRequest`.
- A restarted modem asks for a data connection only after its engine-up was
  handled. `stopDataCall` only gives the handle back. `internet_nif` runs the code
  of agnss and is left out.
- Sessions: the framework sets a mode before it starts, and starts when stopped; it
  initialises AGPS right after the engine. Modem and ULP are external. Begin and on,
  and end and off, are reported together. `gps.conf` is one parameter, the SUPL
  server one address. Without MSA or MSB, `loc_eng_agps_init` posts no server
  (`loc_eng.cpp:2307-2322`), so nothing is said of the server after a
  restart. What else a call through a
  deleted proxy may do, and a mode copied half-way through its assignment, are not
  given. Injected time and position, satellites, measurements and XTRA are left out.
  `ModesAreModes`, `HasMsBoolean`, `ValuesAreValues`: the constants are
  what their names say, and marks are not among them. `OutcomesKnown`:
  `loc_eng_start_handler` tells three outcomes of a start apart.
- Timers: one container (hardware and software timers run the same code); creating
  the descriptor succeeds; the memory of the C wrapper is not modelled. Tasks are
  never destroyed, so a queue is never unblocked or flushed.

Camera.

- A client opens an object only when it is closed. Memory can be allocated and there
  are slots enough. The vendor returns a session's heaps within calls on that session
  and before its close returns, calls nobody back after close, and configures a new
  window before it takes buffers from it. An extension sets no window.
- `setConnectionStatus` has no caller. Native handles of metadata frames and batches
  (`mBatchSize` is never set) are left out, as are the provider's map of cameras, the
  facade's cached provider, and the constant answers about a camera.
- `ParametersKept` ranges over bounded sets of what the library may say; a list
  contains an item if it is one of its elements; a shutter speed in use is known; a
  recording has no HDR scene. Whether `open` reads or writes its first parameters
  translated while an extension opens (`CameraDevice.cpp:912-917`) is not modelled.

Not modelled: the FM radio daemon and its protocol, lights, NMEA, XTRA and daemon
pipes (formatting and I/O), `requestToString` and other wording, `registerService`
and `RIL_register` beyond the version, the wrapper and radioconfig (pass-through),
shims, sensors, health, display, and configuration files.

## 7. Plan

What would come next, in this order:

1. `FmRadio`: command, reply and event queue; `Lights`.
2. The composition of `LocEngSession` with `AgpsStateMachine`: one MsgTask queue for
   both, so that a restart meets sessions and data connections together.
3. `LocThread`: the reference counts of a thread delegate, stop and join; unblocking
   a queue with messages in flight.
