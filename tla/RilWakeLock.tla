---------------------------- MODULE RilWakeLock ----------------------------
(***************************************************************************)
(* The partial wake lock "radio-interface" of libril/ril.cpp.  Vendor      *)
(* threads grab it for every message that must reach the framework, the    *)
(* HIDL thread drops it when the framework acknowledges, and the event     *)
(* loop thread drops it when a 200 ms timer, a UserCallbackInfo, expires.  *)
(* A newer timer cancels the previous one through the shared pointer       *)
(* s_last_wake_timeout_info, which the event loop thread reads and writes  *)
(* without s_wakeLockCountMutex: the steps below are as small as those     *)
(* accesses.                                                               *)
(***************************************************************************)
EXTENDS Naturals, RilThreads

CONSTANTS
  Infos,        \* heap blocks a UserCallbackInfo can occupy
  NoInfo,       \* the null UserCallbackInfo pointer
  MaxMessages,  \* bound on the messages that grab the lock
  MayFailAlloc, \* whether calloc() may return NULL
  PromptSetup   \* version < 13: a timer does not expire before the thread that
                \* armed it has stored it in s_last_wake_timeout_info

ASSUME Distinct == NoInfo \notin Infos
ASSUME Bounds ==
  /\ MaxMessages \in Nat
  /\ MayFailAlloc \in BOOLEAN
  /\ PromptSetup \in BOOLEAN

VARIABLES
  v13,          \* s_callbacks.version >= 13, fixed by RIL_register
  held,         \* the kernel holds the wake lock: a name, not a counter
  count,        \* s_wakelock_count
  mutex,        \* the owner of s_wakeLockCountMutex, or NoThread
  last,         \* s_last_wake_timeout_info
  block,        \* what a heap block is: "free", "armed" in the timer list, or
                \* "running" in userTimerCallback
  cancelled,    \* UserCallbackInfo.userParam # NULL
  due,          \* the expiry time of a timer, in arming order
  at,           \* where a vendor thread or the HIDL thread stands
  info,         \* its local p_info
  prev,         \* its load of s_last_wake_timeout_info
  loop,         \* the event loop thread: where it stands, the timer it runs and
                \* the userParam it passed to the callback
  sent,         \* messages begun
  owed,         \* messages delivered with *_ACK_EXP and not acknowledged yet
  unsent        \* messages that found no client: only the timer ends their hold

holdVars == <<held, count, mutex>>
heapVars == <<block, cancelled, due>>
threadVars == <<at, info, prev>>
tallyVars == <<sent, owed, unsent>>
wakeVars == <<v13, holdVars, last, heapVars, threadVars, loop, tallyVars>>

Idle == [at |-> "select", info |-> NoInfo, param |-> FALSE]

WakeInit ==
  /\ v13 \in BOOLEAN
  /\ held = FALSE /\ count = 0 /\ mutex = NoThread /\ last = NoInfo
  /\ block = [p \in Infos |-> "free"]
  /\ cancelled = [p \in Infos |-> FALSE]
  /\ due = [p \in Infos |-> 0]
  /\ at = [t \in Threads |-> "idle"]
  /\ info = [t \in Threads |-> NoInfo]
  /\ prev = [t \in Threads |-> NoInfo]
  /\ loop = Idle
  /\ sent = 0 /\ owed = 0 /\ unsent = 0

Proceed(t, place) == at' = [at EXCEPT ![t] = place]

(***************************************************************************)
(* internalRequestTimedCallback: p is a fresh UserCallbackInfo with a null *)
(* userParam, in the timer list.                                           *)
(***************************************************************************)
internalRequestTimedCallback(t, p) ==
  /\ block[p] = "free"
  /\ block' = [block EXCEPT ![p] = "armed"]
  /\ cancelled' = [cancelled EXCEPT ![p] = FALSE]
  /\ due' = [due EXCEPT ![p] = sent]
  /\ info' = [info EXCEPT ![t] = p]

(***************************************************************************)
(* grabPartialWakeLock, called by RIL_onUnsolicitedResponse for a          *)
(* WAKE_PARTIAL message and by RIL_onRequestComplete for a request that    *)
(* was acknowledged.                                                       *)
(***************************************************************************)
GrabCounted(v) ==
  /\ v13 /\ at[v] = "idle" /\ sent < MaxMessages
  /\ mutex = NoThread /\ mutex' = v
  /\ sent' = sent + 1
  /\ held' = TRUE
  /\ count' = count + 1
  /\ \E p \in Infos : internalRequestTimedCallback(v, p)
  /\ Proceed(v, "load")
  /\ UNCHANGED <<v13, last, prev, loop, owed, unsent>>

GrabNoMemory(v) ==
  /\ v13 /\ at[v] = "idle" /\ sent < MaxMessages
  /\ MayFailAlloc
  /\ mutex = NoThread
  /\ sent' = sent + 1
  /\ held' = FALSE
  /\ Proceed(v, "deliver")
  /\ UNCHANGED <<v13, count, mutex, last, heapVars, info, prev, loop, owed, unsent>>

GrabPlain(v) ==
  /\ ~v13 /\ at[v] = "idle" /\ sent < MaxMessages
  /\ sent' = sent + 1
  /\ held' = TRUE
  /\ Proceed(v, "deliver")
  /\ UNCHANGED <<v13, count, mutex, last, heapVars, info, prev, loop, owed, unsent>>

\* Mutants, here and below, are the plausible bugs the properties must catch.
\* A new timer is stored before the previous one is cancelled.
LoadLastAfterStore(t) ==
  /\ at[t] \in {"load", "releaseLoad"}
  /\ prev' = [prev EXCEPT ![t] = IF at[t] = "load" THEN info[t] ELSE last]
  /\ Proceed(t, IF at[t] = "load" THEN "cancel"
                ELSE IF last # NoInfo THEN "releaseCancel" ELSE "unlock")
  /\ UNCHANGED <<v13, holdVars, last, heapVars, info, loop, tallyVars>>

(***************************************************************************)
(* "if (s_last_wake_timeout_info != NULL) userParam = 1" and the store     *)
(* that follows it, in grabPartialWakeLock and, for version < 13, in       *)
(* RIL_onUnsolicitedResponse.                                              *)
(***************************************************************************)
LoadLast(t) ==
  /\ at[t] \in {"load", "releaseLoad"}
  /\ prev' = [prev EXCEPT ![t] = last]
  /\ Proceed(t, IF last # NoInfo
                THEN IF at[t] = "load" THEN "cancel" ELSE "releaseCancel"
                ELSE IF at[t] = "load" THEN "store" ELSE "unlock")
  /\ UNCHANGED <<v13, holdVars, last, heapVars, info, loop, tallyVars>>

CancelLast(t) ==
  /\ at[t] \in {"cancel", "releaseCancel"}
  /\ cancelled' = [cancelled EXCEPT ![prev[t]] = TRUE]
  /\ Proceed(t, IF at[t] = "cancel" THEN "store" ELSE "unlock")
  /\ UNCHANGED <<v13, holdVars, last, block, due, info, prev, loop, tallyVars>>

StoreLast(v) ==
  /\ at[v] = "store"
  /\ last' = info[v]
  /\ info' = [info EXCEPT ![v] = NoInfo]
  /\ prev' = [prev EXCEPT ![v] = NoInfo]
  /\ mutex' = IF v13 THEN NoThread ELSE mutex
  /\ Proceed(v, IF v13 THEN "deliver" ELSE "idle")
  /\ UNCHANGED <<v13, held, count, heapVars, loop, tallyVars>>

(***************************************************************************)
(* The response or indication function of ril_service.cpp: the client gets *)
(* the message, or there is none.  For version < 13 the wake timeout is    *)
(* scheduled after the call, and no acknowledgement is asked for.          *)
(***************************************************************************)
Deliver(v) ==
  /\ at[v] = "deliver"
  /\ \/ owed' = (IF v13 THEN owed + 1 ELSE owed) /\ UNCHANGED unsent
     \/ unsent' = unsent + 1 /\ UNCHANGED owed
  /\ Proceed(v, IF v13 THEN "idle" ELSE "schedule")
  /\ UNCHANGED <<v13, holdVars, last, heapVars, info, prev, loop, sent>>

ScheduleTimeout(v) ==
  /\ at[v] = "schedule"
  /\ \E p \in Infos : internalRequestTimedCallback(v, p)
  /\ Proceed(v, "load")
  /\ UNCHANGED <<v13, holdVars, last, prev, loop, tallyVars>>

(***************************************************************************)
(* error_exit of RIL_onUnsolicitedResponse: the timer of a version < 13    *)
(* message, or the copy of a NITZ message no client took, cannot be        *)
(* allocated.                                                              *)
(***************************************************************************)
ErrorExit(v) ==
  /\ MayFailAlloc
  /\ \/ at[v] = "schedule"
     \/ v13 /\ at[v] = "deliver"
  /\ Proceed(v, "release")
  /\ UNCHANGED <<v13, holdVars, last, heapVars, info, prev, loop, tallyVars>>

(***************************************************************************)
(* RadioImpl::responseAcknowledgement: the framework acknowledges a        *)
(* message, at any later time.                                             *)
(***************************************************************************)
responseAcknowledgement ==
  /\ at[Binder] = "idle" /\ owed > 0
  /\ owed' = owed - 1
  /\ Proceed(Binder, "release")
  /\ UNCHANGED <<v13, holdVars, last, heapVars, info, prev, loop, sent, unsent>>

\* Mutant: the last hold is only counted down.
ReleaseOneOffByOne(t) ==
  /\ v13 /\ at[t] = "release" /\ mutex = NoThread
  /\ count >= 1
  /\ count' = count - 1
  /\ Proceed(t, "idle")
  /\ UNCHANGED <<v13, held, mutex, last, heapVars, info, prev, loop, tallyVars>>

\* Mutant: the count is not clamped at 0.
ReleaseLastUnclamped(t) ==
  /\ v13 /\ at[t] = "release" /\ mutex = NoThread
  /\ count <= 1
  /\ mutex' = t
  /\ count' = count - 1
  /\ held' = FALSE
  /\ Proceed(t, "releaseLoad")
  /\ UNCHANGED <<v13, last, heapVars, info, prev, loop, tallyVars>>

\* Mutant: the kernel lock is kept for the timer to drop.
ReleaseLastKeepsLock(t) ==
  /\ v13 /\ at[t] = "release" /\ mutex = NoThread
  /\ count <= 1
  /\ mutex' = t
  /\ count' = 0
  /\ Proceed(t, "releaseLoad")
  /\ UNCHANGED <<v13, held, last, heapVars, info, prev, loop, tallyVars>>

(***************************************************************************)
(* releaseWakeLock.                                                        *)
(***************************************************************************)
ReleaseOne(t) ==
  /\ v13 /\ at[t] = "release" /\ mutex = NoThread
  /\ count > 1
  /\ count' = count - 1
  /\ Proceed(t, "idle")
  /\ UNCHANGED <<v13, held, mutex, last, heapVars, info, prev, loop, tallyVars>>

ReleaseLast(t) ==
  /\ v13 /\ at[t] = "release" /\ mutex = NoThread
  /\ count <= 1
  /\ mutex' = t
  /\ count' = 0
  /\ held' = FALSE
  /\ Proceed(t, "releaseLoad")
  /\ UNCHANGED <<v13, last, heapVars, info, prev, loop, tallyVars>>

ReleaseUnlock(t) ==
  /\ at[t] = "unlock"
  /\ mutex' = NoThread
  /\ prev' = [prev EXCEPT ![t] = NoInfo]
  /\ Proceed(t, "idle")
  /\ UNCHANGED <<v13, held, count, last, heapVars, info, loop, tallyVars>>

ReleasePlain(t) ==
  /\ ~v13 /\ at[t] = "release"
  /\ held' = FALSE
  /\ Proceed(t, "idle")
  /\ UNCHANGED <<v13, count, mutex, last, heapVars, info, prev, loop, tallyVars>>

(***************************************************************************)
(* The event loop thread.  firePending calls userTimerCallback for the     *)
(* earliest timer, which loads userParam once and passes it on.            *)
(***************************************************************************)
userTimerCallback(p) ==
  /\ loop.at = "select"
  /\ block[p] = "armed"
  /\ \A q \in Infos : block[q] = "armed" => due[p] <= due[q]
  /\ ~v13 /\ PromptSetup => \A v \in Vendors : info[v] # p
  /\ block' = [block EXCEPT ![p] = "running"]
  /\ loop' = [at |-> "callback", info |-> p, param |-> cancelled[p]]
  /\ UNCHANGED <<v13, holdVars, last, cancelled, due, threadVars, tallyVars>>

\* Mutant: a timer only drops the hold of its own message.
wakeTimeoutCallbackOfOne ==
  /\ loop.at = "callback" /\ ~loop.param
  /\ v13 => mutex = NoThread
  /\ held' = (v13 /\ count > 1 /\ held)
  /\ count' = IF v13 /\ count > 0 THEN count - 1 ELSE 0
  /\ loop' = [loop EXCEPT !.at = "compare"]
  /\ UNCHANGED <<v13, mutex, last, heapVars, threadVars, tallyVars>>

wakeTimeoutCallback ==
  /\ loop.at = "callback" /\ ~loop.param
  /\ v13 => mutex = NoThread
  /\ held' = FALSE
  /\ count' = IF v13 THEN 0 ELSE count
  /\ loop' = [loop EXCEPT !.at = "compare"]
  /\ UNCHANGED <<v13, mutex, last, heapVars, threadVars, tallyVars>>

SkipCancelled ==
  /\ loop.at = "callback" /\ loop.param
  /\ loop' = [loop EXCEPT !.at = "compare"]
  /\ UNCHANGED <<v13, holdVars, last, heapVars, threadVars, tallyVars>>

CompareLast ==
  /\ loop.at = "compare"
  /\ loop' = [loop EXCEPT !.at = IF last = loop.info THEN "clear" ELSE "free"]
  /\ UNCHANGED <<v13, holdVars, last, heapVars, threadVars, tallyVars>>

ClearLast ==
  /\ loop.at = "clear"
  /\ last' = NoInfo
  /\ loop' = [loop EXCEPT !.at = "free"]
  /\ UNCHANGED <<v13, holdVars, heapVars, threadVars, tallyVars>>

FreeInfo ==
  /\ loop.at = "free"
  /\ block' = [block EXCEPT ![loop.info] = "free"]
  /\ cancelled' = [cancelled EXCEPT ![loop.info] = FALSE]
  /\ due' = [due EXCEPT ![loop.info] = 0]
  /\ loop' = Idle
  /\ UNCHANGED <<v13, holdVars, last, threadVars, tallyVars>>

(***************************************************************************)
(* Every bounded message is delivered and every timer has expired.         *)
(***************************************************************************)
WakeQuiet ==
  /\ sent = MaxMessages /\ owed = 0 /\ loop = Idle
  /\ \A t \in Threads : at[t] = "idle"
  /\ \A p \in Infos : block[p] = "free"
  /\ UNCHANGED wakeVars

ReleaseStep(t) ==
  ReleaseOne(t) \/ ReleaseLast(t) \/ ReleaseUnlock(t) \/ ReleasePlain(t)

\* a message in flight goes on without waiting for a new one
ThreadStep(t) ==
  \/ LoadLast(t) \/ CancelLast(t) \/ StoreLast(t)
  \/ Deliver(t) \/ ScheduleTimeout(t) \/ ReleaseStep(t)

NewMessage(v) == GrabCounted(v) \/ GrabNoMemory(v) \/ GrabPlain(v)

EventLoop ==
  \/ \E p \in Infos : userTimerCallback(p)
  \/ wakeTimeoutCallback \/ SkipCancelled
  \/ CompareLast \/ ClearLast \/ FreeInfo

WakeNext ==
  \/ \E v \in Vendors : NewMessage(v) \/ ErrorExit(v)
  \/ \E t \in Threads : ThreadStep(t)
  \/ responseAcknowledgement
  \/ EventLoop
  \/ WakeQuiet

(***************************************************************************)
(* A thread that is inside libril keeps running, and the event loop thread *)
(* is woken by select's timeout.  Nothing makes the framework acknowledge. *)
(***************************************************************************)
WakeFairness ==
  /\ WF_wakeVars(EventLoop)
  /\ \A t \in Threads : WF_wakeVars(ThreadStep(t))

WakeSpec == WakeInit /\ [][WakeNext]_wakeVars /\ WakeFairness

-----------------------------------------------------------------------------
WakePlaces == {"idle", "load", "cancel", "store", "deliver", "schedule",
           "release", "releaseLoad", "releaseCancel", "unlock"}
LoopPlaces == {"select", "callback", "compare", "clear", "free"}

\* Type invariant.
WakeTypeOK ==
  /\ v13 \in BOOLEAN /\ held \in BOOLEAN /\ count \in Nat
  /\ mutex \in Threads \cup {NoThread}
  /\ last \in Infos \cup {NoInfo}
  /\ block \in [Infos -> {"free", "armed", "running"}]
  /\ cancelled \in [Infos -> BOOLEAN]
  /\ due \in [Infos -> Nat]
  /\ at \in [Threads -> WakePlaces]
  /\ info \in [Threads -> Infos \cup {NoInfo}]
  /\ prev \in [Threads -> Infos \cup {NoInfo}]
  /\ loop \in [at : LoopPlaces, info : Infos \cup {NoInfo}, param : BOOLEAN]
  /\ sent \in Nat /\ owed \in Nat /\ unsent \in Nat

LiveTimer == \E p \in Infos : block[p] = "armed" /\ ~cancelled[p]
ExpiryUnderWay == loop.at = "callback" /\ ~loop.param
InFlight == \E v \in Vendors : at[v] # "idle"

(***************************************************************************)
(* RIL_onUnsolicitedResponse: "as we exit we'll either release it          *)
(* immediately or set a timer to release it later".  Whatever cancellations*)
(* and expiries cross, a held lock outside the critical sections has a     *)
(* timer that will drop it, or its expiry is already running.  Version 13: *)
(* LegacyHoldCovered below is the same claim without the mutex.            *)
(***************************************************************************)
HoldCovered ==
  v13 /\ held /\ mutex = NoThread => LiveTimer \/ ExpiryUnderWay

(***************************************************************************)
(* s_wakelock_count and the kernel's lock agree outside the critical       *)
(* sections: a lock nobody counts would ignore every acknowledgement.      *)
(***************************************************************************)
NoUncountedHold ==
  v13 /\ mutex = NoThread =>
    /\ held => count > 0
    /\ count > 0 /\ ~MayFailAlloc => held

(***************************************************************************)
(* A framework that acknowledged all it was given does not wait for the    *)
(* 200 ms timer: once no message is in flight, unacknowledged or without a *)
(* client, the lock is gone.                                               *)
(***************************************************************************)
AckedMeansReleased ==
  v13 /\ owed = 0 /\ unsent = 0 /\ (\A t \in Threads : at[t] = "idle") => ~held

(***************************************************************************)
(* When messages stop coming the device goes back to sleep, whether the    *)
(* framework acknowledges or not (wakeTimeoutCallback: "put us back to     *)
(* sleep").                                                                *)
(***************************************************************************)
WakeLockReleased == v13 /\ held ~> ~held

(***************************************************************************)
(* The same comment on setting a timer, for a RIL older than version 13,   *)
(* whose vendor threads share s_last_wake_timeout_info without a mutex.  It *)
(* does not hold: a thread can cancel through a pointer it loaded before   *)
(* that block was freed and given to the next timer.                       *)
(***************************************************************************)
LegacyHoldCovered ==
  held /\ ~v13 => LiveTimer \/ ExpiryUnderWay \/ InFlight

=============================================================================
