----------------------------- MODULE RilService -----------------------------
(***************************************************************************)
(* The framework's callback objects of one slot in ril_service.cpp, the    *)
(* rwlock around them, the counter mCounterRadio that guards their reset,  *)
(* and the NITZ copy of ril.cpp.  Vendor threads call the framework with   *)
(* responses, acknowledgements and indications; the one HIDL thread        *)
(* installs the callbacks of a new client, sends it the initial            *)
(* indications and, when a request's arguments cannot be copied, an error  *)
(* response.  A client process can die at any time.                        *)
(***************************************************************************)
EXTENDS Naturals, RilThreads

CONSTANTS
  MaxClient,   \* clients 1..MaxClient connect in order; 0 is none
  MaxNitz,     \* NITZ messages 1..MaxNitz arrive in order; 0 is none
  MaxCalls     \* bound on the other messages and error responses

ASSUME Shape == MaxClient \in Nat /\ MaxNitz \in Nat /\ MaxCalls \in Nat

Clients == 1..MaxClient

VARIABLES
  copyFails,  \* whether, in this run, a request's arguments can fail to copy
  client,     \* mRadioResponse, mRadioIndication: a client or 0
  counter,    \* mCounterRadio[slotId]
  dead,       \* client processes that died
  connected,  \* clients that have connected so far
  readers, writer,  \* radioServiceRwlock: number of read locks, the writer or NoThread
  aborted,    \* an assert(ret == 0) failed and the daemon is gone
  pc, op,     \* of a thread: its place; the operation: what it sends
  seen,       \* the counter it noted in checkReturnStatus
  ret,        \* what the response function returned to it (0 or -1)
  nitz,       \* NITZ messages received
  stamp,      \* nitzTimeReceived[slotId], by the number of its message
  saved,      \* s_lastNITZTimeData: a NITZ message, 0 is NULL
  calls       \* other messages so far

clientVars == <<client, counter>>
lockVars == <<readers, writer>>
nitzVars == <<nitz, stamp, saved>>
vars == <<copyFails, clientVars, dead, connected, lockVars, aborted, pc, op, seen, ret,
          nitzVars, calls>>

\* what a thread sends: an ordinary message, an error response, a NITZ
\* message, one of the two indications for a new client, or the saved NITZ
\* message
Ops == [kind : {"message", "error", "nitz", "connected", "radioState", "resend"},
        n : 0..MaxNitz]
NoOp == [kind |-> "message", n |-> 0]

Init ==
  /\ copyFails \in BOOLEAN
  /\ client = 0 /\ counter = 0 /\ dead = {} /\ connected = 0
  /\ readers = 0 /\ writer = NoThread /\ aborted = FALSE
  /\ pc = [t \in Threads |-> "idle"]
  /\ op = [t \in Threads |-> NoOp]
  /\ seen = [t \in Threads |-> 0]
  /\ ret = [t \in Threads |-> 0]
  /\ nitz = 0 /\ stamp = 0 /\ saved = 0
  /\ calls = 0

Goto(t, place) == pc' = [pc EXCEPT ![t] = place]

RdLock == writer = NoThread /\ readers' = readers + 1 /\ UNCHANGED writer
WrLock(t) == writer = NoThread /\ readers = 0 /\ writer' = t /\ UNCHANGED readers

(***************************************************************************)
(* pthread_rwlock_unlock: the writer's lock, or one read lock, whoever     *)
(* took it.  A thread that unlocks a lock it cannot own fails the assert.  *)
(***************************************************************************)
Unlock(t) ==
  /\ IF writer = t THEN writer' = NoThread /\ UNCHANGED readers
     ELSE IF readers > 0 THEN readers' = readers - 1 /\ UNCHANGED writer
     ELSE UNCHANGED lockVars
  /\ aborted' = (writer # t /\ readers = 0)

(***************************************************************************)
(* A message for the framework: RIL_onRequestComplete, RIL_onRequestAck or *)
(* RIL_onUnsolicitedResponse takes the read lock around the call; for NITZ *)
(* the write lock, to note the receive time.                               *)
(***************************************************************************)
SendMessage(v) ==
  /\ pc[v] = "idle" /\ calls < MaxCalls
  /\ calls' = calls + 1
  /\ RdLock
  /\ op' = [op EXCEPT ![v] = NoOp]
  /\ Goto(v, "check")
  /\ UNCHANGED <<copyFails, clientVars, dead, connected, aborted, seen, ret, nitzVars>>

SendNitz(v) ==
  /\ pc[v] = "idle" /\ nitz < MaxNitz
  /\ WrLock(v)
  /\ nitz' = nitz + 1
  /\ stamp' = nitz + 1
  /\ op' = [op EXCEPT ![v] = [kind |-> "nitz", n |-> nitz + 1]]
  /\ Goto(v, "check")
  /\ UNCHANGED <<copyFails, clientVars, dead, connected, aborted, seen, ret, saved, calls>>

(***************************************************************************)
(* sendErrorResponse calls the response function with no lock at all.      *)
(***************************************************************************)
sendErrorResponse ==
  /\ copyFails /\ pc[Binder] = "idle" /\ calls < MaxCalls
  /\ calls' = calls + 1
  /\ op' = [op EXCEPT ![Binder] = [kind |-> "error", n |-> 0]]
  /\ Goto(Binder, "check")
  /\ UNCHANGED <<copyFails, clientVars, dead, connected, lockVars, aborted, seen, ret, nitzVars>>

(***************************************************************************)
(* A response, acknowledgement or indication function: "if (mRadio... !=   *)
(* NULL)", then the call.                                                  *)
(***************************************************************************)
NoClient(t) ==
  /\ pc[t] = "check" /\ client = 0
  /\ ret' = [ret EXCEPT ![t] = IF op[t].kind \in {"nitz", "resend"} THEN 1 ELSE 0]
  /\ Goto(t, "unlock")
  /\ UNCHANGED <<copyFails, clientVars, dead, connected, lockVars, aborted, op, seen, nitzVars, calls>>

HasClient(t) ==
  /\ pc[t] = "check" /\ client # 0
  /\ Goto(t, "call")
  /\ UNCHANGED <<copyFails, clientVars, dead, connected, lockVars, aborted, op, seen, ret, nitzVars, calls>>

\* nitzTimeReceivedInd returns 0 too when the client is dead; a resend finds
\* "response == NULL" when the copy is gone
CallOk(t) ==
  /\ pc[t] = "call" /\ client # 0 /\ client \notin dead
  /\ ret' = [ret EXCEPT ![t] = 0]
  /\ Goto(t, "unlock")
  /\ UNCHANGED <<copyFails, clientVars, dead, connected, lockVars, aborted, op, seen,
                 nitzVars, calls>>

\* the callback object was reset between the test and the call
CallReset(t) ==
  /\ pc[t] = "call" /\ client = 0
  /\ aborted' = TRUE
  /\ UNCHANGED <<copyFails, clientVars, dead, connected, lockVars, pc, op, seen, ret,
                 nitzVars, calls>>

(***************************************************************************)
(* checkReturnStatus after a call that failed.                             *)
(***************************************************************************)
CallFails(t) ==
  /\ pc[t] = "call" /\ client \in dead
  /\ ret' = [ret EXCEPT ![t] = 0]
  /\ Goto(t, "note")
  /\ UNCHANGED <<copyFails, clientVars, dead, connected, lockVars, aborted, op, seen,
                 nitzVars, calls>>

NoteCounter(t) ==
  /\ pc[t] = "note"
  /\ seen' = [seen EXCEPT ![t] = counter]
  /\ Goto(t, "release")
  /\ UNCHANGED <<copyFails, clientVars, dead, connected, lockVars, aborted, op, ret,
                 nitzVars, calls>>

ReleaseRdLock(t) ==
  /\ pc[t] = "release"
  /\ Unlock(t)
  /\ Goto(t, "reset")
  /\ UNCHANGED <<copyFails, clientVars, dead, connected, op, seen, ret, nitzVars, calls>>

\* Mutant: the counter is not compared.
ResetClientAnyway(t) ==
  /\ pc[t] = "reset" /\ WrLock(t)
  /\ client' = 0 /\ counter' = counter + 1
  /\ Goto(t, "resetDone")
  /\ UNCHANGED <<copyFails, dead, connected, aborted, op, seen, ret, nitzVars, calls>>

\* Mutant: the counter is compared with its value before the reset's own.
ResetClientOffByOne(t) ==
  /\ pc[t] = "reset" /\ WrLock(t)
  /\ IF counter + 1 = seen[t]
     THEN client' = 0 /\ counter' = counter + 1
     ELSE UNCHANGED clientVars
  /\ Goto(t, "resetDone")
  /\ UNCHANGED <<copyFails, dead, connected, aborted, op, seen, ret, nitzVars, calls>>

ResetClient(t) ==
  /\ pc[t] = "reset" /\ WrLock(t)
  /\ IF counter = seen[t]
     THEN client' = 0 /\ counter' = counter + 1
     ELSE UNCHANGED clientVars
  /\ Goto(t, "resetDone")
  /\ UNCHANGED <<copyFails, dead, connected, aborted, op, seen, ret, nitzVars, calls>>

ReleaseWrLock(t) ==
  /\ pc[t] = "resetDone"
  /\ Unlock(t)
  /\ Goto(t, "reacquire")
  /\ UNCHANGED <<copyFails, clientVars, dead, connected, op, seen, ret, nitzVars, calls>>

\* Mutant: the read lock is not taken again for the caller to release.
ReacquireNothing(t) ==
  /\ pc[t] = "reacquire"
  /\ Goto(t, "unlock")
  /\ UNCHANGED <<copyFails, clientVars, dead, connected, lockVars, aborted, op, seen, ret,
                 nitzVars, calls>>

ReacquireRdLock(t) ==
  /\ pc[t] = "reacquire" /\ RdLock
  /\ Goto(t, "unlock")
  /\ UNCHANGED <<copyFails, clientVars, dead, connected, aborted, op, seen, ret, nitzVars, calls>>

(***************************************************************************)
(* The caller of the response function unlocks, unless it never locked; a  *)
(* NITZ message no client took is then copied, with no lock.               *)
(***************************************************************************)
ReturnFromCall(t) ==
  /\ pc[t] = "unlock"
  /\ IF op[t].kind = "error" THEN UNCHANGED <<lockVars, aborted>> ELSE Unlock(t)
  /\ saved' = IF op[t].kind = "resend" /\ ret[t] = 0 THEN 0 ELSE saved
  /\ Goto(t, CASE op[t].kind = "nitz" /\ ret[t] # 0 -> "store"
               [] op[t].kind = "connected" -> "connect2"
               [] op[t].kind = "radioState" -> "resendCheck"
               [] OTHER -> "idle")
  /\ op' = IF op[t].kind = "nitz" /\ ret[t] # 0 THEN op ELSE [op EXCEPT ![t] = NoOp]
  /\ seen' = [seen EXCEPT ![t] = 0]
  /\ ret' = [ret EXCEPT ![t] = 0]
  /\ UNCHANGED <<copyFails, clientVars, dead, connected, nitz, stamp, calls>>

StoreNitz(v) ==
  /\ pc[v] = "store"
  /\ saved' = op[v].n
  /\ op' = [op EXCEPT ![v] = NoOp]
  /\ Goto(v, "idle")
  /\ UNCHANGED <<copyFails, clientVars, dead, connected, lockVars, aborted, seen, ret,
                 nitz, stamp, calls>>

(***************************************************************************)
(* RadioImpl::setResponseFunctions, by the next client; then the two       *)
(* indications of onNewCommandConnect, and the saved NITZ message.         *)
(***************************************************************************)
setResponseFunctions ==
  /\ pc[Binder] = "idle" /\ connected < MaxClient
  /\ writer = NoThread /\ readers = 0
  /\ connected' = connected + 1
  /\ client' = connected + 1
  /\ counter' = counter + 1
  /\ Goto(Binder, "connect")
  /\ UNCHANGED <<copyFails, dead, lockVars, aborted, op, seen, ret, nitzVars, calls>>

onNewCommandConnect ==
  /\ pc[Binder] \in {"connect", "connect2"} /\ RdLock
  /\ op' = [op EXCEPT ![Binder] =
              [kind |-> IF pc[Binder] = "connect" THEN "connected" ELSE "radioState",
               n |-> 0]]
  /\ Goto(Binder, "check")
  /\ UNCHANGED <<copyFails, clientVars, dead, connected, aborted, seen, ret, nitzVars, calls>>

resendLastNITZTimeData ==
  /\ pc[Binder] = "resendCheck" /\ saved # 0 /\ RdLock
  /\ op' = [op EXCEPT ![Binder] = [kind |-> "resend", n |-> 0]]
  /\ Goto(Binder, "check")
  /\ UNCHANGED <<copyFails, clientVars, dead, connected, aborted, seen, ret, nitzVars, calls>>

NothingToResend ==
  /\ pc[Binder] = "resendCheck" /\ saved = 0
  /\ Goto(Binder, "idle")
  /\ UNCHANGED <<copyFails, clientVars, dead, connected, lockVars, aborted, op, seen, ret,
                 nitzVars, calls>>

ClientDies(c) ==
  /\ c \in 1..connected /\ c \notin dead
  /\ dead' = dead \cup {c}
  /\ UNCHANGED <<copyFails, clientVars, connected, lockVars, aborted, pc, op, seen, ret,
                 nitzVars, calls>>

\* all clients have come, all messages were sent
Quiet ==
  /\ \/ aborted
     \/ /\ connected = MaxClient /\ nitz = MaxNitz /\ calls = MaxCalls
        /\ \A t \in Threads : pc[t] = "idle"
  /\ UNCHANGED vars

CallStep(t) ==
  \/ NoClient(t) \/ HasClient(t) \/ CallOk(t) \/ CallReset(t)
  \/ CallFails(t) \/ NoteCounter(t) \/ ReleaseRdLock(t) \/ ResetClient(t)
  \/ ReleaseWrLock(t) \/ ReacquireRdLock(t)
  \/ ReturnFromCall(t) \/ StoreNitz(t)

ConnectStep == onNewCommandConnect \/ resendLastNITZTimeData \/ NothingToResend

Next ==
  \/ /\ ~aborted
     /\ \/ \E v \in Vendors : SendMessage(v) \/ SendNitz(v)
        \/ \E t \in Threads : CallStep(t)
        \/ sendErrorResponse \/ setResponseFunctions \/ ConnectStep
        \/ \E c \in Clients : ClientDies(c)
  \/ Quiet

(***************************************************************************)
(* A thread inside libril goes on: the callbacks are one-way calls, which  *)
(* return whether the client lives or not.  Nothing makes a client connect *)
(* or a message come.                                                      *)
(***************************************************************************)
Fairness ==
  /\ \A t \in Threads : WF_vars(~aborted /\ CallStep(t))
  /\ WF_vars(~aborted /\ ConnectStep)

Spec == Init /\ [][Next]_vars /\ Fairness

-----------------------------------------------------------------------------
Places == {"idle", "check", "call", "note", "release", "reset", "resetDone",
           "reacquire", "unlock", "store", "connect", "connect2", "resendCheck"}

\* Part of NoAbort.
TypeOK ==
  /\ copyFails \in BOOLEAN /\ aborted \in BOOLEAN
  /\ client \in 0..MaxClient /\ counter \in Nat
  /\ dead \subseteq Clients /\ connected \in 0..MaxClient
  /\ readers \in Nat /\ writer \in Threads \cup {NoThread}
  /\ pc \in [Threads -> Places] /\ op \in [Threads -> Ops]
  /\ seen \in [Threads -> Nat] /\ ret \in [Threads -> {0, 1}]
  /\ nitz \in 0..MaxNitz /\ stamp \in 0..MaxNitz /\ saved \in 0..MaxNitz
  /\ calls \in Nat

(***************************************************************************)
(* checkReturnStatus: "make sure the counter value has not changed".  While*)
(* it waits for the write lock a new client may connect; a live client is  *)
(* never disconnected because a call to its predecessor failed.            *)
(***************************************************************************)
LiveClientKept ==
  [][~copyFails /\ client # 0 /\ client' = 0 => client \in dead]_vars

(***************************************************************************)
(* Types; and every unlock matches a lock of its thread, and the callback  *)
(* object tested against NULL is still there for the call: the daemon      *)
(* does not go down, whatever clients die and connect, as long as          *)
(* arguments copy.                                                         *)
(***************************************************************************)
NoAbort == TypeOK /\ (~copyFails => ~aborted)

(***************************************************************************)
(* A client whose call failed is replaced or disconnected in the end: the  *)
(* thread that noticed gets the write lock it waits for.                   *)
(***************************************************************************)
DeadClientDropped ==
  (client \in dead /\ \E t \in Threads : pc[t] = "note")
    ~> (client \notin dead \/ aborted)

=============================================================================
