----------------------------- MODULE RilRequest -----------------------------
(***************************************************************************)
(* Solicited requests in libril: ril.cpp's list of pending RequestInfo     *)
(* blocks, the dispatch functions of ril_service.cpp that fill it on the   *)
(* one HIDL thread, and the vendor threads that acknowledge and complete   *)
(* what they were given.  A RIL_Token is the address of a RequestInfo, so  *)
(* a token means whatever request its block holds when it is used.         *)
(* The fields "cancelled" and "local" are never set by this code and are   *)
(* left out; one slot has one list.                                        *)
(***************************************************************************)
EXTENDS Naturals, FiniteSets

CONSTANTS
  Binder,       \* the HIDL thread
  Activators,   \* detached threads that subActivateThread can run on
  Vendors,      \* threads of the vendor RIL that acknowledge and complete
  Requests,     \* serials of the framework's requests
  SelfSerial,   \* the serial -100 - slotId of subActivateThread
  Manual,       \* requests that are SET_NETWORK_SELECTION_MANUAL
  CardStatus,   \* requests that are GET_SIM_STATUS
  Tokens,       \* heap blocks a RequestInfo can occupy
  NoToken, NoResult,
  MayFailAlloc  \* calloc, malloc and pthread_create may fail

ASSUME Shape ==
  /\ Manual \subseteq Requests /\ CardStatus \subseteq Requests
  /\ Manual \cap CardStatus = {}
  /\ SelfSerial \notin Requests /\ NoResult \notin Requests \cup {SelfSerial}
  /\ NoToken \notin Tokens
  /\ Binder \notin Activators \cup Vendors /\ Activators \cap Vendors = {}
  /\ MayFailAlloc \in BOOLEAN

Serials == Requests \cup {SelfSerial}
Dispatchers == {Binder} \cup Activators
Threads == Dispatchers \cup Vendors

VARIABLES
  v13,          \* s_callbacks.version >= 13
  refused,      \* requests for which addRequestToList returned NULL
  accepted,     \* requests addRequestToList put in the list
  req,          \* RequestInfo blocks: live, the serial (token), wasAckSent
  pending,      \* blocks in s_pendingRequests
  pc, cur, job, \* of a thread: its place, its pRI, the request it acts for
  vendor,       \* what the vendor was given by onRequest and has not completed
  activated,    \* s_subActivated
  crossed,      \* ghost: a request was completed during its acknowledgement
  acks, answers, result, expects  \* what the framework was sent, per serial

clientVars == <<acks, answers, result, expects>>
vars == <<v13, refused, accepted, req, pending, pc, cur, job, vendor,
          activated, crossed, clientVars>>

Init ==
  /\ v13 \in BOOLEAN
  /\ refused = {} /\ accepted = {}
  /\ req = [k \in Tokens |-> [live |-> FALSE, serial |-> SelfSerial, ackSent |-> FALSE]]
  /\ pending = {}
  /\ pc = [t \in Threads |-> IF t \in Activators THEN "none" ELSE "idle"]
  /\ cur = [t \in Threads |-> NoToken]
  /\ job = [t \in Threads |-> NoResult]
  /\ vendor = {}
  /\ activated = FALSE
  /\ crossed = FALSE
  /\ acks = [s \in Serials |-> 0]
  /\ answers = [s \in Serials |-> 0]
  /\ result = [s \in Serials |-> NoResult]
  /\ expects = [s \in Serials |-> FALSE]

\* the thread t goes on at place with the block k, for the request s
Step(t, place, k, s) ==
  /\ pc' = [pc EXCEPT ![t] = place]
  /\ cur' = [cur EXCEPT ![t] = k]
  /\ job' = [job EXCEPT ![t] = s]

\* the thread t is through with its call
Return(t) ==
  Step(t, IF t \in Activators THEN "done" ELSE "idle", NoToken, NoResult)

\* the request a dispatcher that is free takes up next
Issues(d, s) ==
  /\ pc[d] = "idle"
  /\ IF d = Binder THEN s \in Requests \ (accepted \cup refused) ELSE s = SelfSerial

(***************************************************************************)
(* addRequestToList, at the start of every dispatch function.              *)
(***************************************************************************)
addRequestToList(d, s, k) ==
  /\ Issues(d, s)
  /\ ~req[k].live
  /\ req' = [req EXCEPT ![k] = [live |-> TRUE, serial |-> s, ackSent |-> FALSE]]
  /\ pending' = pending \cup {k}
  /\ accepted' = accepted \cup {s}
  /\ Step(d, "dispatch", k, s)
  /\ UNCHANGED <<v13, refused, vendor, activated, crossed, clientVars>>

RequestRefused(d, s) ==
  /\ Issues(d, s)
  /\ MayFailAlloc \/ \A k \in Tokens : req[k].live
  /\ refused' = refused \cup {s}
  /\ Return(d)
  /\ UNCHANGED <<v13, accepted, req, pending, vendor, activated, crossed, clientVars>>

\* Mutant: the framework is not told that its arguments could not be copied.
sendErrorResponseSilently(d) ==
  /\ pc[d] = "dispatch" /\ d = Binder /\ MayFailAlloc
  /\ Return(d)
  /\ UNCHANGED <<v13, refused, accepted, req, pending, vendor, activated, crossed, clientVars>>

(***************************************************************************)
(* The arguments cannot be copied: sendErrorResponse answers, and the      *)
(* RequestInfo stays in the list for ever.                                 *)
(***************************************************************************)
sendErrorResponse(d) ==
  /\ pc[d] = "dispatch" /\ d = Binder /\ MayFailAlloc
  /\ LET s == req[cur[d]].serial
     IN  /\ answers' = [answers EXCEPT ![s] = @ + 1]
         /\ result' = [result EXCEPT ![s] = NoResult]
         /\ expects' = [expects EXCEPT ![s] = FALSE]
  /\ Return(d)
  /\ UNCHANGED <<v13, refused, accepted, req, pending, vendor, activated, crossed, acks>>

\* Mutant: addRequestToList's NULL goes to the vendor as the token.
CALL_ONREQUESTNull(d) ==
  /\ pc[d] = "dispatch"
  /\ vendor' = vendor \cup {[token |-> NoToken, serial |-> job[d], acked |-> FALSE]}
  /\ Return(d)
  /\ UNCHANGED <<v13, refused, accepted, req, pending, activated, crossed, clientVars>>

(***************************************************************************)
(* CALL_ONREQUEST.  For SET_NETWORK_SELECTION_MANUAL dispatchStrings then  *)
(* completes the request itself, with SUCCESS: "Qualcomm's RIL doesn't     *)
(* seem to issue any callbacks" for it, and here the vendor issues none.   *)
(***************************************************************************)
CALL_ONREQUEST(d) ==
  /\ pc[d] = "dispatch"
  /\ LET s == job[d] IN
     /\ vendor' = IF s \in Manual THEN vendor
                  ELSE vendor \cup {[token |-> cur[d], serial |-> s, acked |-> FALSE]}
     /\ IF s \in Manual THEN Step(d, "fake", cur[d], s) ELSE Return(d)
  /\ UNCHANGED <<v13, refused, accepted, req, pending, activated, crossed, clientVars>>

(***************************************************************************)
(* RIL_onRequestAck, at most once for what the vendor was given.  Nothing  *)
(* keeps another thread of the vendor from completing the request during   *)
(* the call: the list may find the token under the block's next request,   *)
(* and what is acknowledged is what the block says when it is read, any    *)
(* serial at all (or one the framework never used) once it was freed.      *)
(***************************************************************************)
RIL_onRequestAck(v, i) ==
  /\ pc[v] = "idle" /\ i \in vendor /\ ~i.acked
  /\ vendor' = (vendor \ {i}) \cup {[i EXCEPT !.acked = TRUE]}
  /\ Step(v, "ack", i.token, i.serial)
  /\ UNCHANGED <<v13, refused, accepted, req, pending, activated, crossed, clientVars>>

checkRequestInfoIfAck(v) ==
  /\ pc[v] = "ack"
  /\ IF cur[v] \in pending
     THEN /\ req' = [req EXCEPT ![cur[v]].ackSent = TRUE]
          /\ Step(v, "acknowledge", cur[v], job[v])
     ELSE UNCHANGED req /\ Return(v)
  /\ UNCHANGED <<v13, refused, accepted, pending, vendor, activated, crossed, clientVars>>

SerialRead(k) == IF req[k].live THEN {req[k].serial} ELSE Serials \cup {NoResult}

acknowledgeRequest(v) ==
  /\ pc[v] = "acknowledge"
  /\ \E s \in SerialRead(cur[v]) :
       acks' = [r \in Serials |-> IF r = s THEN acks[r] + 1 ELSE acks[r]]
  /\ Return(v)
  /\ UNCHANGED <<v13, refused, accepted, req, pending, vendor, activated, crossed,
                 answers, result, expects>>

(***************************************************************************)
(* RIL_onRequestComplete: checkAndDequeueRequestInfoIfAck searches the     *)
(* list under its mutex, then the block is read, answered and freed with   *)
(* no lock on it.                                                          *)
(***************************************************************************)
Dequeue(t, k, s) ==
  IF k \in pending
  THEN /\ pending' = pending \ {k}
       /\ Step(t, IF req[k].serial \in CardStatus THEN "card" ELSE "respond", k, s)
  ELSE UNCHANGED pending /\ Return(t)

\* the places of a thread inside RIL_onRequestAck
AckPlaces == {"ack", "acknowledge"}

BeingAcked(i) ==
  \E v \in Vendors : pc[v] \in AckPlaces /\ cur[v] = i.token /\ job[v] = i.serial

RIL_onRequestComplete(v, i) ==
  /\ pc[v] = "idle" /\ i \in vendor
  /\ vendor' = vendor \ {i}
  /\ Dequeue(v, i.token, i.serial)
  /\ crossed' = (crossed \/ BeingAcked(i))
  /\ UNCHANGED <<v13, refused, accepted, req, activated, clientVars>>

CompleteManual(d) ==
  /\ pc[d] = "fake"
  /\ Dequeue(d, cur[d], job[d])
  /\ UNCHANGED <<v13, refused, accepted, req, vendor, activated, crossed, clientVars>>

(***************************************************************************)
(* getIccCardStatusResponse: a present card starts subActivateThread once  *)
(* per slot, behind a flag that is tested and set under a read lock.       *)
(***************************************************************************)
CardSeen(t) ==
  /\ pc[t] = "card"
  /\ \E present \in BOOLEAN :
       Step(t, IF present /\ ~activated THEN "activate" ELSE "respond", cur[t], job[t])
  /\ UNCHANGED <<v13, refused, accepted, req, pending, vendor, activated, crossed, clientVars>>

StartSubActivate(t, a) ==
  /\ pc[t] = "activate" /\ pc[a] = "none"
  /\ activated' = TRUE
  /\ pc' = [pc EXCEPT ![t] = "respond", ![a] = "idle"]
  /\ UNCHANGED <<v13, refused, accepted, req, pending, cur, job, vendor, crossed, clientVars>>

\* pthread_create fails and the flag is reset, or malloc fails and it is not
SubActivateFails(t) ==
  /\ pc[t] = "activate" /\ MayFailAlloc
  /\ activated' \in BOOLEAN
  /\ Step(t, "respond", cur[t], job[t])
  /\ UNCHANGED <<v13, refused, accepted, req, pending, vendor, crossed, clientVars>>

\* Mutant: the wake lock acknowledgement is asked for whenever it could be.
responseFunctionAckAlways(t) ==
  /\ pc[t] = "respond"
  /\ LET s == req[cur[t]].serial
     IN  /\ answers' = [answers EXCEPT ![s] = @ + 1]
         /\ result' = [result EXCEPT ![s] = job[t]]
         /\ expects' = [expects EXCEPT ![s] = v13]
  /\ Step(t, "free", cur[t], job[t])
  /\ UNCHANGED <<v13, refused, accepted, req, pending, vendor, activated, crossed, acks>>

\* Mutant: the block is freed before its answer is read from it.
FreeFirst(t) ==
  /\ pc[t] = "respond"
  /\ req' = [req EXCEPT ![cur[t]].live = FALSE]
  /\ LET s == req[cur[t]].serial
     IN  /\ answers' = [answers EXCEPT ![s] = @ + 1]
         /\ result' = [result EXCEPT ![s] = job[t]]
         /\ expects' = [expects EXCEPT ![s] = v13 /\ req[cur[t]].ackSent]
  /\ Step(t, "free", cur[t], job[t])
  /\ UNCHANGED <<v13, refused, accepted, pending, vendor, activated, crossed, acks>>

responseFunction(t) ==
  /\ pc[t] = "respond"
  /\ LET s == req[cur[t]].serial
     IN  /\ answers' = [answers EXCEPT ![s] = @ + 1]
         /\ result' = [result EXCEPT ![s] = job[t]]
         /\ expects' = [expects EXCEPT ![s] = v13 /\ req[cur[t]].ackSent]
  /\ Step(t, "free", cur[t], job[t])
  /\ UNCHANGED <<v13, refused, accepted, req, pending, vendor, activated, crossed, acks>>

FreeRequest(t) ==
  /\ pc[t] = "free"
  /\ req' = [req EXCEPT ![cur[t]].live = FALSE]
  /\ Return(t)
  /\ UNCHANGED <<v13, refused, accepted, pending, vendor, activated, crossed, clientVars>>

\* everything the framework asked for was handled
Quiet ==
  /\ Requests \subseteq accepted \cup refused /\ vendor = {}
  /\ \A t \in Threads : pc[t] \in {"idle", "none", "done"}
  /\ \A a \in Activators : pc[a] # "idle"
  /\ UNCHANGED vars

DispatchStep(d) == sendErrorResponse(d) \/ CALL_ONREQUEST(d) \/ CompleteManual(d)

CompletionStep(t) ==
  \/ CardSeen(t) \/ SubActivateFails(t)
  \/ \E a \in Activators : StartSubActivate(t, a)
  \/ responseFunction(t) \/ FreeRequest(t)

NewRequest(d) ==
  \E s \in Serials : RequestRefused(d, s) \/ \E k \in Tokens : addRequestToList(d, s, k)

AckStep(v) == checkRequestInfoIfAck(v) \/ acknowledgeRequest(v)

VendorCall(v) ==
  \E i \in vendor : RIL_onRequestAck(v, i) \/ RIL_onRequestComplete(v, i)

Next ==
  \/ \E d \in Dispatchers : NewRequest(d) \/ DispatchStep(d)
  \/ \E v \in Vendors : VendorCall(v) \/ AckStep(v)
  \/ \E t \in Threads : CompletionStep(t)
  \/ Quiet

(***************************************************************************)
(* A thread inside libril goes on; the vendor completes, some time, every  *)
(* request it was given.                                                   *)
(***************************************************************************)
Fairness ==
  /\ \A d \in Dispatchers : WF_vars(DispatchStep(d))
  /\ \A v \in Vendors : WF_vars(AckStep(v))
  /\ \A t \in Threads : WF_vars(CompletionStep(t))
  /\ \A s \in Serials :
       WF_vars(\E v \in Vendors, i \in vendor :
                 i.serial = s /\ RIL_onRequestComplete(v, i))

Spec == Init /\ [][Next]_vars /\ Fairness

-----------------------------------------------------------------------------
Places == {"none", "idle", "done", "dispatch", "fake", "ack", "acknowledge", "card",
           "activate", "respond", "free"}

\* Part of PointerNamesRequest.
TypeOK ==
  /\ v13 \in BOOLEAN
  /\ refused \subseteq Serials /\ accepted \subseteq Serials
  /\ req \in [Tokens -> [live : BOOLEAN, serial : Serials, ackSent : BOOLEAN]]
  /\ pending \subseteq Tokens
  /\ pc \in [Threads -> Places]
  /\ cur \in [Threads -> Tokens \cup {NoToken}]
  /\ job \in [Threads -> Serials \cup {NoResult}]
  /\ vendor \subseteq [token : Tokens, serial : Serials, acked : BOOLEAN]
  /\ activated \in BOOLEAN /\ crossed \in BOOLEAN
  /\ acks \in [Serials -> Nat] /\ answers \in [Serials -> Nat]
  /\ result \in [Serials -> Serials \cup {NoResult}]
  /\ expects \in [Serials -> BOOLEAN]

(***************************************************************************)
(* Types; and a thread that holds a RequestInfo pointer outside the        *)
(* list's mutex reads a block that is allocated and still holds the        *)
(* request it acts for, with other threads completing, freeing and         *)
(* reusing blocks meanwhile.  RIL_onRequestAck's pointer is sure only as   *)
(* long as the vendor has not completed the request it acknowledges.       *)
(***************************************************************************)
PointerNamesRequest ==
  /\ TypeOK
  /\ \A t \in Threads : cur[t] # NoToken =>
       \/ req[cur[t]].live /\ req[cur[t]].serial = job[t]
       \/ /\ pc[t] \in AckPlaces
          /\ ~ \E i \in vendor : i.token = cur[t] /\ i.serial = job[t]

(***************************************************************************)
(* An accepted request without an answer is in the hands of a thread that  *)
(* will answer it, or the vendor holds a token under which libril still    *)
(* finds it.                                                               *)
(***************************************************************************)
NoLostRequest ==
  \A s \in accepted : answers[s] = 0 =>
    \/ \E t \in Threads : job[t] = s /\ pc[t] \notin AckPlaces
    \/ \E i \in vendor : i.serial = s /\ i.token \in pending /\ req[i.token].serial = s

(***************************************************************************)
(* The requests, as the framework sees them, behave as RadioContract says: *)
(* refinement, its liveness included.                                      *)
(***************************************************************************)
ContractState ==
  [s \in Serials |-> IF s \in accepted THEN "accepted"
                     ELSE IF s \in refused THEN "refused" ELSE "new"]
Contract == INSTANCE RadioContract WITH state <- ContractState
Implements == Contract!Spec

=============================================================================
