------------------------------ MODULE LocEngNi ------------------------------
(***************************************************************************)
(* Network-initiated location requests                                     *)
(* (gps/loc_api/libloc_api_50001/loc_eng_ni.cpp).                          *)
(*                                                                         *)
(* The modem asks whether the user may be located.  The MsgTask thread     *)
(* stores the request in one of two sessions, SUPL or emergency SUPL, and  *)
(* starts a thread that waits for the user's response or for a timeout and *)
(* then has the MsgTask thread inform the modem.  The response arrives on  *)
(* a thread of the framework.  tLock guards the response of a session; its *)
(* rawRequest and reqID are read and written without it.                   *)
(*                                                                         *)
(* A request, its payload, its notification id and the thread that waits   *)
(* for it are all named by the value of reqIDCounter it was accepted with. *)
(* A request that is ignored because another is in session changes nothing *)
(* and is left out; creating a thread succeeds.                            *)
(***************************************************************************)
EXTENDS Naturals, Sequences, SequencesExt, FiniteSets

CONSTANTS
  MaxRequests,    \* bound: requests that are accepted
  MaxRestarts     \* bound: restarts of the modem

ASSUME Bounds == MaxRequests \in Nat \ {0} /\ MaxRestarts \in Nat

Sessions == {"supl", "es"}
Requests == 1..MaxRequests
NULL == 0
UserResponses == {"accept", "deny"}

(* A response and, to tell it apart, the request it was meant for.         *)
Response(what, id) == [what |-> what, id |-> id]

VARIABLES
  rawRequest, reqID, respRecvd, resp,   \* loc_eng_ni_session_s_type, per session
  tLock,          \* of each session: the thread that holds it, or NULL
  reqIDCounter,
  session,        \* session of each accepted request
  pc,             \* where each waiting thread is
  msg,            \* the LocEngInformNiResponse it is about to send
  msgTask,        \* what the MsgTask thread is doing
  user,           \* what the framework's thread is doing
  responded,      \* requests the user has responded to
  msgs,           \* LocEngInformNiResponse messages in the queue of the MsgTask
  informed,       \* what the modem was told: sequence of [request, resp]
  memory,         \* payload of each request
  restarts

data == <<rawRequest, reqID, respRecvd, resp>>
thread == <<session, pc, msg>>
vars == <<data, tLock, reqIDCounter, thread, msgTask, user, responded, msgs,
          informed, memory, restarts>>

NoMessage == [request |-> NULL, resp |-> Response("unset", NULL)]
Idle == [at |-> "idle", s |-> "es", k |-> NULL]
At(where, s, k) == [at |-> where, s |-> s, k |-> k]
UserIdle == [at |-> "idle", s |-> "es", resp |-> Response("unset", NULL)]
SetMsgTask(m) == msgTask' = m

Init ==
  /\ rawRequest = [s \in Sessions |-> NULL]
  /\ reqID = [s \in Sessions |-> 0]
  /\ respRecvd = [s \in Sessions |-> FALSE]
  /\ resp = [s \in Sessions |-> Response("unset", NULL)]
  /\ tLock = [s \in Sessions |-> NULL]
  /\ reqIDCounter = 0
  /\ session = [k \in Requests |-> "supl"]
  /\ pc = [k \in Requests |-> "none"]
  /\ msg = [k \in Requests |-> NoMessage]
  /\ msgTask = Idle
  /\ user = UserIdle
  /\ responded = {}
  /\ msgs = <<>> /\ informed = <<>>
  /\ memory = [k \in Requests |-> "none"]
  /\ restarts = 0

(* free() of a payload; freeing NULL is allowed and does nothing.          *)
Free(k) == memory' = [j \in Requests |->
             IF j # k THEN memory[j] ELSE IF memory[j] = "live" THEN "freed" ELSE "broken"]

-----------------------------------------------------------------------------
(* The MsgTask thread                                                      *)

(* Mutant: each kind of request only looks at its own session.             *)
loc_eng_ni_request_handler_own(s) ==
  /\ msgTask = Idle /\ reqIDCounter < MaxRequests
  /\ rawRequest[s] = NULL
  /\ LET k == reqIDCounter + 1 IN
       /\ rawRequest' = [rawRequest EXCEPT ![s] = k]
       /\ memory' = [memory EXCEPT ![k] = "live"]
       /\ session' = [session EXCEPT ![k] = s]
       /\ SetMsgTask(At("notify", s, k))
  /\ UNCHANGED <<reqID, respRecvd, resp, tLock, reqIDCounter, pc, msg, user,
                 responded, msgs, informed, restarts>>

(* A request is accepted when no other is in session; an emergency one     *)
(* when no other emergency one is.                                         *)
loc_eng_ni_request_handler(s) ==
  /\ msgTask = Idle /\ reqIDCounter < MaxRequests
  /\ rawRequest["es"] = NULL
  /\ s = "supl" => rawRequest["supl"] = NULL
  /\ LET k == reqIDCounter + 1 IN
       /\ rawRequest' = [rawRequest EXCEPT ![s] = k]
       /\ memory' = [memory EXCEPT ![k] = "live"]
       /\ session' = [session EXCEPT ![k] = s]
       /\ SetMsgTask(At("notify", s, k))
  /\ UNCHANGED <<reqID, respRecvd, resp, tLock, reqIDCounter, pc, msg, user,
                 responded, msgs, informed, restarts>>

(* ... then the id, the thread, and the user is notified.                  *)
NotifyUser ==
  /\ msgTask.at = "notify"
  /\ reqIDCounter' = msgTask.k
  /\ reqID' = [reqID EXCEPT ![msgTask.s] = msgTask.k]
  /\ pc' = [pc EXCEPT ![msgTask.k] = "start"]
  /\ SetMsgTask(Idle)
  /\ UNCHANGED <<rawRequest, respRecvd, resp, tLock, session, msg, user, responded,
                 msgs, informed, memory, restarts>>

(* LocEngInformNiResponse: proc, then its destructor frees the payload.    *)
informNiResponse ==
  /\ msgTask = Idle /\ msgs # <<>>
  /\ informed' = Append(informed, Head(msgs))
  /\ Free(Head(msgs).request)
  /\ msgs' = Tail(msgs)
  /\ UNCHANGED <<data, tLock, reqIDCounter, thread, msgTask, user, responded, restarts>>

(* The modem went down: the emergency session first, then the other one.   *)
loc_eng_ni_reset_on_engine_restart ==
  /\ msgTask = Idle /\ restarts < MaxRestarts
  /\ restarts' = restarts + 1
  /\ SetMsgTask(At("reset", "es", NULL))
  /\ UNCHANGED <<data, tLock, reqIDCounter, thread, user, responded, msgs, informed, memory>>

NextSession(s) == IF s = "es" THEN At("reset", "supl", NULL) ELSE Idle

FreeRequest ==
  LET s == msgTask.s IN
  /\ msgTask.at = "reset"
  /\ IF rawRequest[s] = NULL
     THEN SetMsgTask(NextSession(s)) /\ UNCHANGED memory
     ELSE SetMsgTask(At("null", s, NULL)) /\ Free(rawRequest[s])
  /\ UNCHANGED <<data, tLock, reqIDCounter, thread, user, responded, msgs, informed, restarts>>

ClearRequest ==
  /\ msgTask.at = "null"
  /\ rawRequest' = [rawRequest EXCEPT ![msgTask.s] = NULL]
  /\ SetMsgTask(At("signal", msgTask.s, NULL))
  /\ UNCHANGED <<reqID, respRecvd, resp, tLock, reqIDCounter, thread, user, responded,
                 msgs, informed, memory, restarts>>

WakeThread ==
  /\ msgTask.at = "signal" /\ tLock[msgTask.s] = NULL
  /\ respRecvd' = [respRecvd EXCEPT ![msgTask.s] = TRUE]
  /\ SetMsgTask(NextSession(msgTask.s))
  /\ UNCHANGED <<rawRequest, reqID, resp, tLock, reqIDCounter, thread, user, responded,
                 msgs, informed, memory, restarts>>

-----------------------------------------------------------------------------
(* The framework's thread.  It looks for the session without a lock ...    *)

Found(s, k) == k = reqID[s] /\ rawRequest[s] # NULL
Setting(where, s, r) == [at |-> where, s |-> s, resp |-> r]

loc_eng_ni_respond(k, what) ==
  /\ user.at = "idle" /\ k \in 1..reqIDCounter \ responded
  /\ responded' = responded \cup {k}
  /\ \/ /\ Found("es", k)
        /\ user' = Setting(IF what = "accept" /\ rawRequest["supl"] # NULL THEN "ignore" ELSE "set",
                           "es", Response(what, k))
     \/ /\ ~Found("es", k) /\ Found("supl", k)
        /\ user' = Setting("set", "supl", Response(what, k))
     \/ /\ ~Found("es", k) /\ ~Found("supl", k)
        /\ UNCHANGED user
  /\ UNCHANGED <<data, tLock, reqIDCounter, thread, msgTask, msgs, informed, memory, restarts>>

(* ... and sets its response under tLock.  An accepted emergency request   *)
(* has the other session ignored first.                                    *)
SetResponse(s, r) ==
  /\ tLock[s] = NULL
  /\ resp' = [resp EXCEPT ![s] = r]
  /\ respRecvd' = [respRecvd EXCEPT ![s] = TRUE]

IgnoreOther ==
  /\ user.at = "ignore"
  /\ SetResponse("supl", Response("ignore", user.resp.id))
  /\ user' = Setting("set", user.s, user.resp)
  /\ UNCHANGED <<rawRequest, reqID, tLock, reqIDCounter, thread, msgTask, responded,
                 msgs, informed, memory, restarts>>

SetOwn ==
  /\ user.at = "set"
  /\ SetResponse(user.s, user.resp)
  /\ user' = UserIdle
  /\ UNCHANGED <<rawRequest, reqID, tLock, reqIDCounter, thread, msgTask, responded,
                 msgs, informed, memory, restarts>>

-----------------------------------------------------------------------------
(* ni_thread_proc of request k                                             *)

Goto(k, where) == pc' = [pc EXCEPT ![k] = where]

(* Out of the waiting loop with the lock held, either because there is a   *)
(* response or because the time is over.                                   *)
TakeResponse(k) ==
  /\ tLock' = [tLock EXCEPT ![session[k]] = k]
  /\ respRecvd' = [respRecvd EXCEPT ![session[k]] = FALSE]
  /\ Goto(k, "check")

ni_thread_proc(k) ==
  /\ pc[k] = "start" /\ tLock[session[k]] = NULL
  /\ IF respRecvd[session[k]]
     THEN TakeResponse(k)
     ELSE Goto(k, "wait") /\ UNCHANGED <<tLock, respRecvd>>
  /\ UNCHANGED <<rawRequest, reqID, resp, reqIDCounter, session, msg, msgTask, user,
                 responded, msgs, informed, memory, restarts>>

Signalled(k) ==
  /\ pc[k] = "wait" /\ tLock[session[k]] = NULL /\ respRecvd[session[k]]
  /\ TakeResponse(k)
  /\ UNCHANGED <<rawRequest, reqID, resp, reqIDCounter, session, msg, msgTask, user,
                 responded, msgs, informed, memory, restarts>>

(* Mutant of TimedOut: the loop is not left.                               *)
TimedOutStays(k) ==
  /\ pc[k] = "wait" /\ tLock[session[k]] = NULL
  /\ resp' = [resp EXCEPT ![session[k]] = Response("noresp", k)]
  /\ UNCHANGED <<rawRequest, reqID, respRecvd, tLock, reqIDCounter, thread, msgTask, user,
                 responded, msgs, informed, memory, restarts>>

TimedOut(k) ==
  /\ pc[k] = "wait" /\ tLock[session[k]] = NULL
  /\ resp' = [resp EXCEPT ![session[k]] = Response("noresp", k)]
  /\ TakeResponse(k)
  /\ UNCHANGED <<rawRequest, reqID, reqIDCounter, session, msg, msgTask, user,
                 responded, msgs, informed, memory, restarts>>

(* Mutant of CheckRequest: the early way out forgets the unlock.           *)
CheckRequestLocked(k) ==
  LET s == session[k] IN
  /\ pc[k] = "check"
  /\ IF rawRequest[s] = NULL
     THEN Goto(k, "reset") /\ UNCHANGED tLock
     ELSE Goto(k, IF resp[s].what = "ignore" THEN "drop" ELSE "make") /\ UNCHANGED tLock
  /\ UNCHANGED <<data, reqIDCounter, session, msg, msgTask, user, responded, msgs,
                 informed, memory, restarts>>

(* A request that is gone was dropped by a restart: nothing to send.       *)
CheckRequest(k) ==
  LET s == session[k] IN
  /\ pc[k] = "check"
  /\ IF rawRequest[s] = NULL
     THEN Goto(k, "reset") /\ tLock' = [tLock EXCEPT ![s] = NULL]
     ELSE Goto(k, IF resp[s].what = "ignore" THEN "drop" ELSE "make") /\ UNCHANGED tLock
  /\ UNCHANGED <<data, reqIDCounter, session, msg, msgTask, user, responded, msgs,
                 informed, memory, restarts>>

MakeMessage(k) ==
  /\ pc[k] = "make"
  /\ msg' = [msg EXCEPT ![k] = [request |-> rawRequest[session[k]], resp |-> resp[session[k]]]]
  /\ Goto(k, "clear")
  /\ UNCHANGED <<data, tLock, reqIDCounter, session, msgTask, user, responded, msgs,
                 informed, memory, restarts>>

(* Mutant of DropRequest: the payload is not freed.                        *)
DropRequestOnly(k) ==
  /\ pc[k] = "drop"
  /\ Goto(k, "clear")
  /\ UNCHANGED <<data, tLock, reqIDCounter, session, msg, msgTask, user, responded, msgs,
                 informed, memory, restarts>>

DropRequest(k) ==
  /\ pc[k] = "drop"
  /\ Free(rawRequest[session[k]])
  /\ Goto(k, "clear")
  /\ UNCHANGED <<data, tLock, reqIDCounter, session, msg, msgTask, user, responded, msgs,
                 informed, restarts>>

(* Mutant of EndSession: the request stays in the session.                 *)
EndSessionOpen(k) ==
  /\ pc[k] = "clear"
  /\ tLock' = [tLock EXCEPT ![session[k]] = NULL]
  /\ Goto(k, "reset")
  /\ UNCHANGED <<rawRequest, reqID, respRecvd, resp, reqIDCounter, session, msg, msgTask, user,
                 responded, msgs, informed, memory, restarts>>

EndSession(k) ==
  /\ pc[k] = "clear"
  /\ rawRequest' = [rawRequest EXCEPT ![session[k]] = NULL]
  /\ tLock' = [tLock EXCEPT ![session[k]] = NULL]
  /\ Goto(k, "reset")
  /\ UNCHANGED <<reqID, respRecvd, resp, reqIDCounter, session, msg, msgTask, user,
                 responded, msgs, informed, memory, restarts>>

(* After the unlock: a request accepted in between loses its id.           *)
ResetId(k) ==
  /\ pc[k] = "reset"
  /\ reqID' = [reqID EXCEPT ![session[k]] = 0]
  /\ Goto(k, "send")
  /\ UNCHANGED <<rawRequest, respRecvd, resp, tLock, reqIDCounter, session, msg, msgTask,
                 user, responded, msgs, informed, memory, restarts>>

SendMessage(k) ==
  /\ pc[k] = "send"
  /\ msgs' = IF msg[k] = NoMessage THEN msgs ELSE Append(msgs, msg[k])
  /\ msg' = [msg EXCEPT ![k] = NoMessage]
  /\ Goto(k, "done")
  /\ UNCHANGED <<data, tLock, reqIDCounter, session, msgTask, user, responded, informed,
                 memory, restarts>>

-----------------------------------------------------------------------------
MsgTask == informNiResponse \/ NotifyUser \/ FreeRequest \/ ClearRequest \/ WakeThread

User == IgnoreOther \/ SetOwn

Thread(k) ==
  \/ ni_thread_proc(k) \/ Signalled(k) \/ TimedOut(k)
  \/ CheckRequest(k) \/ MakeMessage(k) \/ DropRequest(k)
  \/ EndSession(k) \/ ResetId(k) \/ SendMessage(k)

Next ==
  \/ MsgTask
  \/ \E s \in Sessions : loc_eng_ni_request_handler(s)
  \/ loc_eng_ni_reset_on_engine_restart
  \/ User
  \/ \E k \in Requests : (\E what \in UserResponses : loc_eng_ni_respond(k, what)) \/ Thread(k)

(* The threads run and the timed wait ends; the user need never respond.   *)
Fairness ==
  /\ WF_vars(MsgTask)
  /\ WF_vars(User)
  /\ \A k \in Requests : WF_vars(Thread(k))

Spec == Init /\ [][Next]_vars /\ Fairness

-----------------------------------------------------------------------------
(* Properties                                                              *)

LockedAt == {"check", "make", "drop", "clear"}
Responses == [what : UserResponses \cup {"unset", "noresp", "ignore"}, id : 0..MaxRequests]
Messages == [request : 0..MaxRequests, resp : Responses]

Types ==
  /\ rawRequest \in [Sessions -> 0..MaxRequests]
  /\ reqID \in [Sessions -> 0..MaxRequests]
  /\ respRecvd \in [Sessions -> BOOLEAN]
  /\ resp \in [Sessions -> Responses]
  /\ tLock \in [Sessions -> 0..MaxRequests]
  /\ reqIDCounter \in 0..MaxRequests
  /\ session \in [Requests -> Sessions]
  /\ pc \in [Requests -> {"none", "start", "wait", "reset", "send", "done"} \cup LockedAt]
  /\ msg \in [Requests -> Messages]
  /\ msgTask \in [at : {"idle", "notify", "reset", "null", "signal"},
                  s : Sessions, k : 0..MaxRequests]
  /\ user \in [at : {"idle", "ignore", "set"}, s : Sessions, resp : Responses]
  /\ responded \subseteq Requests
  /\ msgs \in Seq(Messages) /\ informed \in Seq(Messages)
  /\ memory \in [Requests -> {"none", "live", "freed", "broken"}]
  /\ restarts \in 0..MaxRestarts

(* The variables have their types, and tLock is held by exactly the thread *)
(* that is between its wait and its unlock.                                *)
TypeOK ==
  /\ Types
  /\ \A k \in Requests : pc[k] \in LockedAt <=> tLock[session[k]] = k

(* The modem is told about a request at most once, also when a restart     *)
(* left an old thread behind that shares its session with a new one.       *)
InformedOnce ==
  \A i, j \in DOMAIN informed :
    informed[i].request = informed[j].request /\ informed[i].request # NULL => i = j

(* A SUPL request is not accepted while an emergency one is in session: of *)
(* two requests in session the emergency one is the later.                 *)
EmergencyFirst ==
  rawRequest["es"] # NULL /\ rawRequest["supl"] # NULL =>
    rawRequest["supl"] < rawRequest["es"]

(* Who frees the payload of request k: the session, the message on its way *)
(* to the modem, or (after an ignore) nobody any more.                     *)
Owners(k) ==
  {<<"session", s>> : s \in {s \in Sessions : rawRequest[s] = k}}
    \cup {<<"thread", j>> : j \in {j \in Requests : msg[j].request = k}}
    \cup {<<"queue", i>> : i \in {i \in DOMAIN msgs : msgs[i].request = k}}

(* Until a restart interferes, a payload is freed exactly once and never   *)
(* lost: while it is live somebody still has it, and once freed it is left *)
(* to nobody (but the thread that is about to clear its session).          *)
PayloadOwned ==
  restarts = 0 =>
    \A k \in Requests :
      /\ memory[k] # "broken"
      /\ memory[k] = "live" => Owners(k) # {}
      /\ memory[k] = "freed" =>
           Owners(k) \subseteq {<<"session", s>> : s \in {s \in Sessions :
                                 tLock[s] # NULL /\ pc[tLock[s]] = "clear"}}

(* Every request that is accepted is settled: the modem is informed of the *)
(* response or of the timeout, or the request was ignored.                 *)
Settled ==
  \A k \in Requests :
    memory[k] = "live" ~> (memory[k] = "freed" \/ restarts > 0)

=============================================================================
