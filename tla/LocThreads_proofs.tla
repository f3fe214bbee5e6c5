-------------------------- MODULE LocThreads_proofs --------------------------
(***************************************************************************)
(* Proofs about the threads that the GPS libraries run beside their message *)
(* task: those that wait for a user's response to a request of the network *)
(* (LocEngNi), for any numbers of requests and restarts, and the poll thread *)
(* and the clients of the timers (LocTimer over LocHeap), for any clients, *)
(* containers, memory, delays and bounds, and heaps of any size.           *)
(***************************************************************************)
EXTENDS LocEngNi, LocTimer, NaturalsInduction, WellFoundedInduction, TLAPS

-----------------------------------------------------------------------------
(***************************************************************************)
(* Requests of the network.                                                *)
(***************************************************************************)

\* a request that has not been accepted has no thread
Fresh ==
  /\ \A k \in Requests : k > reqIDCounter => pc[k] = "none"
  /\ msgTask.at = "notify" => msgTask.k = reqIDCounter + 1 /\ msgTask.k \in Requests

\* the lock of a session is held by a thread of that session
LockOwner ==
  \A s \in Sessions : tLock[s] # NULL =>
    session[tLock[s]] = s /\ pc[tLock[s]] \in LockedAt

\* the newest request that may be in session
Newest == IF msgTask.at = "notify" THEN reqIDCounter + 1 ELSE reqIDCounter
RawBound == \A s \in Sessions : rawRequest[s] <= Newest

\* The inductive invariant.
IInv == TypeOK /\ Fresh /\ LockOwner /\ RawBound /\ EmergencyFirst

-----------------------------------------------------------------------------
(***************************************************************************)
(* The initial states satisfy the inductive invariant.                     *)
(***************************************************************************)
LEMMA InitInv == Init => IInv
<1> SUFFICES ASSUME Init PROVE IInv
  OBVIOUS
<1>1. TypeOK
  BY Bounds DEF Init, TypeOK, Types, Sessions, Requests, NULL, NoMessage, Messages, Responses,
        Response, UserResponses, LockedAt, Idle, UserIdle
<1>2. Fresh /\ LockOwner /\ RawBound /\ EmergencyFirst
  BY Bounds DEF Init, Fresh, LockOwner, RawBound, EmergencyFirst, Newest, Sessions, Requests, NULL, Idle
<1>3. QED
  BY <1>1, <1>2 DEF IInv

(***************************************************************************)
(* Every step keeps the lock discipline.                                   *)
(***************************************************************************)
LEMMA LockStep == ASSUME IInv, [Next]_vars
                  PROVE  (\A k \in Requests : pc[k] \in LockedAt <=> tLock[session[k]] = k)'
<1> DEFINE Locked == \A k \in Requests : pc[k] \in LockedAt <=> tLock[session[k]] = k
<1> SUFFICES Locked'
  OBVIOUS
<1> USE Bounds DEF IInv
<1>1. ASSUME NEW s \in Sessions, loc_eng_ni_request_handler(s)
      PROVE  Locked'
  <2> DEFINE k == reqIDCounter + 1
  <2>1. /\ k \in Requests /\ pc[k] = "none" /\ UNCHANGED <<pc, tLock>>
        /\ session' = [session EXCEPT ![k] = s]
    BY <1>1 DEF loc_eng_ni_request_handler, Fresh, Types, TypeOK, Requests
  <2>2. tLock[s] # k
    BY <2>1 DEF LockOwner, LockedAt, NULL, Requests
  <2>3. ASSUME NEW j \in Requests
        PROVE  pc'[j] \in LockedAt <=> tLock'[session'[j]] = j
    <3>1. CASE j = k
      BY <2>1, <2>2, <3>1 DEF Types, TypeOK, LockedAt
    <3>2. CASE j # k
      <4>1. session'[j] = session[j]
        BY <2>1, <3>2 DEF Types, TypeOK
      <4>2. pc[j] \in LockedAt <=> tLock[session[j]] = j
        BY DEF TypeOK
      <4>3. QED
        BY <2>1, <4>1, <4>2
    <3>3. QED
      BY <3>1, <3>2
  <2>4. QED
    BY <2>3
<1>2. ASSUME NotifyUser
      PROVE  Locked'
  BY <1>2 DEF Types, NotifyUser, SetMsgTask, Idle, TypeOK, Fresh, LockOwner, RawBound, Newest, Sessions, Requests, NULL, LockedAt, data, thread
<1>3. ASSUME informNiResponse
      PROVE  Locked'
  BY <1>3 DEF Types, informNiResponse, Free, TypeOK, Fresh, LockOwner, RawBound, Newest, Sessions, Requests, NULL, LockedAt, data, thread
<1>4. ASSUME loc_eng_ni_reset_on_engine_restart
      PROVE  Locked'
  BY <1>4 DEF Types, loc_eng_ni_reset_on_engine_restart, SetMsgTask, At, Idle, TypeOK, Fresh, LockOwner, RawBound, Newest, Sessions, Requests, NULL, LockedAt, data, thread
<1>5. ASSUME FreeRequest
      PROVE  Locked'
  BY <1>5 DEF Types, FreeRequest, SetMsgTask, NextSession, At, Idle, Free, TypeOK, Fresh, LockOwner, RawBound, Newest, Sessions, Requests, NULL, LockedAt, data, thread
<1>6. ASSUME ClearRequest
      PROVE  Locked'
  BY <1>6 DEF Types, ClearRequest, SetMsgTask, At, TypeOK, Fresh, LockOwner, RawBound, Newest, Sessions, Requests, NULL, LockedAt, data, thread
<1>7. ASSUME WakeThread
      PROVE  Locked'
  BY <1>7 DEF Types, WakeThread, SetMsgTask, NextSession, At, Idle, TypeOK, Fresh, LockOwner, RawBound, Newest, Sessions, Requests, NULL, LockedAt, data, thread
<1>8. ASSUME IgnoreOther
      PROVE  Locked'
  BY <1>8 DEF Types, IgnoreOther, SetResponse, Setting, Response, TypeOK, Fresh, LockOwner, RawBound, Newest, Sessions, Requests, NULL, LockedAt, data, thread
<1>9. ASSUME SetOwn
      PROVE  Locked'
  BY <1>9 DEF Types, SetOwn, SetResponse, UserIdle, Response, TypeOK, Fresh, LockOwner, RawBound, Newest, Sessions, Requests, NULL, LockedAt, data, thread
<1>10. ASSUME NEW k \in Requests, NEW what \in UserResponses, loc_eng_ni_respond(k, what)
      PROVE  Locked'
  BY <1>10 DEF Types, loc_eng_ni_respond, Setting, Found, Response, TypeOK, Fresh, LockOwner, RawBound, Newest, Sessions, Requests, NULL, LockedAt, data, thread
<1>11. ASSUME NEW k \in Requests, ni_thread_proc(k)
      PROVE  Locked'
  BY <1>11 DEF Types, ni_thread_proc, TakeResponse, Goto, TypeOK, Fresh, LockOwner, RawBound, Newest, Sessions, Requests, NULL, LockedAt, data, thread
<1>12. ASSUME NEW k \in Requests, Signalled(k)
      PROVE  Locked'
  BY <1>12 DEF Types, Signalled, TakeResponse, Goto, TypeOK, Fresh, LockOwner, RawBound, Newest, Sessions, Requests, NULL, LockedAt, data, thread
<1>13. ASSUME NEW k \in Requests, TimedOut(k)
      PROVE  Locked'
  BY <1>13 DEF Types, TimedOut, TakeResponse, Goto, Response, TypeOK, Fresh, LockOwner, RawBound, Newest, Sessions, Requests, NULL, LockedAt, data, thread
<1>14. ASSUME NEW k \in Requests, CheckRequest(k)
      PROVE  Locked'
  BY <1>14 DEF Types, CheckRequest, Goto, TypeOK, Fresh, LockOwner, RawBound, Newest, Sessions, Requests, NULL, LockedAt, data, thread
<1>15. ASSUME NEW k \in Requests, MakeMessage(k)
      PROVE  Locked'
  BY <1>15 DEF Types, MakeMessage, Goto, TypeOK, Fresh, LockOwner, RawBound, Newest, Sessions, Requests, NULL, LockedAt, data, thread
<1>16. ASSUME NEW k \in Requests, DropRequest(k)
      PROVE  Locked'
  BY <1>16 DEF Types, DropRequest, Goto, Free, TypeOK, Fresh, LockOwner, RawBound, Newest, Sessions, Requests, NULL, LockedAt, data, thread
<1>17. ASSUME NEW k \in Requests, EndSession(k)
      PROVE  Locked'
  BY <1>17 DEF Types, EndSession, Goto, TypeOK, Fresh, LockOwner, RawBound, Newest, Sessions, Requests, NULL, LockedAt, data, thread
<1>18. ASSUME NEW k \in Requests, ResetId(k)
      PROVE  Locked'
  BY <1>18 DEF Types, ResetId, Goto, TypeOK, Fresh, LockOwner, RawBound, Newest, Sessions, Requests, NULL, LockedAt, data, thread
<1>19. ASSUME NEW k \in Requests, SendMessage(k)
      PROVE  Locked'
  BY <1>19 DEF Types, SendMessage, Goto, NoMessage, Response, TypeOK, Fresh, LockOwner, RawBound, Newest, Sessions, Requests, NULL, LockedAt, data, thread
<1>20. CASE UNCHANGED vars
  BY <1>20 DEF Types, vars, data, thread, TypeOK, Fresh, LockOwner, RawBound, Newest, Sessions, Requests, NULL, LockedAt, data, thread
<1>21. QED
  BY <1>1, <1>2, <1>3, <1>4, <1>5, <1>6, <1>7, <1>8, <1>9, <1>10, <1>11, <1>12, <1>13, <1>14, <1>15, <1>16, <1>17, <1>18, <1>19, <1>20 DEF Next, MsgTask, User, Thread

(***************************************************************************)
(* Every step keeps the types.                                             *)
(***************************************************************************)
LEMMA TypeStep == ASSUME IInv, [Next]_vars PROVE Types'
<1> USE Bounds DEF IInv
<1>1. ASSUME NEW s \in Sessions, loc_eng_ni_request_handler(s)
      PROVE  Types'
  BY <1>1 DEF loc_eng_ni_request_handler, SetMsgTask, At, Idle, TypeOK, Types, Sessions, Requests, NULL, LockedAt, data, thread
<1>2. ASSUME NotifyUser
      PROVE  Types'
  BY <1>2 DEF NotifyUser, SetMsgTask, Idle, Fresh, TypeOK, Types, Sessions, Requests, NULL, LockedAt, data, thread
<1>3. ASSUME informNiResponse
      PROVE  Types'
  BY <1>3 DEF informNiResponse, Free, TypeOK, Types, Sessions, Requests, NULL, LockedAt, data, thread
<1>4. ASSUME loc_eng_ni_reset_on_engine_restart
      PROVE  Types'
  BY <1>4 DEF loc_eng_ni_reset_on_engine_restart, SetMsgTask, At, Idle, TypeOK, Types, Sessions, Requests, NULL, LockedAt, data, thread
<1>5. ASSUME FreeRequest
      PROVE  Types'
  <2>1. memory' \in [Requests -> {"none", "live", "freed", "broken"}]
    BY <1>5 DEF FreeRequest, Free, TypeOK, Types
  <2>2. msgTask' \in [at : {"idle", "notify", "reset", "null", "signal"},
                     s : Sessions, k : 0..MaxRequests]
    BY <1>5 DEF FreeRequest, SetMsgTask, NextSession, At, Idle, TypeOK, Types, Sessions, NULL
  <2>3. QED
    BY <1>5, <2>1, <2>2 DEF FreeRequest, TypeOK, Types, Sessions, Requests, NULL, LockedAt, data, thread
<1>6. ASSUME ClearRequest
      PROVE  Types'
  BY <1>6 DEF ClearRequest, SetMsgTask, At, TypeOK, Types, Sessions, Requests, NULL, LockedAt, data, thread
<1>7. ASSUME WakeThread
      PROVE  Types'
  BY <1>7 DEF WakeThread, SetMsgTask, NextSession, At, Idle, TypeOK, Types, Sessions, Requests, NULL, LockedAt, data, thread
<1>8. ASSUME IgnoreOther
      PROVE  Types'
  <2>1. Response("ignore", user.resp.id) \in Responses
    BY <1>8 DEF Response, TypeOK, Types, Sessions, Requests, NULL, LockedAt, data, thread, Responses
  <2>2. user' \in [at : {"idle", "ignore", "set"}, s : Sessions, resp : Responses]
    BY <1>8 DEF IgnoreOther, Setting, TypeOK, Types
  <2>3. resp' \in [Sessions -> Responses] /\ respRecvd' \in [Sessions -> BOOLEAN]
    BY <1>8, <2>1 DEF IgnoreOther, SetResponse, TypeOK, Types
  <2>4. QED
    BY <1>8, <2>2, <2>3 DEF IgnoreOther, TypeOK, Types, Sessions, Requests, NULL, LockedAt, data, thread
<1>9. ASSUME SetOwn
      PROVE  Types'
  <2>1. UserIdle \in [at : {"idle", "ignore", "set"}, s : Sessions, resp : Responses]
    BY DEF UserIdle, Response, Responses, Sessions, NULL
  <2>2. resp' \in [Sessions -> Responses] /\ respRecvd' \in [Sessions -> BOOLEAN]
    BY <1>9 DEF SetOwn, SetResponse, TypeOK, Types
  <2>3. QED
    BY <1>9, <2>1, <2>2 DEF SetOwn, TypeOK, Types, Sessions, Requests, NULL, LockedAt, data, thread
<1>10. ASSUME NEW k \in Requests, NEW what \in UserResponses, loc_eng_ni_respond(k, what)
      PROVE  Types'
  <2>1. Response(what, k) \in Responses
    BY DEF Response, Responses, Requests, UserResponses
  <2>2. user' \in [at : {"idle", "ignore", "set"}, s : Sessions, resp : Responses]
    BY <1>10, <2>1 DEF loc_eng_ni_respond, Setting, TypeOK, Types, Sessions
  <2>3. QED
    BY <1>10, <2>2 DEF loc_eng_ni_respond, TypeOK, Types, Sessions, Requests, NULL, LockedAt, data, thread
<1>11. ASSUME NEW k \in Requests, ni_thread_proc(k)
      PROVE  Types'
  <2>1. \/ TakeResponse(k)
        \/ Goto(k, "wait") /\ UNCHANGED <<tLock, respRecvd>>
    BY <1>11, Zenon DEF ni_thread_proc
  <2>2. UNCHANGED <<rawRequest, reqID, resp, reqIDCounter, session, msg, msgTask, user,
                    responded, msgs, informed, memory, restarts>>
    BY <1>11, Zenon DEF ni_thread_proc
  <2>3. CASE TakeResponse(k)
    BY <2>2, <2>3 DEF TakeResponse, Goto, TypeOK, Types, Sessions, Requests, NULL, LockedAt, data, thread
  <2>4. CASE Goto(k, "wait") /\ UNCHANGED <<tLock, respRecvd>>
    BY <2>2, <2>4 DEF Goto, TypeOK, Types, Sessions, Requests, NULL, LockedAt, data, thread
  <2>5. QED
    BY <2>1, <2>3, <2>4
<1>12. ASSUME NEW k \in Requests, Signalled(k)
      PROVE  Types'
  BY <1>12 DEF Signalled, TakeResponse, Goto, TypeOK, Types, Sessions, Requests, NULL, LockedAt, data, thread
<1>13. ASSUME NEW k \in Requests, TimedOut(k)
      PROVE  Types'
  <2>1. Response("noresp", k) \in Responses
    BY DEF Response, Responses, Requests
  <2>2. resp' \in [Sessions -> Responses]
    BY <1>13, <2>1 DEF TimedOut, TypeOK, Types
  <2>3. QED
    BY <1>13, <2>2 DEF TimedOut, TakeResponse, Goto, TypeOK, Types, Sessions, Requests, NULL, LockedAt, data, thread
<1>14. ASSUME NEW k \in Requests, CheckRequest(k)
      PROVE  Types'
  <2>1. \/ Goto(k, "reset") /\ tLock' = [tLock EXCEPT ![session[k]] = NULL]
        \/ (Goto(k, "drop") \/ Goto(k, "make")) /\ UNCHANGED tLock
    BY <1>14, Zenon DEF CheckRequest
  <2>2. UNCHANGED <<data, reqIDCounter, session, msg, msgTask, user, responded, msgs,
                    informed, memory, restarts>>
    BY <1>14, Zenon DEF CheckRequest
  <2>3. tLock' \in [Sessions -> 0..MaxRequests]
    <3>1. tLock' = [tLock EXCEPT ![session[k]] = NULL] \/ tLock' = tLock
      BY <2>1
    <3>2. tLock \in [Sessions -> 0..MaxRequests] /\ NULL \in 0..MaxRequests
      BY DEF TypeOK, Types, NULL
    <3>3. QED
      BY <3>1, <3>2
  <2>4. pc' \in [Requests -> {"none", "start", "wait", "reset", "send", "done"} \cup LockedAt]
    <3> DEFINE P == {"none", "start", "wait", "reset", "send", "done"} \cup LockedAt
    <3>1. pc \in [Requests -> P]
      BY DEF TypeOK, Types
    <3>2. {"reset", "drop", "make"} \subseteq P
      BY DEF LockedAt
    <3>3. PICK where \in {"reset", "drop", "make"} : pc' = [pc EXCEPT ![k] = where]
      BY <2>1, Zenon DEF Goto
    <3>4. where \in P
      BY <3>2, <3>3
    <3> HIDE DEF P
    <3>5. pc' \in [Requests -> P]
      BY <3>1, <3>3, <3>4
    <3>6. QED
      BY <3>5 DEF P
  <2>5. QED
    BY <2>2, <2>3, <2>4 DEF TypeOK, Types, data
<1>15. ASSUME NEW k \in Requests, MakeMessage(k)
      PROVE  Types'
  <2>1. msg' \in [Requests -> Messages]
    BY <1>15 DEF MakeMessage, Messages, TypeOK, Types
  <2>2. QED
    BY <1>15, <2>1 DEF MakeMessage, Goto, TypeOK, Types, Sessions, Requests, NULL, LockedAt, data, thread
<1>16. ASSUME NEW k \in Requests, DropRequest(k)
      PROVE  Types'
  BY <1>16 DEF DropRequest, Goto, Free, TypeOK, Types, Sessions, Requests, NULL, LockedAt, data, thread
<1>17. ASSUME NEW k \in Requests, EndSession(k)
      PROVE  Types'
  BY <1>17 DEF EndSession, Goto, TypeOK, Types, Sessions, Requests, NULL, LockedAt, data, thread
<1>18. ASSUME NEW k \in Requests, ResetId(k)
      PROVE  Types'
  BY <1>18 DEF ResetId, Goto, TypeOK, Types, Sessions, Requests, NULL, LockedAt, data, thread
<1>19. ASSUME NEW k \in Requests, SendMessage(k)
      PROVE  Types'
  <2>1. NoMessage \in Messages
    BY DEF NoMessage, Response, Messages, Responses, NULL
  <2>2. msg' \in [Requests -> Messages]
    BY <1>19, <2>1 DEF SendMessage, TypeOK, Types
  <2>3. msgs' \in Seq(Messages)
    <3>1. msg[k] \in Messages /\ msgs \in Seq(Messages)
      BY DEF TypeOK, Types
    <3>2. Append(msgs, msg[k]) \in Seq(Messages)
      BY <3>1
    <3>3. QED
      BY <1>19, <3>1, <3>2 DEF SendMessage
  <2>4. QED
    BY <1>19, <2>2, <2>3 DEF SendMessage, Goto, TypeOK, Types, Sessions, Requests, NULL, LockedAt, data, thread
<1>20. CASE UNCHANGED vars
  BY <1>20 DEF vars, data, thread, TypeOK, Types, Sessions, Requests, NULL, LockedAt, data, thread
<1>21. QED
  BY <1>1, <1>2, <1>3, <1>4, <1>5, <1>6, <1>7, <1>8, <1>9, <1>10, <1>11, <1>12, <1>13, <1>14, <1>15, <1>16, <1>17, <1>18, <1>19, <1>20 DEF Next, MsgTask, User, Thread

(***************************************************************************)
(* Every step keeps the rest.                                              *)
(***************************************************************************)
LEMMA RestStep == ASSUME IInv, TypeOK', [Next]_vars
                  PROVE  (Fresh /\ LockOwner /\ RawBound /\ EmergencyFirst)'
<1> DEFINE Rest == Fresh /\ LockOwner /\ RawBound /\ EmergencyFirst
<1> SUFFICES Rest'
  OBVIOUS
<1> USE Bounds DEF IInv
<1>1. ASSUME NEW s \in Sessions, loc_eng_ni_request_handler(s)
      PROVE  Rest'
  BY <1>1 DEF loc_eng_ni_request_handler, SetMsgTask, At, Idle, TypeOK, Types, Fresh, LockOwner, RawBound, Newest, EmergencyFirst, Sessions, Requests, NULL, LockedAt, data, thread
<1>2. ASSUME NotifyUser
      PROVE  Rest'
  BY <1>2 DEF NotifyUser, SetMsgTask, Idle, TypeOK, Types, Fresh, LockOwner, RawBound, Newest, EmergencyFirst, Sessions, Requests, NULL, LockedAt, data, thread
<1>3. ASSUME informNiResponse
      PROVE  Rest'
  BY <1>3 DEF informNiResponse, Free, TypeOK, Types, Fresh, LockOwner, RawBound, Newest, EmergencyFirst, Sessions, Requests, NULL, LockedAt, data, thread
<1>4. ASSUME loc_eng_ni_reset_on_engine_restart
      PROVE  Rest'
  BY <1>4 DEF loc_eng_ni_reset_on_engine_restart, SetMsgTask, At, Idle, TypeOK, Types, Fresh, LockOwner, RawBound, Newest, EmergencyFirst, Sessions, Requests, NULL, LockedAt, data, thread
<1>5. ASSUME FreeRequest
      PROVE  Rest'
  BY <1>5 DEF FreeRequest, SetMsgTask, NextSession, At, Idle, Free, TypeOK, Types, Fresh, LockOwner, RawBound, Newest, EmergencyFirst, Sessions, Requests, NULL, LockedAt, data, thread
<1>6. ASSUME ClearRequest
      PROVE  Rest'
  BY <1>6 DEF ClearRequest, SetMsgTask, At, TypeOK, Types, Fresh, LockOwner, RawBound, Newest, EmergencyFirst, Sessions, Requests, NULL, LockedAt, data, thread
<1>7. ASSUME WakeThread
      PROVE  Rest'
  BY <1>7 DEF WakeThread, SetMsgTask, NextSession, At, Idle, TypeOK, Types, Fresh, LockOwner, RawBound, Newest, EmergencyFirst, Sessions, Requests, NULL, LockedAt, data, thread
<1>8. ASSUME IgnoreOther
      PROVE  Rest'
  BY <1>8 DEF IgnoreOther, SetResponse, Setting, Response, TypeOK, Types, Fresh, LockOwner, RawBound, Newest, EmergencyFirst, Sessions, Requests, NULL, LockedAt, data, thread
<1>9. ASSUME SetOwn
      PROVE  Rest'
  BY <1>9 DEF SetOwn, SetResponse, UserIdle, Response, TypeOK, Types, Fresh, LockOwner, RawBound, Newest, EmergencyFirst, Sessions, Requests, NULL, LockedAt, data, thread
<1>10. ASSUME NEW k \in Requests, NEW what \in UserResponses, loc_eng_ni_respond(k, what)
      PROVE  Rest'
  BY <1>10 DEF loc_eng_ni_respond, Setting, Found, Response, TypeOK, Types, Fresh, LockOwner, RawBound, Newest, EmergencyFirst, Sessions, Requests, NULL, LockedAt, data, thread
<1>11. ASSUME NEW k \in Requests, ni_thread_proc(k)
      PROVE  Rest'
  BY <1>11 DEF ni_thread_proc, TakeResponse, Goto, TypeOK, Types, Fresh, LockOwner, RawBound, Newest, EmergencyFirst, Sessions, Requests, NULL, LockedAt, data, thread
<1>12. ASSUME NEW k \in Requests, Signalled(k)
      PROVE  Rest'
  BY <1>12 DEF Signalled, TakeResponse, Goto, TypeOK, Types, Fresh, LockOwner, RawBound, Newest, EmergencyFirst, Sessions, Requests, NULL, LockedAt, data, thread
<1>13. ASSUME NEW k \in Requests, TimedOut(k)
      PROVE  Rest'
  BY <1>13 DEF TimedOut, TakeResponse, Goto, Response, TypeOK, Types, Fresh, LockOwner, RawBound, Newest, EmergencyFirst, Sessions, Requests, NULL, LockedAt, data, thread
<1>14. ASSUME NEW k \in Requests, CheckRequest(k)
      PROVE  Rest'
  BY <1>14 DEF CheckRequest, Goto, TypeOK, Types, Fresh, LockOwner, RawBound, Newest, EmergencyFirst, Sessions, Requests, NULL, LockedAt, data, thread
<1>15. ASSUME NEW k \in Requests, MakeMessage(k)
      PROVE  Rest'
  BY <1>15 DEF MakeMessage, Goto, TypeOK, Types, Fresh, LockOwner, RawBound, Newest, EmergencyFirst, Sessions, Requests, NULL, LockedAt, data, thread
<1>16. ASSUME NEW k \in Requests, DropRequest(k)
      PROVE  Rest'
  BY <1>16 DEF DropRequest, Goto, Free, TypeOK, Types, Fresh, LockOwner, RawBound, Newest, EmergencyFirst, Sessions, Requests, NULL, LockedAt, data, thread
<1>17. ASSUME NEW k \in Requests, EndSession(k)
      PROVE  Rest'
  BY <1>17 DEF EndSession, Goto, TypeOK, Types, Fresh, LockOwner, RawBound, Newest, EmergencyFirst, Sessions, Requests, NULL, LockedAt, data, thread
<1>18. ASSUME NEW k \in Requests, ResetId(k)
      PROVE  Rest'
  BY <1>18 DEF ResetId, Goto, TypeOK, Types, Fresh, LockOwner, RawBound, Newest, EmergencyFirst, Sessions, Requests, NULL, LockedAt, data, thread
<1>19. ASSUME NEW k \in Requests, SendMessage(k)
      PROVE  Rest'
  BY <1>19 DEF SendMessage, Goto, NoMessage, Response, TypeOK, Types, Fresh, LockOwner, RawBound, Newest, EmergencyFirst, Sessions, Requests, NULL, LockedAt, data, thread
<1>20. CASE UNCHANGED vars
  BY <1>20 DEF vars, data, thread, TypeOK, Types, Fresh, LockOwner, RawBound, Newest, EmergencyFirst, Sessions, Requests, NULL, LockedAt, data, thread
<1>21. QED
  BY <1>1, <1>2, <1>3, <1>4, <1>5, <1>6, <1>7, <1>8, <1>9, <1>10, <1>11, <1>12, <1>13, <1>14, <1>15, <1>16, <1>17, <1>18, <1>19, <1>20 DEF Next, MsgTask, User, Thread

(***************************************************************************)
(* IInv is an invariant.                                                   *)
(***************************************************************************)
LEMMA Inductive == Spec => []IInv
<1>1. ASSUME IInv, [Next]_vars PROVE IInv'
  BY <1>1, LockStep, TypeStep, RestStep DEF IInv, TypeOK
<1>2. QED
  BY InitInv, <1>1, PTL DEF Spec

(* Whatever the number of requests and restarts, the variables keep their  *)
(* types and tLock is held by exactly the thread between wait and unlock.  *)
THEOREM NiTypeCorrect == Spec => []TypeOK
<1>1. IInv => TypeOK
  BY DEF IInv
<1>2. QED
  BY <1>1, Inductive, PTL

(* No SUPL request is accepted while an emergency one is in session        *)
(* (loc_eng_ni.cpp:126-147).                                               *)
THEOREM NiEmergencyFirst == Spec => []EmergencyFirst
<1>1. IInv => EmergencyFirst
  BY DEF IInv
<1>2. QED
  BY <1>1, Inductive, PTL

-----------------------------------------------------------------------------
(***************************************************************************)
(* A request the modem is told about goes from its session to the message  *)
(* of one thread, to the queue of the MsgTask and to the modem.            *)
(***************************************************************************)

\* the three places a request can be in once it has left its session
InThread(j, k) == msg[j].request = k
InQueue(i, k) == msgs[i].request = k
AtModem(i, k) == informed[i].request = k
Flying(k) == \/ \E j \in Requests : InThread(j, k)
             \/ \E i \in 1..Len(msgs) : InQueue(i, k)
             \/ \E i \in 1..Len(informed) : AtModem(i, k)

\* a thread has a message only after it has made one
MessageInv ==
  \A j \in Requests : msg[j].request # NULL => pc[j] \in {"clear", "reset", "send"}

\* a request that is still in its session has only just left it
SessionInv ==
  \A s \in Sessions : rawRequest[s] # NULL /\ Flying(rawRequest[s]) =>
    tLock[s] # NULL /\ pc[tLock[s]] = "clear" /\ msg[tLock[s]].request = rawRequest[s]

\* requests that have left are old, and in one place only
FlightInv ==
  \A k \in Requests :
    /\ Flying(k) => k <= Newest
    /\ \A i, j \in Requests : InThread(i, k) /\ InThread(j, k) => i = j
    /\ \A i, j \in 1..Len(msgs) : InQueue(i, k) /\ InQueue(j, k) => i = j
    /\ \A i, j \in 1..Len(informed) : AtModem(i, k) /\ AtModem(j, k) => i = j
    /\ \A i \in Requests, j \in 1..Len(msgs) : ~(InThread(i, k) /\ InQueue(j, k))
    /\ \A i \in Requests, j \in 1..Len(informed) : ~(InThread(i, k) /\ AtModem(j, k))
    /\ \A i \in 1..Len(msgs), j \in 1..Len(informed) : ~(InQueue(i, k) /\ AtModem(j, k))

\* The inductive invariant.
InformedInv == IInv /\ MessageInv /\ SessionInv /\ FlightInv

(***************************************************************************)
(* A step that moves no request keeps the three parts if what it does to   *)
(* the sessions, the locks and the threads is harmless.                    *)
(***************************************************************************)
LEMMA NothingMoves ==
  ASSUME InformedInv, TypeOK', UNCHANGED <<msg, msgs, informed>>,
         Newest' >= Newest,
         \A j \in Requests : pc[j] \in {"clear", "reset", "send"} =>
                             pc'[j] \in {"clear", "reset", "send"},
         \A s \in Sessions :
           \/ rawRequest'[s] = NULL
           \/ /\ rawRequest'[s] = rawRequest[s]
              /\ tLock[s] # NULL /\ pc[tLock[s]] = "clear" =>
                   tLock'[s] = tLock[s] /\ pc'[tLock[s]] = "clear"
           \/ rawRequest'[s] = Newest + 1
  PROVE  (MessageInv /\ SessionInv /\ FlightInv)'
<1>0. Newest \in Nat /\ Newest' \in Nat
  <2>1. reqIDCounter \in Nat /\ reqIDCounter' \in Nat
    BY Bounds DEF InformedInv, IInv, TypeOK, Types
  <2>2. Newest \in {reqIDCounter, reqIDCounter + 1}
    BY Zenon DEF Newest
  <2>3. Newest' \in {reqIDCounter', reqIDCounter' + 1}
    BY Zenon DEF Newest
  <2>4. QED
    BY <2>1, <2>2, <2>3
<1>1. \A k : Flying(k)' <=> Flying(k)
  BY DEF Flying, InThread, InQueue, AtModem
<1>2. MessageInv'
  BY DEF InformedInv, MessageInv
<1>3. SessionInv'
  <2> SUFFICES ASSUME NEW s \in Sessions, rawRequest'[s] # NULL, Flying(rawRequest'[s])
               PROVE  tLock'[s] # NULL /\ pc'[tLock'[s]] = "clear"
                        /\ msg[tLock'[s]].request = rawRequest'[s]
    BY <1>1 DEF SessionInv
  <2>1. rawRequest'[s] # Newest + 1
    <3>1. rawRequest'[s] \in Requests
      <4>1. rawRequest' \in [Sessions -> 0..MaxRequests]
        BY DEF TypeOK, Types
      <4>2. QED
        BY <4>1, Bounds DEF Requests, NULL
    <3>2. rawRequest'[s] <= Newest
      BY <3>1 DEF InformedInv, FlightInv
    <3>3. QED
      BY <1>0, <3>1, <3>2 DEF Requests
  <2>2. QED
    BY <2>1 DEF InformedInv, SessionInv
<1>4. FlightInv'
  <2>2. \A k \in Requests : Flying(k)' => k <= Newest'
    BY <1>0, <1>1 DEF InformedInv, FlightInv, Requests
  <2>3. QED
    BY <2>2 DEF InformedInv, FlightInv, InThread, InQueue, AtModem
<1>5. QED
  BY <1>2, <1>3, <1>4

(***************************************************************************)
(* What the three parts say of the steps that leave the threads alone ...  *)
(***************************************************************************)
LEMMA NewestNat == ASSUME InformedInv, TypeOK' PROVE Newest \in Nat /\ Newest' \in Nat
<1>1. reqIDCounter \in Nat /\ reqIDCounter' \in Nat
  BY Bounds DEF InformedInv, IInv, TypeOK, Types
<1>2. Newest = reqIDCounter \/ Newest = reqIDCounter + 1
  BY Zenon DEF Newest
<1>3. Newest' = reqIDCounter' \/ Newest' = reqIDCounter' + 1
  BY Zenon DEF Newest
<1>4. QED
  BY <1>1, <1>2, <1>3

LEMMA ThreadsRest ==
  ASSUME InformedInv, TypeOK', UNCHANGED <<msg, msgs, informed, rawRequest, tLock, pc>>,
         Newest' = Newest
  PROVE  (MessageInv /\ SessionInv /\ FlightInv)'
<1>1. Newest' >= Newest
  BY NewestNat
<1>2. QED
  BY <1>1, NothingMoves

(***************************************************************************)
(* ... and of the steps of a thread that move no request.                  *)
(***************************************************************************)
LEMMA ThreadMoves ==
  ASSUME InformedInv, TypeOK', NEW k \in Requests, NEW where,
         UNCHANGED <<msg, msgs, informed, rawRequest, reqIDCounter, msgTask>>,
         pc[k] \notin {"clear", "send"}, pc[k] = "reset" => where = "send",
         pc' = [pc EXCEPT ![k] = where],
         \A s \in Sessions : tLock[s] \notin {NULL, k} => tLock'[s] = tLock[s]
  PROVE  (MessageInv /\ SessionInv /\ FlightInv)'
<1>1. Newest' = Newest
  BY Zenon DEF Newest
<1>2. Newest' >= Newest
  BY <1>1, NewestNat
<1>3. \A j : j \in Requests => pc'[j] = IF j = k THEN where ELSE pc[j]
  <2>1. pc \in [Requests -> {"none", "start", "wait", "reset", "send", "done"} \cup LockedAt]
    BY DEF InformedInv, IInv, TypeOK, Types
  <2>2. QED
    BY <2>1
<1>4. \A j \in Requests : pc[j] \in {"clear", "reset", "send"} =>
                            pc'[j] \in {"clear", "reset", "send"}
  BY <1>3
<1>5. ASSUME NEW s \in Sessions, tLock[s] # NULL, pc[tLock[s]] = "clear"
      PROVE  tLock'[s] = tLock[s] /\ pc'[tLock[s]] = "clear"
  <2>1. tLock[s] \in Requests
    <3>1. tLock \in [Sessions -> 0..MaxRequests]
      BY DEF InformedInv, IInv, TypeOK, Types
    <3>2. QED
      BY <1>5, <3>1, Bounds DEF Requests, NULL
  <2>2. tLock[s] # k
    BY <1>5
  <2>3. QED
    BY <1>3, <1>5, <2>1, <2>2
<1>6. QED
  BY <1>2, <1>4, <1>5, NothingMoves

(***************************************************************************)
(* Every step keeps the three parts.                                       *)
(***************************************************************************)
LEMMA FlightStep == ASSUME InformedInv, TypeOK', [Next]_vars
                    PROVE  (MessageInv /\ SessionInv /\ FlightInv)'
<1> DEFINE Goal == MessageInv /\ SessionInv /\ FlightInv
<1> SUFFICES Goal'
  OBVIOUS
<1>a. /\ pc \in [Requests -> {"none", "start", "wait", "reset", "send", "done"} \cup LockedAt]
      /\ tLock \in [Sessions -> 0..MaxRequests]
      /\ rawRequest \in [Sessions -> 0..MaxRequests]
      /\ session \in [Requests -> Sessions]
  BY DEF InformedInv, IInv, TypeOK, Types
<1>b. \A s \in Sessions : tLock[s] # NULL => session[tLock[s]] = s
  BY DEF InformedInv, IInv, LockOwner
<1>c. \A k \in Requests : pc[k] \in LockedAt => tLock[session[k]] = k
  BY DEF InformedInv, IInv, TypeOK
<1>d. \A k \in Requests : k # NULL
  BY DEF Requests, NULL
<1>1. ASSUME NEW s \in Sessions, loc_eng_ni_request_handler(s)
      PROVE  Goal'
  <2>1. UNCHANGED <<msg, msgs, informed, tLock, pc, reqIDCounter>>
    BY <1>1 DEF loc_eng_ni_request_handler
  <2>2. Newest = reqIDCounter /\ Newest' = reqIDCounter + 1
    <3>1. msgTask.at # "notify" /\ msgTask'.at = "notify"
      BY <1>1 DEF loc_eng_ni_request_handler, Idle, SetMsgTask, At
    <3>2. QED
      BY <2>1, <3>1 DEF Newest
  <2>3. Newest' >= Newest
    BY <2>2, NewestNat
  <2>4. \A t \in Sessions : rawRequest'[t] = rawRequest[t] \/ rawRequest'[t] = Newest + 1
    <3>1. rawRequest' = [rawRequest EXCEPT ![s] = reqIDCounter + 1]
      BY <1>1 DEF loc_eng_ni_request_handler
    <3>2. QED
      BY <1>a, <2>2, <3>1
  <2>5. QED
    BY <2>1, <2>3, <2>4, NothingMoves
<1>2. ASSUME NotifyUser
      PROVE  Goal'
  <2>1. UNCHANGED <<msg, msgs, informed, rawRequest, tLock>>
    BY <1>2 DEF NotifyUser
  <2>2. msgTask.k = reqIDCounter + 1 /\ msgTask.k \in Requests
    BY <1>2 DEF NotifyUser, InformedInv, IInv, Fresh
  <2>3. Newest' = Newest
    <3>1. msgTask.at = "notify" /\ msgTask'.at # "notify" /\ reqIDCounter' = reqIDCounter + 1
      BY <1>2, <2>2 DEF NotifyUser, Idle, SetMsgTask
    <3>2. QED
      BY <3>1 DEF Newest
  <2>4. Newest' >= Newest
    BY <2>3, NewestNat
  <2>5. pc[msgTask.k] = "none" /\ pc' = [pc EXCEPT ![msgTask.k] = "start"]
    <3>1. reqIDCounter \in Nat
      BY Bounds DEF InformedInv, IInv, TypeOK, Types
    <3>2. QED
      BY <1>2, <2>2, <3>1 DEF NotifyUser, InformedInv, IInv, Fresh
  <2>6. \A j \in Requests : pc[j] # "none" => pc'[j] = pc[j]
    BY <1>a, <2>2, <2>5
  <2>7. \A s \in Sessions : tLock[s] # NULL => tLock[s] \in Requests
    BY <1>a, Bounds DEF Requests, NULL
  <2>8. \A s \in Sessions : tLock[s] # NULL /\ pc[tLock[s]] = "clear" =>
                             tLock'[s] = tLock[s] /\ pc'[tLock[s]] = "clear"
    BY <2>1, <2>6, <2>7
  <2>9. \A j \in Requests : pc[j] \in {"clear", "reset", "send"} =>
                              pc'[j] \in {"clear", "reset", "send"}
    BY <2>6
  <2>10. QED
    BY <2>1, <2>4, <2>8, <2>9, NothingMoves
<1>3. ASSUME loc_eng_ni_reset_on_engine_restart
      PROVE  Goal'
  <2>1. UNCHANGED <<msg, msgs, informed, rawRequest, tLock, pc>>
    BY <1>3 DEF loc_eng_ni_reset_on_engine_restart, data, thread
  <2>2. Newest' = Newest
    <3>1. msgTask.at # "notify" /\ msgTask'.at # "notify" /\ reqIDCounter' = reqIDCounter
      BY <1>3 DEF loc_eng_ni_reset_on_engine_restart, SetMsgTask, At, Idle
    <3>2. QED
      BY <3>1 DEF Newest
  <2>3. QED
    BY <2>1, <2>2, ThreadsRest
<1>4. ASSUME FreeRequest
      PROVE  Goal'
  <2>1. UNCHANGED <<msg, msgs, informed, rawRequest, tLock, pc>>
    BY <1>4 DEF FreeRequest, data, thread
  <2>2. Newest' = Newest
    <3>1. msgTask.at # "notify" /\ msgTask'.at # "notify" /\ reqIDCounter' = reqIDCounter
      BY <1>4 DEF FreeRequest, SetMsgTask, NextSession, At, Idle
    <3>2. QED
      BY <3>1 DEF Newest
  <2>3. QED
    BY <2>1, <2>2, ThreadsRest
<1>5. ASSUME ClearRequest
      PROVE  Goal'
  <2>1. UNCHANGED <<msg, msgs, informed, tLock, pc>>
    BY <1>5 DEF ClearRequest, thread
  <2>2. Newest' = Newest
    <3>1. msgTask.at # "notify" /\ msgTask'.at # "notify" /\ reqIDCounter' = reqIDCounter
      BY <1>5 DEF ClearRequest, SetMsgTask, At
    <3>2. QED
      BY <3>1 DEF Newest
  <2>3. \A s \in Sessions : rawRequest'[s] = NULL \/ rawRequest'[s] = rawRequest[s]
    <3>1. rawRequest' = [rawRequest EXCEPT ![msgTask.s] = NULL]
      BY <1>5 DEF ClearRequest
    <3>2. QED
      BY <1>a, <3>1
  <2>4. Newest' >= Newest
    BY <2>2, NewestNat
  <2>5. QED
    BY <2>1, <2>3, <2>4, NothingMoves
<1>6. ASSUME WakeThread
      PROVE  Goal'
  <2>1. UNCHANGED <<msg, msgs, informed, rawRequest, tLock, pc>>
    BY <1>6 DEF WakeThread, data, thread
  <2>2. Newest' = Newest
    <3>1. msgTask.at # "notify" /\ msgTask'.at # "notify" /\ reqIDCounter' = reqIDCounter
      BY <1>6 DEF WakeThread, SetMsgTask, NextSession, At, Idle
    <3>2. QED
      BY <3>1 DEF Newest
  <2>3. QED
    BY <2>1, <2>2, ThreadsRest
<1>7. ASSUME IgnoreOther
      PROVE  Goal'
  <2>1. UNCHANGED <<msg, msgs, informed, rawRequest, tLock, pc>>
    BY <1>7 DEF IgnoreOther, SetResponse, data, thread
  <2>2. Newest' = Newest
    <3>1. UNCHANGED <<msgTask, reqIDCounter>>
      BY <1>7 DEF IgnoreOther, SetResponse
    <3>2. QED
      BY <3>1, Zenon DEF Newest
  <2>3. QED
    BY <2>1, <2>2, ThreadsRest
<1>8. ASSUME SetOwn
      PROVE  Goal'
  <2>1. UNCHANGED <<msg, msgs, informed, rawRequest, tLock, pc>>
    BY <1>8 DEF SetOwn, SetResponse, data, thread
  <2>2. Newest' = Newest
    <3>1. UNCHANGED <<msgTask, reqIDCounter>>
      BY <1>8 DEF SetOwn, SetResponse
    <3>2. QED
      BY <3>1, Zenon DEF Newest
  <2>3. QED
    BY <2>1, <2>2, ThreadsRest
<1>9. ASSUME NEW k \in Requests, NEW what \in UserResponses, loc_eng_ni_respond(k, what)
      PROVE  Goal'
  <2>1. UNCHANGED <<msg, msgs, informed, rawRequest, tLock, pc>>
    BY <1>9 DEF loc_eng_ni_respond, data, thread
  <2>2. Newest' = Newest
    <3>1. UNCHANGED <<msgTask, reqIDCounter>>
      BY <1>9 DEF loc_eng_ni_respond
    <3>2. QED
      BY <3>1, Zenon DEF Newest
  <2>3. QED
    BY <2>1, <2>2, ThreadsRest
<1>10. ASSUME NEW k \in Requests, ni_thread_proc(k)
      PROVE  Goal'
  <2>1. UNCHANGED <<msg, msgs, informed, rawRequest, reqIDCounter, msgTask>>
    BY <1>10 DEF ni_thread_proc
  <2>2. pc[k] = "start" /\ (pc' = [pc EXCEPT ![k] = "check"] \/ pc' = [pc EXCEPT ![k] = "wait"])
    BY <1>10 DEF ni_thread_proc, TakeResponse, Goto
  <2>3. \A s \in Sessions : tLock[s] \notin {NULL, k} => tLock'[s] = tLock[s]
    <3>1. \/ tLock' = tLock
          \/ tLock[session[k]] = NULL /\ tLock' = [tLock EXCEPT ![session[k]] = k]
      BY <1>10 DEF ni_thread_proc, TakeResponse
    <3>2. QED
      BY <1>a, <3>1
  <2>4. QED
    BY <2>1, <2>2, <2>3, ThreadMoves
<1>11. ASSUME NEW k \in Requests, Signalled(k)
      PROVE  Goal'
  <2>1. UNCHANGED <<msg, msgs, informed, rawRequest, reqIDCounter, msgTask>>
    BY <1>11 DEF Signalled
  <2>2. pc[k] = "wait" /\ (pc' = [pc EXCEPT ![k] = "check"])
    BY <1>11 DEF Signalled, TakeResponse, Goto
  <2>3. \A s \in Sessions : tLock[s] \notin {NULL, k} => tLock'[s] = tLock[s]
    <3>1. \/ tLock' = tLock
          \/ tLock[session[k]] = NULL /\ tLock' = [tLock EXCEPT ![session[k]] = k]
      BY <1>11 DEF Signalled, TakeResponse
    <3>2. QED
      BY <1>a, <3>1
  <2>4. QED
    BY <2>1, <2>2, <2>3, ThreadMoves
<1>12. ASSUME NEW k \in Requests, TimedOut(k)
      PROVE  Goal'
  <2>1. UNCHANGED <<msg, msgs, informed, rawRequest, reqIDCounter, msgTask>>
    BY <1>12 DEF TimedOut
  <2>2. pc[k] = "wait" /\ (pc' = [pc EXCEPT ![k] = "check"])
    BY <1>12 DEF TimedOut, TakeResponse, Goto
  <2>3. \A s \in Sessions : tLock[s] \notin {NULL, k} => tLock'[s] = tLock[s]
    <3>1. \/ tLock' = tLock
          \/ tLock[session[k]] = NULL /\ tLock' = [tLock EXCEPT ![session[k]] = k]
      BY <1>12 DEF TimedOut, TakeResponse
    <3>2. QED
      BY <1>a, <3>1
  <2>4. QED
    BY <2>1, <2>2, <2>3, ThreadMoves
<1>13. ASSUME NEW k \in Requests, CheckRequest(k)
      PROVE  Goal'
  <2>1. UNCHANGED <<msg, msgs, informed, rawRequest, reqIDCounter, msgTask>>
    BY <1>13 DEF CheckRequest, data
  <2>2. pc[k] = "check" /\ (pc' = [pc EXCEPT ![k] = "reset"] \/ pc' = [pc EXCEPT ![k] = "drop"] \/ pc' = [pc EXCEPT ![k] = "make"])
    BY <1>13 DEF CheckRequest, Goto
  <2>3. \A s \in Sessions : tLock[s] \notin {NULL, k} => tLock'[s] = tLock[s]
    <3>1. tLock' = tLock \/ tLock' = [tLock EXCEPT ![session[k]] = NULL]
      BY <1>13 DEF CheckRequest
    <3>2. tLock[session[k]] = k
      BY <1>c, <2>2 DEF LockedAt
    <3>3. QED
      BY <1>a, <3>1, <3>2
  <2>4. QED
    BY <2>1, <2>2, <2>3, ThreadMoves
<1>14. ASSUME NEW k \in Requests, DropRequest(k)
      PROVE  Goal'
  <2>1. UNCHANGED <<msg, msgs, informed, rawRequest, reqIDCounter, msgTask>>
    BY <1>14 DEF DropRequest, data
  <2>2. pc[k] = "drop" /\ (pc' = [pc EXCEPT ![k] = "clear"])
    BY <1>14 DEF DropRequest, Goto
  <2>3. \A s \in Sessions : tLock[s] \notin {NULL, k} => tLock'[s] = tLock[s]
    BY <1>14 DEF DropRequest
  <2>4. QED
    BY <2>1, <2>2, <2>3, ThreadMoves
<1>15. ASSUME NEW k \in Requests, EndSession(k)
      PROVE  Goal'
  <2>1. /\ UNCHANGED <<msg, msgs, informed, session, reqIDCounter, msgTask>>
        /\ pc[k] = "clear" /\ pc' = [pc EXCEPT ![k] = "reset"]
        /\ rawRequest' = [rawRequest EXCEPT ![session[k]] = NULL]
        /\ tLock' = [tLock EXCEPT ![session[k]] = NULL]
    BY <1>15 DEF EndSession, Goto
  <2>2. Newest' = Newest
    BY <2>1, Zenon DEF Newest
  <2>3. Newest' >= Newest
    BY <2>2, NewestNat
  <2>4. \A j \in Requests : pc[j] \in {"clear", "reset", "send"} =>
                              pc'[j] \in {"clear", "reset", "send"}
    BY <1>a, <2>1
  <2>5. rawRequest'[session[k]] = NULL
    BY <1>a, <2>1
  <2>6. ASSUME NEW s \in Sessions, s # session[k]
        PROVE  /\ rawRequest'[s] = rawRequest[s]
               /\ tLock[s] # NULL /\ pc[tLock[s]] = "clear" =>
                    tLock'[s] = tLock[s] /\ pc'[tLock[s]] = "clear"
    <3>1. rawRequest'[s] = rawRequest[s] /\ tLock'[s] = tLock[s]
      BY <1>a, <2>1, <2>6
    <3>2. tLock[s] # NULL => tLock[s] \in Requests
      BY <1>a, Bounds DEF Requests, NULL
    <3>3. tLock[s] # NULL => tLock[s] # k
      BY <1>b, <2>6
    <3>4. QED
      BY <1>a, <2>1, <3>1, <3>2, <3>3
  <2>7. QED
    BY <2>1, <2>3, <2>4, <2>5, <2>6, NothingMoves
<1>16. ASSUME NEW k \in Requests, ResetId(k)
      PROVE  Goal'
  <2>1. UNCHANGED <<msg, msgs, informed, rawRequest, reqIDCounter, msgTask>>
    BY <1>16 DEF ResetId
  <2>2. pc[k] = "reset" /\ (pc' = [pc EXCEPT ![k] = "send"])
    BY <1>16 DEF ResetId, Goto
  <2>3. \A s \in Sessions : tLock[s] \notin {NULL, k} => tLock'[s] = tLock[s]
    BY <1>16 DEF ResetId
  <2>4. QED
    BY <2>1, <2>2, <2>3, ThreadMoves
<1>17. CASE UNCHANGED vars
  <2>1. UNCHANGED <<msg, msgs, informed, rawRequest, tLock, pc>>
    BY <1>17 DEF vars, data, thread
  <2>2. Newest' = Newest
    <3>1. UNCHANGED <<msgTask, reqIDCounter>>
      BY <1>17 DEF vars, data, thread
    <3>2. QED
      BY <3>1, Zenon DEF Newest
  <2>3. QED
    BY <2>1, <2>2, ThreadsRest
<1>18. ASSUME informNiResponse
       PROVE  Goal'
  <2>1. /\ Len(msgs) \in Nat \ {0} /\ Len(informed) \in Nat
        /\ Len(msgs') = Len(msgs) - 1 /\ Len(informed') = Len(informed) + 1
        /\ \A i \in 1..Len(msgs') : msgs'[i] = msgs[i + 1]
        /\ \A i \in 1..Len(informed) : informed'[i] = informed[i]
        /\ informed'[Len(informed) + 1] = msgs[1]
    <3>1. msgs \in Seq(Messages) /\ informed \in Seq(Messages)
      BY DEF InformedInv, IInv, TypeOK, Types
    <3>2. msgs # <<>> /\ msgs' = Tail(msgs) /\ informed' = Append(informed, Head(msgs))
      BY <1>18 DEF informNiResponse
    <3>3. Len(msgs) \in Nat \ {0} /\ Len(informed) \in Nat
      BY <3>1, <3>2
    <3>4. Len(Tail(msgs)) = Len(msgs) - 1
      BY <3>1, <3>2
    <3>5. \A i \in 1..Len(Tail(msgs)) : Tail(msgs)[i] = msgs[i + 1]
      BY <3>1, <3>2
    <3>6. Head(msgs) = msgs[1]
      BY <3>1, <3>2
    <3> DEFINE m == Head(msgs)
    <3>7. m \in Messages
      BY <3>1, <3>2
    <3>8. m = msgs[1]
      BY <3>6
    <3>9. informed' = Append(informed, m)
      BY <3>2
    <3> HIDE DEF m
    <3>10. Len(informed') = Len(informed) + 1
      BY <3>1, <3>7, <3>9
    <3>11. \A i \in 1..Len(informed) : informed'[i] = informed[i]
      BY <3>1, <3>7, <3>9
    <3>12. informed'[Len(informed) + 1] = m
      BY <3>1, <3>7, <3>9
    <3>13. QED
      BY <3>2, <3>3, <3>4, <3>5, <3>8, <3>10, <3>11, <3>12
  <2>2. UNCHANGED <<rawRequest, tLock, pc, msg, reqIDCounter, msgTask>>
    BY <1>18 DEF informNiResponse, data, thread
  <2>3. \A k : Flying(k)' => Flying(k)
    <3> SUFFICES ASSUME NEW k, Flying(k)'
                 PROVE  Flying(k)
      OBVIOUS
    <3>1. CASE \E j \in Requests : InThread(j, k)'
      BY <2>2, <3>1 DEF Flying, InThread
    <3>2. CASE \E i \in 1..Len(msgs') : InQueue(i, k)'
      <4>1. PICK i \in 1..Len(msgs') : InQueue(i, k)'
        BY <3>2
      <4>2. i + 1 \in 1..Len(msgs) /\ InQueue(i + 1, k)
        BY <2>1, <4>1 DEF InQueue
      <4>3. QED
        BY <4>2 DEF Flying
    <3>3. CASE \E i \in 1..Len(informed') : AtModem(i, k)'
      <4>1. PICK i \in 1..Len(informed') : AtModem(i, k)'
        BY <3>3
      <4>2. CASE i \in 1..Len(informed)
        BY <2>1, <4>1, <4>2 DEF Flying, AtModem
      <4>3. CASE i = Len(informed) + 1
        <5>1. 1 \in 1..Len(msgs) /\ InQueue(1, k)
          BY <2>1, <4>1, <4>3 DEF InQueue, AtModem
        <5>2. QED
          BY <5>1 DEF Flying
      <4>4. QED
        BY <2>1, <4>1, <4>2, <4>3
    <3>4. QED
      BY <3>1, <3>2, <3>3 DEF Flying
  <2>4. MessageInv' /\ SessionInv'
    BY <2>2, <2>3 DEF InformedInv, MessageInv, SessionInv
  <2>5. FlightInv'
    <3> SUFFICES ASSUME NEW k \in Requests
                 PROVE  /\ Flying(k)' => k <= Newest'
                        /\ \A i, j \in Requests : InThread(i, k)' /\ InThread(j, k)' => i = j
                        /\ \A i, j \in 1..Len(msgs') : InQueue(i, k)' /\ InQueue(j, k)' => i = j
                        /\ \A i, j \in 1..Len(informed') : AtModem(i, k)' /\ AtModem(j, k)' => i = j
                        /\ \A i \in Requests, j \in 1..Len(msgs') : ~(InThread(i, k)' /\ InQueue(j, k)')
                        /\ \A i \in Requests, j \in 1..Len(informed') : ~(InThread(i, k)' /\ AtModem(j, k)')
                        /\ \A i \in 1..Len(msgs'), j \in 1..Len(informed') : ~(InQueue(i, k)' /\ AtModem(j, k)')
      BY DEF FlightInv
    <3>1. Flying(k)' => k <= Newest'
      BY <2>2, <2>3 DEF InformedInv, FlightInv, Newest
    <3>2. /\ \A i, j \in Requests : InThread(i, k) /\ InThread(j, k) => i = j
          /\ \A i, j \in 1..Len(msgs) : InQueue(i, k) /\ InQueue(j, k) => i = j
          /\ \A i, j \in 1..Len(informed) : AtModem(i, k) /\ AtModem(j, k) => i = j
          /\ \A i \in Requests, j \in 1..Len(msgs) : ~(InThread(i, k) /\ InQueue(j, k))
          /\ \A i \in Requests, j \in 1..Len(informed) : ~(InThread(i, k) /\ AtModem(j, k))
          /\ \A i \in 1..Len(msgs), j \in 1..Len(informed) : ~(InQueue(i, k) /\ AtModem(j, k))
      BY DEF InformedInv, FlightInv
    <3>3. \A i : InThread(i, k)' <=> InThread(i, k)
      BY <2>2 DEF InThread
    <3>4. \A i \in 1..Len(msgs') :
            i + 1 \in 1..Len(msgs) /\ i + 1 # 1 /\ (InQueue(i, k)' <=> InQueue(i + 1, k))
      BY <2>1 DEF InQueue
    <3>5. \A i \in 1..Len(informed') :
            \/ i \in 1..Len(informed) /\ (AtModem(i, k)' <=> AtModem(i, k))
            \/ i = Len(informed) + 1 /\ (AtModem(i, k)' <=> InQueue(1, k))
      BY <2>1 DEF AtModem, InQueue
    <3>6. 1 \in 1..Len(msgs) /\ Len(informed) + 1 \notin 1..Len(informed)
      BY <2>1
    <3>7. \A i, j \in 1..Len(msgs') : InQueue(i, k)' /\ InQueue(j, k)' => i = j
      BY <3>2, <3>4
    <3>8. \A i, j \in 1..Len(informed') : AtModem(i, k)' /\ AtModem(j, k)' => i = j
      BY <3>2, <3>5, <3>6
    <3>9. \A i \in Requests, j \in 1..Len(msgs') : ~(InThread(i, k)' /\ InQueue(j, k)')
      BY <3>2, <3>3, <3>4
    <3>10. \A i \in Requests, j \in 1..Len(informed') : ~(InThread(i, k)' /\ AtModem(j, k)')
      BY <3>2, <3>3, <3>5, <3>6
    <3>11. \A i \in 1..Len(msgs'), j \in 1..Len(informed') : ~(InQueue(i, k)' /\ AtModem(j, k)')
      BY <3>2, <3>4, <3>5, <3>6
    <3>12. QED
      BY <3>1, <3>2, <3>3, <3>7, <3>8, <3>9, <3>10, <3>11
  <2>6. QED
    BY <2>4, <2>5
<1>19. ASSUME NEW k \in Requests, MakeMessage(k)
       PROVE  Goal'
  <2> DEFINE r == rawRequest[session[k]]
  <2>1. /\ pc[k] = "make" /\ pc' = [pc EXCEPT ![k] = "clear"]
        /\ \A j \in Requests : msg'[j].request = IF j = k THEN r ELSE msg[j].request
        /\ UNCHANGED <<rawRequest, tLock, session, reqIDCounter, msgTask, msgs, informed>>
        /\ session[k] \in Sessions /\ r \in 0..MaxRequests
        /\ pc \in [Requests -> {"none", "start", "wait", "reset", "send", "done"} \cup LockedAt]
    BY <1>19 DEF MakeMessage, Goto, data, InformedInv, IInv, TypeOK, Types
  <2>2. tLock[session[k]] = k
    BY <2>1 DEF InformedInv, IInv, TypeOK, LockedAt
  <2>3. msg[k].request = NULL
    BY <2>1 DEF InformedInv, MessageInv
  <2>4. r # NULL => ~Flying(r)
    BY <2>1, <2>2 DEF InformedInv, SessionInv
  <2>5. \A x : x # NULL => (Flying(x)' <=> Flying(x) \/ x = r)
    BY <2>1, <2>3 DEF Flying, InThread, InQueue, AtModem
  <2>6. MessageInv'
    BY <2>1 DEF InformedInv, MessageInv
  <2>7. SessionInv'
    <3> SUFFICES ASSUME NEW s \in Sessions, rawRequest[s] # NULL, Flying(rawRequest[s])'
                 PROVE  tLock[s] # NULL /\ pc'[tLock[s]] = "clear"
                          /\ msg'[tLock[s]].request = rawRequest[s]
      BY <2>1 DEF SessionInv
    <3>1. CASE rawRequest[s] = r
      <4>1. s = session[k]
        BY <2>1, <3>1 DEF InformedInv, IInv, EmergencyFirst, Sessions
      <4>2. QED
        BY <2>1, <2>2, <3>1, <4>1 DEF Requests, NULL
    <3>2. CASE rawRequest[s] # r
      <4>1. tLock[s] # NULL /\ pc[tLock[s]] = "clear" /\ msg[tLock[s]].request = rawRequest[s]
        BY <2>1, <2>5, <3>2 DEF InformedInv, SessionInv
      <4>2. tLock[s] \in Requests
        BY <1>a, <4>1, Bounds DEF Requests, NULL
      <4>3. QED
        BY <2>1, <4>1, <4>2
    <3>3. QED
      BY <3>1, <3>2
  <2>8. FlightInv'
    <3> SUFFICES ASSUME NEW x \in Requests
                 PROVE  /\ Flying(x)' => x <= Newest'
                        /\ \A i, j \in Requests : InThread(i, x)' /\ InThread(j, x)' => i = j
                        /\ \A i, j \in 1..Len(msgs') : InQueue(i, x)' /\ InQueue(j, x)' => i = j
                        /\ \A i, j \in 1..Len(informed') : AtModem(i, x)' /\ AtModem(j, x)' => i = j
                        /\ \A i \in Requests, j \in 1..Len(msgs') : ~(InThread(i, x)' /\ InQueue(j, x)')
                        /\ \A i \in Requests, j \in 1..Len(informed') : ~(InThread(i, x)' /\ AtModem(j, x)')
                        /\ \A i \in 1..Len(msgs'), j \in 1..Len(informed') : ~(InQueue(i, x)' /\ AtModem(j, x)')
      BY DEF FlightInv
    <3>1. x # NULL
      BY DEF Requests, NULL
    <3>2. Flying(x)' => x <= Newest'
      BY <2>1, <2>5, <3>1 DEF InformedInv, IInv, RawBound, FlightInv, Newest
    <3>3. CASE x = r
      <4>1. ~Flying(x)
        BY <2>4, <3>1, <3>3
      <4>2. \A j \in Requests : InThread(j, x)' => j = k
        BY <2>1, <4>1 DEF Flying, InThread
      <4>3. /\ \A i \in 1..Len(msgs') : ~InQueue(i, x)'
            /\ \A i \in 1..Len(informed') : ~AtModem(i, x)'
        BY <2>1, <4>1 DEF Flying, InQueue, AtModem
      <4>4. QED
        BY <3>2, <4>2, <4>3
    <3>4. CASE x # r
      <4>1. \A j \in Requests : InThread(j, x)' => InThread(j, x)
        BY <2>1, <3>4 DEF InThread
      <4>2. QED
        BY <2>1, <3>2, <4>1 DEF InformedInv, FlightInv, InQueue, AtModem
    <3>5. QED
      BY <3>3, <3>4
  <2>9. QED
    BY <2>6, <2>7, <2>8
<1>20. ASSUME NEW k \in Requests, SendMessage(k)
       PROVE  Goal'
  <2> DEFINE q == msg[k].request
  <2>1. /\ pc[k] = "send" /\ pc' = [pc EXCEPT ![k] = "done"]
        /\ UNCHANGED <<rawRequest, tLock, session, reqIDCounter, msgTask, informed>>
        /\ msg' = [msg EXCEPT ![k] = NoMessage]
        /\ pc \in [Requests -> {"none", "start", "wait", "reset", "send", "done"} \cup LockedAt]
        /\ msg \in [Requests -> Messages] /\ msgs \in Seq(Messages)
    BY <1>20 DEF SendMessage, Goto, data, InformedInv, IInv, TypeOK, Types
  <2>2. \A j \in Requests : msg'[j].request = IF j = k THEN NULL ELSE msg[j].request
    BY <2>1 DEF NoMessage
  <2>3. \/ q = NULL /\ msgs' = msgs
        \/ msgs' = Append(msgs, msg[k])
    BY <1>20 DEF SendMessage, NoMessage
  <2>4. \/ q = NULL /\ msgs' = msgs
        \/ /\ Len(msgs) \in Nat /\ Len(msgs') = Len(msgs) + 1
           /\ \A i \in 1..Len(msgs) : msgs'[i] = msgs[i]
           /\ msgs'[Len(msgs) + 1].request = q
    BY <2>1, <2>3
  <2>5. \A x : x # NULL /\ Flying(x)' => Flying(x)
    BY <2>1, <2>2, <2>4 DEF Flying, InThread, InQueue, AtModem
  <2>6. MessageInv'
    BY <2>1, <2>2 DEF InformedInv, MessageInv
  <2>7. SessionInv'
    <3> SUFFICES ASSUME NEW s \in Sessions, rawRequest[s] # NULL, Flying(rawRequest[s])'
                 PROVE  tLock[s] # NULL /\ pc'[tLock[s]] = "clear"
                          /\ msg'[tLock[s]].request = rawRequest[s]
      BY <2>1 DEF SessionInv
    <3>1. tLock[s] # NULL /\ pc[tLock[s]] = "clear" /\ msg[tLock[s]].request = rawRequest[s]
      BY <2>1, <2>5 DEF InformedInv, SessionInv
    <3>2. tLock[s] \in Requests
      BY <1>a, <3>1, Bounds DEF Requests, NULL
    <3>3. QED
      BY <2>1, <2>2, <3>1, <3>2
  <2>8. FlightInv'
    <3> SUFFICES ASSUME NEW x \in Requests
                 PROVE  /\ Flying(x)' => x <= Newest'
                        /\ \A i, j \in Requests : InThread(i, x)' /\ InThread(j, x)' => i = j
                        /\ \A i, j \in 1..Len(msgs') : InQueue(i, x)' /\ InQueue(j, x)' => i = j
                        /\ \A i, j \in 1..Len(informed') : AtModem(i, x)' /\ AtModem(j, x)' => i = j
                        /\ \A i \in Requests, j \in 1..Len(msgs') : ~(InThread(i, x)' /\ InQueue(j, x)')
                        /\ \A i \in Requests, j \in 1..Len(informed') : ~(InThread(i, x)' /\ AtModem(j, x)')
                        /\ \A i \in 1..Len(msgs'), j \in 1..Len(informed') : ~(InQueue(i, x)' /\ AtModem(j, x)')
      BY DEF FlightInv
    <3>1. x # NULL
      BY DEF Requests, NULL
    <3>2. /\ \A i, j \in Requests : InThread(i, x) /\ InThread(j, x) => i = j
          /\ \A i, j \in 1..Len(msgs) : InQueue(i, x) /\ InQueue(j, x) => i = j
          /\ \A i, j \in 1..Len(informed) : AtModem(i, x) /\ AtModem(j, x) => i = j
          /\ \A i \in Requests, j \in 1..Len(msgs) : ~(InThread(i, x) /\ InQueue(j, x))
          /\ \A i \in Requests, j \in 1..Len(informed) : ~(InThread(i, x) /\ AtModem(j, x))
          /\ \A i \in 1..Len(msgs), j \in 1..Len(informed) : ~(InQueue(i, x) /\ AtModem(j, x))
      BY DEF InformedInv, FlightInv
    <3>3. Flying(x)' => x <= Newest'
      BY <2>1, <2>5, <3>1 DEF InformedInv, FlightInv, Newest
    <3>4. \A i \in Requests : InThread(i, x)' => i # k /\ InThread(i, x)
      BY <2>2, <3>1 DEF InThread
    <3>5. \A i : AtModem(i, x)' <=> AtModem(i, x)
      BY <2>1 DEF AtModem
    <3>6. \A i \in 1..Len(msgs') :
            \/ i \in 1..Len(msgs) /\ (InQueue(i, x)' <=> InQueue(i, x))
            \/ i = Len(msgs) + 1 /\ (InQueue(i, x)' <=> InThread(k, x))
      BY <2>4 DEF InQueue, InThread
    <3>7. Len(msgs) + 1 \notin 1..Len(msgs)
      BY <2>1
    <3>8. \A i, j \in Requests : InThread(i, x)' /\ InThread(j, x)' => i = j
      BY <3>2, <3>4
    <3>9. \A i, j \in 1..Len(msgs') : InQueue(i, x)' /\ InQueue(j, x)' => i = j
      BY <3>2, <3>6, <3>7
    <3>10. \A i \in Requests, j \in 1..Len(msgs') : ~(InThread(i, x)' /\ InQueue(j, x)')
      BY <3>2, <3>4, <3>6
    <3>11. /\ \A i \in Requests, j \in 1..Len(informed') : ~(InThread(i, x)' /\ AtModem(j, x)')
           /\ \A i, j \in 1..Len(informed') : AtModem(i, x)' /\ AtModem(j, x)' => i = j
      BY <2>1, <3>2, <3>4, <3>5
    <3>12. \A i \in 1..Len(msgs'), j \in 1..Len(informed') : ~(InQueue(i, x)' /\ AtModem(j, x)')
      BY <2>1, <3>2, <3>5, <3>6
    <3>13. QED
      BY <3>3, <3>8, <3>9, <3>10, <3>11, <3>12
  <2>9. QED
    BY <2>6, <2>7, <2>8
<1>21. QED
  BY <1>1, <1>2, <1>3, <1>4, <1>5, <1>6, <1>7, <1>8, <1>9, <1>10, <1>11, <1>12, <1>13,
     <1>14, <1>15, <1>16, <1>17, <1>18, <1>19, <1>20
     DEF Next, MsgTask, User, Thread

LEMMA InformedInductive == Spec => []InformedInv
<1>1. Init => InformedInv
  <2> SUFFICES ASSUME Init PROVE InformedInv
    OBVIOUS
  <2>1. IInv
    BY InitInv
  <2>2. /\ \A s \in Sessions : rawRequest[s] = NULL
        /\ \A j \in Requests : msg[j].request = NULL
        /\ Len(msgs) = 0 /\ Len(informed) = 0
    BY DEF Init, NoMessage
  <2>3. \A k \in Requests : ~Flying(k) /\ k # NULL
    BY <2>2 DEF Flying, InThread, Requests, NULL
  <2>4. QED
    BY <2>1, <2>2, <2>3 DEF InformedInv, MessageInv, SessionInv, FlightInv, Flying, InThread
<1>2. ASSUME InformedInv, [Next]_vars PROVE InformedInv'
  <2>1. IInv'
    BY <1>2, LockStep, TypeStep, RestStep DEF InformedInv, IInv, TypeOK
  <2>2. QED
    BY <1>2, <2>1, FlightStep DEF InformedInv, IInv
<1>3. QED
  BY <1>1, <1>2, PTL DEF Spec

(* Whatever the number of requests and restarts, the modem is told about a *)
(* request at most once: the session is read and cleared under tLock       *)
(* (loc_eng_ni.cpp:245-257).                                               *)
THEOREM NiInformedOnce == Spec => []InformedOnce
<1>1. InformedInv => InformedOnce
  <2> SUFFICES ASSUME InformedInv, NEW i \in DOMAIN informed, NEW j \in DOMAIN informed,
                      informed[i].request = informed[j].request, informed[i].request # NULL
               PROVE  i = j
    BY DEF InformedOnce
  <2>1. informed \in Seq(Messages)
    BY DEF InformedInv, IInv, TypeOK, Types
  <2>2. i \in 1..Len(informed) /\ j \in 1..Len(informed) /\ informed[i] \in Messages
    BY <2>1
  <2>3. informed[i].request \in Requests
    BY <2>2, Bounds DEF Messages, Requests, NULL
  <2>4. QED
    BY <2>2, <2>3 DEF InformedInv, FlightInv, AtModem
<1>2. QED
  BY <1>1, InformedInductive, PTL

-----------------------------------------------------------------------------
(***************************************************************************)
(* The payload of a request.  Who has it follows the request, so that the  *)
(* invariant of its flight says that nobody else has it when it is freed.  *)
(***************************************************************************)
\* Until the modem restarts: a request's payload is there as soon as the request
\* is and is freed once, by who had it last.  A thread that has let its payload
\* go has yet to clear its session.
PayloadInv(k) ==
  /\ memory[k] # "broken"
  /\ memory[k] = "none" <=> k > Newest
  /\ memory[k] = "live" =>
       \/ \E s \in Sessions : rawRequest[s] = k
       \/ \E j \in Requests : InThread(j, k)
       \/ \E i \in 1..Len(msgs) : InQueue(i, k)
  /\ memory[k] = "freed" =>
       /\ \A j \in Requests : ~InThread(j, k)
       /\ \A i \in 1..Len(msgs) : ~InQueue(i, k)
       /\ \A s \in Sessions : rawRequest[s] = k => tLock[s] # NULL /\ pc[tLock[s]] = "clear"

\* the request that a thread found in its session stays until the thread clears it
HolderInv(j) ==
  pc[j] \in {"make", "drop", "clear"} =>
    LET r == rawRequest[session[j]]
    IN r # NULL /\ (pc[j] = "clear" /\ memory[r] = "live" => msg[j].request = r)

OwnedInv ==
  restarts = 0 =>
    /\ msgTask.at \in {"idle", "notify"}
    /\ \A k \in Requests : PayloadInv(k)
    /\ \A j \in Requests : HolderInv(j)

\* the types that the steps of a payload need
LEMMA PayloadTypes ==
  ASSUME InformedInv
  PROVE  /\ pc \in [Requests -> {"none", "start", "wait", "reset", "send", "done"} \cup LockedAt]
         /\ tLock \in [Sessions -> 0..MaxRequests] /\ rawRequest \in [Sessions -> 0..MaxRequests]
         /\ session \in [Requests -> Sessions] /\ msg \in [Requests -> Messages]
         /\ memory \in [Requests -> {"none", "live", "freed", "broken"}] /\ msgs \in Seq(Messages)
         /\ \A k \in Requests : k # NULL /\ k \in Nat
         /\ \A s \in Sessions : /\ tLock[s] # NULL => tLock[s] \in Requests /\ session[tLock[s]] = s
                                /\ rawRequest[s] # NULL => rawRequest[s] \in Requests
<1>1. /\ pc \in [Requests -> {"none", "start", "wait", "reset", "send", "done"} \cup LockedAt]
      /\ tLock \in [Sessions -> 0..MaxRequests] /\ rawRequest \in [Sessions -> 0..MaxRequests]
      /\ session \in [Requests -> Sessions] /\ msg \in [Requests -> Messages]
      /\ memory \in [Requests -> {"none", "live", "freed", "broken"}] /\ msgs \in Seq(Messages)
  BY DEF InformedInv, IInv, TypeOK, Types
<1>2. \A k \in Requests : k # NULL /\ k \in Nat
  BY DEF Requests, NULL
<1>3. \A k \in 0..MaxRequests : k # NULL => k \in Requests
  BY Bounds DEF Requests, NULL
<1>4. \A s \in Sessions : tLock[s] # NULL => session[tLock[s]] = s
  BY DEF InformedInv, IInv, LockOwner
<1>5. QED
  BY <1>1, <1>2, <1>3, <1>4

\* payloads that a step leaves where they are
LEMMA PayloadsStay ==
  ASSUME \A k \in Requests : PayloadInv(k), UNCHANGED <<memory, msg, msgs, rawRequest>>,
         Newest' = Newest,
         \A s \in Sessions : tLock[s] # NULL /\ pc[tLock[s]] = "clear" =>
                               tLock'[s] = tLock[s] /\ pc'[tLock[s]] = "clear"
  PROVE  \A k \in Requests : PayloadInv(k)'
<1> SUFFICES ASSUME NEW k \in Requests PROVE PayloadInv(k)'
  OBVIOUS
<1>1. PayloadInv(k)
  OBVIOUS
<1>2. (memory[k] = "none" <=> k > Newest)'
  BY <1>1 DEF PayloadInv
<1>3. QED
  BY <1>1, <1>2 DEF PayloadInv, InThread, InQueue

\* a thread that a step leaves alone, or takes away from its session's request
LEMMA HolderStays ==
  ASSUME NEW j \in Requests, HolderInv(j), UNCHANGED <<session[j], msg[j], rawRequest[session[j]]>>,
         pc'[j] \in {"make", "drop", "clear"} => pc'[j] = pc[j],
         rawRequest[session[j]] # NULL /\ memory'[rawRequest[session[j]]] = "live" =>
           memory[rawRequest[session[j]]] = "live"
  PROVE  HolderInv(j)'
BY DEF HolderInv

\* steps of a thread k that touch no payload and clear no session
LEMMA PlaceMoves ==
  ASSUME InformedInv, \A j \in Requests : PayloadInv(j) /\ HolderInv(j), NEW k \in Requests, NEW where,
         UNCHANGED <<memory, msg, msgs, rawRequest, session, reqIDCounter, msgTask>>,
         pc' = [pc EXCEPT ![k] = where], pc[k] # "clear",
         \A s \in Sessions : tLock[s] \notin {NULL, k} => tLock'[s] = tLock[s],
         where \in {"make", "drop"} => rawRequest[session[k]] # NULL,
         where # "clear"
  PROVE  \A j \in Requests : PayloadInv(j)' /\ HolderInv(j)'
<1>1. \A j \in Requests : pc'[j] = IF j = k THEN where ELSE pc[j]
  BY PayloadTypes
<1>2. ASSUME NEW s \in Sessions, tLock[s] # NULL, pc[tLock[s]] = "clear"
      PROVE  tLock'[s] = tLock[s] /\ pc'[tLock[s]] = "clear"
  <2>1. tLock[s] \in Requests /\ tLock[s] # k
    BY <1>2, PayloadTypes
  <2>2. QED
    BY <1>1, <1>2, <2>1
<1>3. Newest' = Newest
  BY DEF Newest
<1>4. \A j \in Requests : PayloadInv(j)'
  BY <1>2, <1>3, PayloadsStay
<1>5. ASSUME NEW j \in Requests PROVE HolderInv(j)'
  <2>1. CASE j = k
    BY <1>1, <2>1 DEF HolderInv
  <2>2. CASE j # k
    BY <1>1, <2>2, HolderStays
  <2>3. QED
    BY <2>1, <2>2
<1>6. QED
  BY <1>4, <1>5

\* a request is accepted: its payload comes with it
LEMMA AcceptStep ==
  ASSUME InformedInv, \A j \in Requests : PayloadInv(j) /\ HolderInv(j), NEW s \in Sessions,
         loc_eng_ni_request_handler(s)
  PROVE  \A j \in Requests : PayloadInv(j)' /\ HolderInv(j)'
<1> DEFINE n == reqIDCounter + 1
<1>1. /\ rawRequest[s] = NULL /\ rawRequest' = [rawRequest EXCEPT ![s] = n]
      /\ memory' = [memory EXCEPT ![n] = "live"]
      /\ session' = [session EXCEPT ![n] = s]
      /\ UNCHANGED <<pc, msg, msgs, tLock, reqIDCounter>>
  BY DEF loc_eng_ni_request_handler, Sessions
<1>2. Newest = reqIDCounter /\ Newest' = n
  <2>1. msgTask.at # "notify" /\ msgTask'.at = "notify"
    BY DEF loc_eng_ni_request_handler, Idle, SetMsgTask, At
  <2>2. QED
    BY <1>1, <2>1 DEF Newest
<1>3. n \in Requests /\ reqIDCounter \in Nat
  BY Bounds DEF loc_eng_ni_request_handler, Requests, InformedInv, IInv, TypeOK, Types
<1>4. n > Newest /\ \A j \in Requests \ {n} : j > Newest <=> j > Newest'
  <2>1. \A j \in Requests \ {n} : j > reqIDCounter <=> j > n
    BY <1>3 DEF Requests
  <2>2. QED
    BY <1>2, <1>3, <2>1
<1>5. memory[n] = "none" /\ pc[n] = "none"
  <2>1. memory[n] = "none"
    BY <1>3, <1>4 DEF PayloadInv
  <2>2. pc[n] = "none"
    BY <1>2, <1>3, <1>4 DEF InformedInv, IInv, Fresh
  <2>3. QED
    BY <2>1, <2>2
<1> HIDE DEF n
<1>6. /\ memory'[n] = "live" /\ session'[n] = s
      /\ \A j \in Requests \ {n} : memory'[j] = memory[j] /\ session'[j] = session[j]
      /\ rawRequest'[s] = n /\ \A t \in Sessions \ {s} : rawRequest'[t] = rawRequest[t]
  BY <1>1, <1>3, PayloadTypes
<1>7. ASSUME NEW j \in Requests PROVE PayloadInv(j)'
  <2>1. CASE j = n
    <3>1. ~(j > Newest')
      BY <1>2, <1>3, <2>1 DEF n
    <3>2. \E t \in Sessions : rawRequest'[t] = j
      BY <1>6, <2>1
    <3>3. QED
      BY <1>6, <2>1, <3>1, <3>2 DEF PayloadInv
  <2>2. CASE j # n
    <3>1. \A t \in Sessions : rawRequest'[t] = j <=> rawRequest[t] = j
      BY <1>1, <1>6, <2>2, PayloadTypes
    <3>2. (memory[j] = "none" <=> j > Newest)'
      BY <1>4, <1>6, <2>2 DEF PayloadInv
    <3>3. memory'[j] = memory[j] /\ PayloadInv(j)
      BY <1>6, <2>2
    <3>4. QED
      BY <1>1, <3>1, <3>2, <3>3 DEF PayloadInv, InThread, InQueue
  <2>3. QED
    BY <2>1, <2>2
<1>8. ASSUME NEW j \in Requests PROVE HolderInv(j)'
  <2>1. CASE j = n
    BY <1>1, <1>5, <2>1 DEF HolderInv
  <2>2. CASE j # n /\ session[j] = s
    BY <1>1, <1>6, <2>2 DEF HolderInv
  <2>3. CASE j # n /\ session[j] # s
    <3>1. session'[j] = session[j] /\ rawRequest'[session[j]] = rawRequest[session[j]]
      BY <1>6, <2>3, PayloadTypes
    <3>2. rawRequest[session[j]] # NULL /\ memory'[rawRequest[session[j]]] = "live" =>
            memory[rawRequest[session[j]]] = "live"
      <4>1. rawRequest[session[j]] # n
        <5>1. rawRequest[session[j]] <= Newest
          BY PayloadTypes DEF InformedInv, IInv, RawBound
        <5>2. QED
          BY <1>2, <1>3, <5>1 DEF n
      <4>2. QED
        BY <1>6, <4>1, PayloadTypes
    <3>3. QED
      BY <1>1, <3>1, <3>2, HolderStays
  <2>4. QED
    BY <2>1, <2>2, <2>3
<1>9. QED
  BY <1>7, <1>8

\* the modem is told, and the message frees the payload it had alone
LEMMA InformStep ==
  ASSUME InformedInv, \A j \in Requests : PayloadInv(j) /\ HolderInv(j), informNiResponse
  PROVE  \A j \in Requests : PayloadInv(j)' /\ HolderInv(j)'
<1> DEFINE q == msgs[1].request
<1>1. /\ Len(msgs) > 0 /\ msgs' = Tail(msgs)
      /\ UNCHANGED <<rawRequest, tLock, pc, msg, session, reqIDCounter, msgTask>>
  BY PayloadTypes DEF informNiResponse, data, thread
<1>2. \A j \in Requests : memory'[j] =
        IF j # q THEN memory[j] ELSE IF memory[j] = "live" THEN "freed" ELSE "broken"
  BY DEF informNiResponse, Free
<1>3. /\ Len(msgs) \in Nat /\ Len(msgs') = Len(msgs) - 1
      /\ \A i \in 1..Len(msgs') : i + 1 \in 1..Len(msgs) /\ msgs'[i] = msgs[i + 1]
  BY <1>1, PayloadTypes
<1>4. InQueue(1, q) /\ 1 \in 1..Len(msgs)
  BY <1>1, <1>3 DEF InQueue
<1>5. Newest' = Newest
  BY <1>1 DEF Newest
<1> HIDE DEF q
<1>6. q \in Requests =>
        /\ memory[q] = "live"
        /\ \A j \in Requests : ~InThread(j, q)
        /\ \A i \in 1..Len(msgs') : ~InQueue(i + 1, q)
        /\ \A s \in Sessions : rawRequest[s] # q
  <2> SUFFICES ASSUME q \in Requests PROVE
        /\ memory[q] = "live"
        /\ \A j \in Requests : ~InThread(j, q)
        /\ \A i \in 1..Len(msgs') : ~InQueue(i + 1, q)
        /\ \A s \in Sessions : rawRequest[s] # q
    OBVIOUS
  <2>1. Flying(q) /\ q <= Newest
    BY <1>4 DEF Flying, InformedInv, FlightInv
  <2>2. memory[q] = "live"
    <3>1. memory[q] # "freed" /\ memory[q] # "broken"
      BY <1>4 DEF PayloadInv
    <3>2. ~(q > Newest)
      <4>1. Newest \in Nat
        <5>1. reqIDCounter \in Nat
          BY Bounds DEF InformedInv, IInv, TypeOK, Types
        <5>2. QED
          BY <5>1 DEF Newest
      <4>2. QED
        BY <2>1, <4>1, PayloadTypes
    <3>3. QED
      BY <3>1, <3>2, PayloadTypes DEF PayloadInv
  <2>3. \A j \in Requests : ~InThread(j, q)
    BY <1>4 DEF InformedInv, FlightInv
  <2>4. ASSUME NEW i \in 1..Len(msgs') PROVE ~InQueue(i + 1, q)
    <3>1. i + 1 \in 1..Len(msgs) /\ i + 1 # 1
      BY <1>3
    <3>2. QED
      BY <1>4, <3>1 DEF InformedInv, FlightInv
  <2>5. \A s \in Sessions : rawRequest[s] # q
    BY <2>1, <2>3, PayloadTypes DEF InformedInv, SessionInv, InThread
  <2>6. QED
    BY <2>2, <2>3, <2>4, <2>5
<1>7. ASSUME NEW k \in Requests PROVE PayloadInv(k)'
  <2>0. PayloadInv(k)
    OBVIOUS
  <2>1. CASE k = q
    <3>1. memory'[k] = "freed"
      BY <1>2, <1>6, <2>1
    <3>2. \A j \in Requests : ~InThread(j, k)'
      BY <1>1, <1>6, <2>1 DEF InThread
    <3>3. \A i \in 1..Len(msgs') : ~InQueue(i, k)'
      BY <1>3, <1>6, <2>1 DEF InQueue
    <3>4. \A s \in Sessions : rawRequest'[s] # k
      BY <1>1, <1>6, <2>1
    <3>5. ~(k > Newest')
      BY <1>2, <1>5, <1>6, <2>0, <2>1 DEF PayloadInv
    <3>6. QED
      BY <3>1, <3>2, <3>3, <3>4, <3>5 DEF PayloadInv
  <2>2. CASE k # q
    <3>1. memory'[k] = memory[k]
      BY <1>2, <2>2
    <3>2. \A i \in 1..Len(msgs') : InQueue(i, k)' => \E h \in 1..Len(msgs) : InQueue(h, k)
      BY <1>3 DEF InQueue
    <3>3. (\E h \in 1..Len(msgs) : InQueue(h, k)) => \E i \in 1..Len(msgs') : InQueue(i, k)'
      <4> SUFFICES ASSUME NEW h \in 1..Len(msgs), InQueue(h, k)
                   PROVE  \E i \in 1..Len(msgs') : InQueue(i, k)'
        OBVIOUS
      <4>1. h # 1
        BY <2>2 DEF InQueue, q
      <4>2. h - 1 \in 1..Len(msgs') /\ (h - 1) + 1 = h
        BY <1>3, <4>1
      <4>3. InQueue(h - 1, k)'
        BY <1>3, <4>2 DEF InQueue
      <4>4. QED
        BY <4>2, <4>3
    <3>4. \A j \in Requests : InThread(j, k)' <=> InThread(j, k)
      BY <1>1 DEF InThread
    <3>5. (memory[k] = "none" <=> k > Newest)'
      BY <1>5, <2>0, <3>1 DEF PayloadInv
    <3>6. QED
      BY <1>1, <2>0, <3>1, <3>2, <3>3, <3>4, <3>5 DEF PayloadInv
  <2>3. QED
    BY <2>1, <2>2
<1>8. ASSUME NEW j \in Requests PROVE HolderInv(j)'
  <2>1. rawRequest[session[j]] # NULL /\ memory'[rawRequest[session[j]]] = "live" =>
          memory[rawRequest[session[j]]] = "live"
    BY <1>2, PayloadTypes
  <2>2. QED
    BY <1>1, <2>1, HolderStays
<1>9. QED
  BY <1>7, <1>8

\* a thread takes the payload of its session's request into its message
LEMMA MakeStep ==
  ASSUME InformedInv, \A j \in Requests : PayloadInv(j) /\ HolderInv(j), NEW k \in Requests, MakeMessage(k)
  PROVE  \A j \in Requests : PayloadInv(j)' /\ HolderInv(j)'
<1> DEFINE r == rawRequest[session[k]]
<1>1. /\ pc[k] = "make" /\ pc' = [pc EXCEPT ![k] = "clear"]
      /\ msg' = [msg EXCEPT ![k] = [request |-> r, resp |-> resp[session[k]]]]
      /\ UNCHANGED <<rawRequest, tLock, msgs, session, memory, reqIDCounter, msgTask>>
  BY DEF MakeMessage, Goto, data
<1>2. /\ pc'[k] = "clear" /\ msg'[k].request = r
      /\ \A j \in Requests \ {k} : pc'[j] = pc[j] /\ msg'[j] = msg[j]
  BY <1>1, PayloadTypes
<1>3. tLock[session[k]] = k /\ r # NULL /\ msg[k].request = NULL
  <2>1. tLock[session[k]] = k
    BY <1>1 DEF InformedInv, IInv, TypeOK, LockedAt
  <2>2. r # NULL
    BY <1>1 DEF HolderInv
  <2>3. msg[k].request = NULL
    BY <1>1 DEF InformedInv, MessageInv
  <2>4. QED
    BY <2>1, <2>2, <2>3
<1>4. Newest' = Newest
  BY <1>1 DEF Newest
<1>5. r \in Requests /\ memory[r] # "freed"
  <2>1. session[k] \in Sessions
    BY PayloadTypes
  <2>2. r \in Requests
    BY <1>3, <2>1, PayloadTypes
  <2>3. QED
    BY <1>1, <1>3, <2>1, <2>2 DEF PayloadInv
<1> HIDE DEF r
<1>6. ASSUME NEW j \in Requests PROVE PayloadInv(j)'
  <2>0. PayloadInv(j)
    OBVIOUS
  <2>1. \A i \in Requests : InThread(i, j)' <=> InThread(i, j) \/ (i = k /\ j = r)
    BY <1>2, <1>3, PayloadTypes DEF InThread
  <2>2. \A s \in Sessions : tLock[s] # NULL /\ pc[tLock[s]] = "clear" => pc'[tLock[s]] = "clear"
    BY <1>2, PayloadTypes
  <2>3. (memory[j] = "none" <=> j > Newest)'
    BY <1>1, <1>4, <2>0 DEF PayloadInv
  <2>4. memory[j] = "live" =>
           \/ \E s \in Sessions : rawRequest[s] = j
           \/ \E i \in Requests : InThread(i, j)'
           \/ \E i \in 1..Len(msgs) : InQueue(i, j)
    BY <2>0, <2>1 DEF PayloadInv
  <2>5. memory[j] = "freed" =>
       /\ \A i \in Requests : ~InThread(i, j)'
       /\ \A i \in 1..Len(msgs) : ~InQueue(i, j)
       /\ \A s \in Sessions : rawRequest[s] = j => tLock[s] # NULL /\ pc'[tLock[s]] = "clear"
    BY <1>5, <2>0, <2>1, <2>2 DEF PayloadInv
  <2>6. memory[j] # "broken"
    BY <2>0 DEF PayloadInv
  <2>7. QED
    BY <1>1, <2>3, <2>4, <2>5, <2>6 DEF PayloadInv, InQueue
<1>7. ASSUME NEW j \in Requests PROVE HolderInv(j)'
  <2>1. CASE j = k
    BY <1>1, <1>2, <1>3, <2>1 DEF HolderInv, r
  <2>2. CASE j # k
    BY <1>1, <1>2, <2>2, HolderStays
  <2>3. QED
    BY <2>1, <2>2
<1>8. QED
  BY <1>6, <1>7

\* an ignored request's payload is freed: no message has it
LEMMA DropStep ==
  ASSUME InformedInv, \A j \in Requests : PayloadInv(j) /\ HolderInv(j), NEW k \in Requests, DropRequest(k)
  PROVE  \A j \in Requests : PayloadInv(j)' /\ HolderInv(j)'
<1> DEFINE r == rawRequest[session[k]]
<1>1. /\ pc[k] = "drop" /\ pc' = [pc EXCEPT ![k] = "clear"]
      /\ UNCHANGED <<rawRequest, tLock, msg, msgs, session, reqIDCounter, msgTask>>
  BY DEF DropRequest, Goto, data
<1>2. /\ pc'[k] = "clear"
      /\ \A j \in Requests \ {k} : pc'[j] = pc[j]
  BY <1>1, PayloadTypes
<1>3. \A j \in Requests : memory'[j] =
        IF j # r THEN memory[j] ELSE IF memory[j] = "live" THEN "freed" ELSE "broken"
  BY DEF DropRequest, Free
<1>4. session[k] \in Sessions /\ tLock[session[k]] = k /\ r # NULL /\ r \in Requests
  <2>1. tLock[session[k]] = k
    BY <1>1 DEF InformedInv, IInv, TypeOK, LockedAt
  <2>2. r # NULL
    BY <1>1 DEF HolderInv
  <2>3. QED
    BY <2>1, <2>2, PayloadTypes
<1>5. Newest' = Newest
  BY <1>1 DEF Newest
<1>6. memory[r] = "live" /\ ~Flying(r) /\ \A s \in Sessions : rawRequest[s] = r => s = session[k]
  <2>1. memory[r] # "freed" /\ memory[r] # "broken"
    BY <1>1, <1>4 DEF PayloadInv
  <2>2. ~(r > Newest)
    <3>1. r <= Newest
      BY <1>4 DEF InformedInv, IInv, RawBound
    <3>2. reqIDCounter \in Nat
      BY Bounds DEF InformedInv, IInv, TypeOK, Types
    <3>3. Newest \in Nat
      BY <3>2 DEF Newest
    <3>4. QED
      BY <1>4, <3>1, <3>3, PayloadTypes
  <2>3. ~Flying(r)
    BY <1>1, <1>4 DEF InformedInv, SessionInv
  <2>4. \A s \in Sessions : rawRequest[s] = r => s = session[k]
    <3>1. rawRequest["es"] # NULL /\ rawRequest["supl"] # NULL => rawRequest["supl"] # rawRequest["es"]
      BY PayloadTypes DEF InformedInv, IInv, EmergencyFirst, Sessions
    <3>2. QED
      BY <1>4, <3>1 DEF Sessions
  <2>5. memory[r] = "live"
    BY <1>4, <2>1, <2>2, PayloadTypes DEF PayloadInv
  <2>6. QED
    BY <2>3, <2>4, <2>5
<1> HIDE DEF r
<1>7. ASSUME NEW j \in Requests PROVE PayloadInv(j)'
  <2>0. PayloadInv(j)
    OBVIOUS
  <2>1. (\A i : InThread(i, j)' <=> InThread(i, j)) /\ (\A i : InQueue(i, j)' <=> InQueue(i, j))
    BY <1>1 DEF InThread, InQueue
  <2>2. CASE j = r
    <3>1. memory'[j] = "freed"
      BY <1>3, <1>6, <2>2
    <3>2. ~(j > Newest')
      BY <1>5, <1>6, <2>0, <2>2 DEF PayloadInv
    <3>3. /\ \A i \in Requests : ~InThread(i, j)
          /\ \A i \in 1..Len(msgs) : ~InQueue(i, j)
      BY <1>6, <2>2 DEF Flying
    <3>4. \A s \in Sessions : rawRequest[s] = j => tLock[s] # NULL /\ pc'[tLock[s]] = "clear"
      BY <1>2, <1>4, <1>6, <2>2, PayloadTypes
    <3>5. QED
      BY <1>1, <2>1, <3>1, <3>2, <3>3, <3>4 DEF PayloadInv
  <2>3. CASE j # r
    <3>1. memory'[j] = memory[j]
      BY <1>3, <2>3
    <3>2. (memory[j] = "none" <=> j > Newest)'
      BY <1>5, <2>0, <3>1 DEF PayloadInv
    <3>3. \A s \in Sessions : tLock[s] # NULL /\ pc[tLock[s]] = "clear" => pc'[tLock[s]] = "clear"
      BY <1>2, PayloadTypes
    <3>4. QED
      BY <1>1, <2>0, <2>1, <3>1, <3>2, <3>3 DEF PayloadInv
  <2>4. QED
    BY <2>2, <2>3
<1>8. ASSUME NEW j \in Requests PROVE HolderInv(j)'
  <2>1. CASE j = k
    <3>1. memory'[r] # "live"
      BY <1>3, <1>4, <1>6
    <3>2. QED
      BY <1>1, <1>4, <2>1, <3>1 DEF HolderInv, r
  <2>2. CASE j # k
    <3>1. rawRequest[session[j]] # NULL /\ memory'[rawRequest[session[j]]] = "live" =>
            memory[rawRequest[session[j]]] = "live"
      BY <1>3, PayloadTypes
    <3>2. QED
      BY <1>1, <1>2, <2>2, <3>1, HolderStays
  <2>3. QED
    BY <2>1, <2>2
<1>9. QED
  BY <1>7, <1>8

\* a session is cleared: its request's payload is in the thread's message, or freed
LEMMA EndStep ==
  ASSUME InformedInv, \A j \in Requests : PayloadInv(j) /\ HolderInv(j), NEW k \in Requests, EndSession(k)
  PROVE  \A j \in Requests : PayloadInv(j)' /\ HolderInv(j)'
<1> DEFINE s == session[k]
           r == rawRequest[s]
<1>1. /\ pc[k] = "clear" /\ pc' = [pc EXCEPT ![k] = "reset"]
      /\ rawRequest' = [rawRequest EXCEPT ![s] = NULL] /\ tLock' = [tLock EXCEPT ![s] = NULL]
      /\ UNCHANGED <<msg, msgs, session, memory, reqIDCounter, msgTask>>
  BY DEF EndSession, Goto
<1>2. /\ pc'[k] = "reset" /\ \A j \in Requests \ {k} : pc'[j] = pc[j]
      /\ s \in Sessions /\ rawRequest'[s] = NULL
      /\ \A t \in Sessions \ {s} : rawRequest'[t] = rawRequest[t] /\ tLock'[t] = tLock[t]
  BY <1>1, PayloadTypes
<1>3. tLock[s] = k
  BY <1>1 DEF InformedInv, IInv, TypeOK, LockedAt
<1>4. memory[r] = "live" => InThread(k, r)
  BY <1>1 DEF HolderInv, InThread
<1>5. Newest' = Newest
  BY <1>1 DEF Newest
<1> HIDE DEF r
<1>6. ASSUME NEW j \in Requests PROVE PayloadInv(j)'
  <2>0. PayloadInv(j)
    OBVIOUS
  <2>1. (\A i : InThread(i, j)' <=> InThread(i, j)) /\ (\A i : InQueue(i, j)' <=> InQueue(i, j))
    BY <1>1 DEF InThread, InQueue
  <2>2. \A t \in Sessions : rawRequest'[t] = j <=> rawRequest[t] = j /\ t # s
    BY <1>2, PayloadTypes
  <2>3. memory[j] = "live" =>
           \/ \E t \in Sessions : rawRequest'[t] = j
           \/ \E i \in Requests : InThread(i, j)
           \/ \E i \in 1..Len(msgs) : InQueue(i, j)
    <3>1. rawRequest[s] = j /\ memory[j] = "live" => InThread(k, j)
      BY <1>4 DEF r
    <3>2. QED
      BY <2>0, <2>2, <3>1 DEF PayloadInv
  <2>4. ASSUME NEW t \in Sessions, t # s, tLock[t] # NULL, pc[tLock[t]] = "clear"
        PROVE  tLock'[t] = tLock[t] /\ pc'[tLock[t]] = "clear"
    <3>1. tLock[t] \in Requests /\ tLock[t] # k
      BY <2>4, PayloadTypes
    <3>2. QED
      BY <1>2, <2>4, <3>1
  <2>5. (memory[j] = "none" <=> j > Newest)'
    BY <1>1, <1>5, <2>0 DEF PayloadInv
  <2>6. memory[j] = "freed" => \A t \in Sessions : rawRequest'[t] = j => tLock'[t] # NULL /\ pc'[tLock'[t]] = "clear"
    BY <2>0, <2>2, <2>4 DEF PayloadInv
  <2>7. QED
    BY <1>1, <2>0, <2>1, <2>3, <2>5, <2>6 DEF PayloadInv
<1>7. ASSUME NEW j \in Requests PROVE HolderInv(j)'
  <2>1. CASE j = k
    BY <1>2, <2>1 DEF HolderInv
  <2>2. CASE j # k /\ session[j] # s
    BY <1>1, <1>2, <2>2, PayloadTypes, HolderStays
  <2>3. CASE j # k /\ session[j] = s
    <3>1. pc[j] \notin LockedAt
      BY <1>3, <2>3 DEF InformedInv, IInv, TypeOK
    <3>2. pc'[j] \notin {"make", "drop", "clear"}
      BY <1>2, <2>3, <3>1 DEF LockedAt
    <3>3. QED
      BY <3>2 DEF HolderInv
  <2>4. QED
    BY <2>1, <2>2, <2>3
<1>8. QED
  BY <1>6, <1>7

\* a thread's message goes to the queue with the payload
LEMMA SendStep ==
  ASSUME InformedInv, \A j \in Requests : PayloadInv(j) /\ HolderInv(j), NEW k \in Requests, SendMessage(k)
  PROVE  \A j \in Requests : PayloadInv(j)' /\ HolderInv(j)'
<1>1. /\ pc[k] = "send" /\ pc' = [pc EXCEPT ![k] = "done"]
      /\ msgs' = IF msg[k] = NoMessage THEN msgs ELSE Append(msgs, msg[k])
      /\ msg' = [msg EXCEPT ![k] = NoMessage]
      /\ UNCHANGED <<rawRequest, tLock, session, memory, reqIDCounter, msgTask>>
  BY DEF SendMessage, Goto, data
<1>2. /\ pc'[k] = "done" /\ msg'[k].request = NULL
      /\ \A j \in Requests \ {k} : pc'[j] = pc[j] /\ msg'[j] = msg[j]
  BY <1>1, PayloadTypes DEF NoMessage
<1>3. Newest' = Newest
  BY <1>1 DEF Newest
<1>4. ASSUME NEW j \in Requests
      PROVE  (\E i \in 1..Len(msgs') : InQueue(i, j)') <=>
               (\E i \in 1..Len(msgs) : InQueue(i, j)) \/ InThread(k, j)
  <2>1. CASE msg[k] = NoMessage
    <3>1. ~InThread(k, j)
      BY <2>1, PayloadTypes DEF InThread, NoMessage
    <3>2. msgs' = msgs
      BY <1>1, <2>1
    <3>3. QED
      BY <3>1, <3>2 DEF InQueue
  <2>2. CASE msg[k] # NoMessage
    <3>1. msgs' = Append(msgs, msg[k])
      BY <1>1, <2>2
    <3>2. /\ Len(msgs) \in Nat /\ Len(msgs') = Len(msgs) + 1 /\ msgs'[Len(msgs')] = msg[k]
          /\ \A i \in 1..Len(msgs) : msgs'[i] = msgs[i]
      BY <3>1, PayloadTypes
    <3>3. ASSUME NEW i \in 1..Len(msgs'), InQueue(i, j)'
          PROVE  (\E h \in 1..Len(msgs) : InQueue(h, j)) \/ InThread(k, j)
      BY <3>2, <3>3 DEF InQueue, InThread
    <3>4. ASSUME NEW h \in 1..Len(msgs), InQueue(h, j) PROVE \E i \in 1..Len(msgs') : InQueue(i, j)'
      BY <3>2, <3>4 DEF InQueue
    <3>5. ASSUME InThread(k, j) PROVE \E i \in 1..Len(msgs') : InQueue(i, j)'
      <4> DEFINE n == Len(msgs')
      <4>1. n \in 1..n /\ msgs'[n].request = j
        BY <3>2, <3>5 DEF InThread
      <4>2. QED
        BY <4>1 DEF InQueue
    <3>6. QED
      BY <3>3, <3>4, <3>5
  <2>3. QED
    BY <2>1, <2>2
<1>5. ASSUME NEW j \in Requests PROVE PayloadInv(j)'
  <2>0. PayloadInv(j)
    OBVIOUS
  <2>1. \A i \in Requests : InThread(i, j)' <=> InThread(i, j) /\ i # k
    BY <1>2, PayloadTypes DEF InThread
  <2>2. ASSUME NEW t \in Sessions, tLock[t] # NULL, pc[tLock[t]] = "clear"
        PROVE  pc'[tLock[t]] = "clear"
    <3>1. tLock[t] \in Requests /\ tLock[t] # k
      BY <1>1, <2>2, PayloadTypes
    <3>2. QED
      BY <1>2, <2>2, <3>1
  <2>3. (memory[j] = "none" <=> j > Newest)'
    BY <1>1, <1>3, <2>0 DEF PayloadInv
  <2>4. memory[j] = "live" =>
           \/ \E t \in Sessions : rawRequest[t] = j
           \/ \E i \in Requests : InThread(i, j)'
           \/ \E i \in 1..Len(msgs') : InQueue(i, j)'
    BY <1>4, <2>0, <2>1 DEF PayloadInv
  <2>5. memory[j] = "freed" =>
       /\ \A i \in Requests : ~InThread(i, j)'
       /\ \A i \in 1..Len(msgs') : ~InQueue(i, j)'
       /\ \A t \in Sessions : rawRequest[t] = j => tLock[t] # NULL /\ pc'[tLock[t]] = "clear"
    BY <1>4, <2>0, <2>1, <2>2 DEF PayloadInv
  <2>6. QED
    BY <1>1, <2>0, <2>3, <2>4, <2>5 DEF PayloadInv
<1>6. ASSUME NEW j \in Requests PROVE HolderInv(j)'
  <2>1. CASE j = k
    BY <1>2, <2>1 DEF HolderInv
  <2>2. CASE j # k
    BY <1>1, <1>2, <2>2, HolderStays
  <2>3. QED
    BY <2>1, <2>2
<1>7. QED
  BY <1>5, <1>6

\* the accepted request's thread begins
LEMMA NotifyStep ==
  ASSUME InformedInv, \A j \in Requests : PayloadInv(j) /\ HolderInv(j), NotifyUser
  PROVE  \A j \in Requests : PayloadInv(j)' /\ HolderInv(j)'
<1> DEFINE n == msgTask.k
<1>1. /\ msgTask.at = "notify" /\ reqIDCounter' = n /\ pc' = [pc EXCEPT ![n] = "start"] /\ msgTask' = Idle
      /\ UNCHANGED <<rawRequest, tLock, session, msg, msgs, memory>>
  BY DEF NotifyUser, SetMsgTask
<1>2. n = reqIDCounter + 1 /\ n \in Requests /\ reqIDCounter \in Nat
  BY <1>1, Bounds DEF InformedInv, IInv, Fresh, TypeOK, Types
<1>3. Newest' = Newest
  BY <1>1, <1>2 DEF Newest, Idle
<1>4. pc[n] = "none"
  BY <1>2 DEF InformedInv, IInv, Fresh
<1>5. pc'[n] = "start" /\ \A j \in Requests \ {n} : pc'[j] = pc[j]
  BY <1>1, <1>2, PayloadTypes
<1> HIDE DEF n
<1>6. ASSUME NEW s \in Sessions, tLock[s] # NULL, pc[tLock[s]] = "clear"
      PROVE  tLock'[s] = tLock[s] /\ pc'[tLock[s]] = "clear"
  <2>1. tLock[s] \in Requests /\ tLock[s] # n
    BY <1>4, <1>6, PayloadTypes
  <2>2. QED
    BY <1>1, <1>5, <1>6, <2>1
<1>7. \A j \in Requests : PayloadInv(j)'
  BY <1>1, <1>3, <1>6, PayloadsStay
<1>8. ASSUME NEW j \in Requests PROVE HolderInv(j)'
  <2>1. CASE j = n
    BY <1>5, <2>1 DEF HolderInv
  <2>2. CASE j # n
    BY <1>1, <1>5, <2>2, HolderStays
  <2>3. QED
    BY <2>1, <2>2
<1>9. QED
  BY <1>7, <1>8

(***************************************************************************)
(* Every step before the first restart of the modem keeps the payloads.    *)
(***************************************************************************)
LEMMA OwnedStep == ASSUME InformedInv, OwnedInv, [Next]_vars PROVE OwnedInv'
<1> SUFFICES ASSUME restarts' = 0 PROVE OwnedInv'
  BY DEF OwnedInv
<1> DEFINE Owned == \A j \in Requests : PayloadInv(j) /\ HolderInv(j)
           Quiet == msgTask.at \in {"idle", "notify"}
<1> USE DEF data, thread
<1>0. restarts = 0 /\ ~loc_eng_ni_reset_on_engine_restart
  <2>1. restarts \in Nat
    BY Bounds DEF InformedInv, IInv, TypeOK, Types
  <2>2. ~loc_eng_ni_reset_on_engine_restart
    BY <2>1 DEF loc_eng_ni_reset_on_engine_restart
  <2>3. restarts' = restarts
    BY <2>2 DEF Next, MsgTask, User, Thread, informNiResponse, NotifyUser, FreeRequest, ClearRequest,
         WakeThread, loc_eng_ni_request_handler, IgnoreOther, SetOwn, loc_eng_ni_respond, ni_thread_proc,
         Signalled, TimedOut, CheckRequest, MakeMessage, DropRequest, EndSession, ResetId, SendMessage, vars
  <2>4. QED
    BY <2>2, <2>3
<1>1. Owned /\ Quiet
  BY <1>0 DEF OwnedInv
<1>2. ~FreeRequest /\ ~ClearRequest /\ ~WakeThread
  BY <1>1 DEF FreeRequest, ClearRequest, WakeThread
<1>3. ASSUME NEW s \in Sessions, loc_eng_ni_request_handler(s) PROVE Owned' /\ Quiet'
  BY <1>1, <1>3, AcceptStep DEF loc_eng_ni_request_handler, SetMsgTask, At
<1>4. ASSUME NotifyUser PROVE Owned' /\ Quiet'
  BY <1>1, <1>4, NotifyStep DEF NotifyUser, SetMsgTask, Idle
<1>5. ASSUME informNiResponse PROVE Owned' /\ Quiet'
  BY <1>1, <1>5, InformStep DEF informNiResponse
<1>6. ASSUME UNCHANGED <<memory, msg, msgs, rawRequest, session, reqIDCounter, msgTask, pc, tLock>>
      PROVE  Owned' /\ Quiet'
  <2>1. Newest' = Newest
    BY <1>6 DEF Newest
  <2>2. \A k \in Requests : PayloadInv(k)'
    BY <1>1, <1>6, <2>1, PayloadsStay
  <2>3. \A j \in Requests : HolderInv(j)'
    BY <1>1, <1>6, HolderStays
  <2>4. QED
    BY <1>1, <1>6, <2>2, <2>3
<1>7. ASSUME IgnoreOther \/ SetOwn \/ (\E k \in Requests, what \in UserResponses : loc_eng_ni_respond(k, what))
      PROVE  Owned' /\ Quiet'
  <2>1. UNCHANGED <<memory, msg, msgs, rawRequest, session, reqIDCounter, msgTask, pc, tLock>>
    BY <1>7 DEF IgnoreOther, SetOwn, loc_eng_ni_respond
  <2>2. QED
    BY <1>6, <2>1
<1>8. ASSUME NEW k \in Requests, ni_thread_proc(k) \/ Signalled(k) \/ TimedOut(k) PROVE Owned' /\ Quiet'
  <2>1. /\ pc[k] \in {"start", "wait"} /\ tLock[session[k]] = NULL
        /\ UNCHANGED <<memory, msg, msgs, rawRequest, session, reqIDCounter, msgTask>>
    BY <1>8 DEF ni_thread_proc, Signalled, TimedOut
  <2>2. /\ tLock' = tLock \/ tLock' = [tLock EXCEPT ![session[k]] = k]
        /\ pc' = [pc EXCEPT ![k] = "check"] \/ pc' = [pc EXCEPT ![k] = "wait"]
    BY <1>8 DEF ni_thread_proc, Signalled, TimedOut, TakeResponse, Goto
  <2>3. \A s \in Sessions : tLock[s] \notin {NULL, k} => tLock'[s] = tLock[s]
    BY <2>1, <2>2, PayloadTypes
  <2>4. Owned'
    BY <1>1, <2>1, <2>2, <2>3, PlaceMoves
  <2>5. QED
    BY <1>1, <2>1, <2>4
<1>9. ASSUME NEW k \in Requests, CheckRequest(k) PROVE Owned' /\ Quiet'
  <2>1. pc[k] = "check" /\ UNCHANGED <<memory, msg, msgs, rawRequest, session, reqIDCounter, msgTask>>
    BY <1>9 DEF CheckRequest
  <2>2. PICK where \in {"reset", "drop", "make"} :
          /\ pc' = [pc EXCEPT ![k] = where]
          /\ where \in {"make", "drop"} => rawRequest[session[k]] # NULL
    BY <1>9 DEF CheckRequest, Goto
  <2>3. tLock' = tLock \/ tLock' = [tLock EXCEPT ![session[k]] = NULL]
    BY <1>9 DEF CheckRequest
  <2>4. tLock[session[k]] = k
    BY <2>1 DEF InformedInv, IInv, TypeOK, LockedAt
  <2>5. \A s \in Sessions : tLock[s] \notin {NULL, k} => tLock'[s] = tLock[s]
    BY <2>3, <2>4, PayloadTypes
  <2>6. Owned'
    BY <1>1, <2>1, <2>2, <2>5, PlaceMoves
  <2>7. QED
    BY <1>1, <2>1, <2>6
<1>10. ASSUME NEW k \in Requests, ResetId(k) PROVE Owned' /\ Quiet'
  <2>1. /\ pc[k] = "reset" /\ pc' = [pc EXCEPT ![k] = "send"]
        /\ UNCHANGED <<memory, msg, msgs, rawRequest, session, reqIDCounter, msgTask, tLock>>
    BY <1>10 DEF ResetId, Goto
  <2>2. Owned'
    BY <1>1, <2>1, PlaceMoves
  <2>3. QED
    BY <1>1, <2>1, <2>2
<1>11. ASSUME NEW k \in Requests, MakeMessage(k) PROVE Owned' /\ Quiet'
  BY <1>1, <1>11, MakeStep DEF MakeMessage
<1>12. ASSUME NEW k \in Requests, DropRequest(k) PROVE Owned' /\ Quiet'
  BY <1>1, <1>12, DropStep DEF DropRequest
<1>13. ASSUME NEW k \in Requests, EndSession(k) PROVE Owned' /\ Quiet'
  BY <1>1, <1>13, EndStep DEF EndSession
<1>14. ASSUME NEW k \in Requests, SendMessage(k) PROVE Owned' /\ Quiet'
  BY <1>1, <1>14, SendStep DEF SendMessage
<1>15. ASSUME UNCHANGED vars PROVE Owned' /\ Quiet'
  BY <1>6, <1>15 DEF vars
<1>16. Owned' /\ Quiet'
  <2> HIDE DEF Owned, Quiet
  <2> QED
    BY <1>0, <1>2, <1>3, <1>4, <1>5, <1>7, <1>8, <1>9, <1>10, <1>11, <1>12, <1>13, <1>14, <1>15
       DEF Next, MsgTask, User, Thread
<1>17. QED
  BY <1>16 DEF OwnedInv

(* Whatever the number of requests, and however responses, timeouts and    *)
(* new requests interleave, until the modem restarts a payload is freed    *)
(* once, by the last that had it (loc_eng_ni.cpp:245-268, and              *)
(* LocEngInformNiResponse's destructor).                                   *)
THEOREM NiPayloadOwned == Spec => []PayloadOwned
<1>1. Init => OwnedInv
  <2> SUFFICES ASSUME Init PROVE OwnedInv
    OBVIOUS
  <2>1. /\ msgTask.at = "idle" /\ reqIDCounter = 0 /\ \A k \in Requests : memory[k] = "none" /\ pc[k] = "none"
    BY DEF Init, Idle
  <2>2. Newest = 0
    BY <2>1 DEF Newest
  <2>3. \A k \in Requests : k > Newest
    BY <2>2 DEF Requests
  <2>4. QED
    BY <2>1, <2>3 DEF OwnedInv, PayloadInv, HolderInv
<1>2. InformedInv /\ OwnedInv /\ [Next]_vars => OwnedInv'
  BY OwnedStep
<1>3. InformedInv /\ OwnedInv => PayloadOwned
  <2> SUFFICES ASSUME InformedInv, OwnedInv, restarts = 0, NEW k \in Requests
               PROVE  /\ memory[k] # "broken"
                      /\ memory[k] = "live" => Owners(k) # {}
                      /\ memory[k] = "freed" =>
                           Owners(k) \subseteq {<<"session", s>> : s \in {s \in Sessions :
                                                 tLock[s] # NULL /\ pc[tLock[s]] = "clear"}}
    BY DEF PayloadOwned
  <2>1. PayloadInv(k) /\ DOMAIN msgs = 1..Len(msgs)
    BY PayloadTypes DEF OwnedInv
  <2>2. ASSUME memory[k] = "live" PROVE Owners(k) # {}
    <3>1. CASE \E s \in Sessions : rawRequest[s] = k
      BY <3>1 DEF Owners
    <3>2. CASE \E j \in Requests : InThread(j, k)
      BY <3>2 DEF Owners, InThread
    <3>3. CASE \E i \in 1..Len(msgs) : InQueue(i, k)
      BY <2>1, <3>3 DEF Owners, InQueue
    <3>4. QED
      BY <2>1, <2>2, <3>1, <3>2, <3>3 DEF PayloadInv
  <2>3. ASSUME memory[k] = "freed"
        PROVE  Owners(k) \subseteq {<<"session", s>> : s \in {s \in Sessions :
                                     tLock[s] # NULL /\ pc[tLock[s]] = "clear"}}
    <3>1. {j \in Requests : msg[j].request = k} = {} /\ {i \in DOMAIN msgs : msgs[i].request = k} = {}
      BY <2>1, <2>3 DEF PayloadInv, InThread, InQueue
    <3>2. \A s \in Sessions : rawRequest[s] = k => tLock[s] # NULL /\ pc[tLock[s]] = "clear"
      BY <2>1, <2>3 DEF PayloadInv
    <3>3. Owners(k) = {<<"session", s>> : s \in {s \in Sessions : rawRequest[s] = k}}
      BY <3>1 DEF Owners
    <3>4. QED
      BY <3>2, <3>3
  <2>4. QED
    BY <2>1, <2>2, <2>3 DEF PayloadInv
<1>4. QED
  BY <1>1, <1>2, <1>3, InformedInductive, PTL DEF Spec

-----------------------------------------------------------------------------
(***************************************************************************)
(* The heap of a container.  Walks in a tree are functions by recursion on *)
(* the halves of a place; what is known of them comes from one existence   *)
(* theorem (HalvingFunction) and from the least place of a set.            *)
(***************************************************************************)

LEMMA LeastNat ==
  ASSUME NEW S \in SUBSET Nat, S # {}
  PROVE  \E n \in S : \A m \in S : n =< m
<1>1. PICK n \in S : \A m \in S : ~(<<m, n>> \in OpToRel(<, Nat))
  BY NatLessThanWellFounded, WFMin
<1>2. ASSUME NEW m \in S PROVE n =< m
  <2>1. ~(m < n) BY <1>1 DEF OpToRel
  <2> QED BY <2>1
<1> QED BY <1>2

LEMMA Halves ==
  ASSUME NEW n \in Nat, n > 1
  PROVE  /\ n \div 2 \in Nat /\ 1 =< n \div 2 /\ n \div 2 < n
         /\ \A m \in Nat : n \in {Left(m), Right(m)} <=> m = n \div 2
BY DEF Left, Right

\* f[n] follows from f[n \div 2] at the numbers in on, and is base[n] elsewhere
Halving(f, on, g, base) ==
  \A n \in Nat : f[n] = IF n \in on THEN g[<<n, f[n \div 2]>>] ELSE base[n]

LEMMA HalvingFunction ==
  ASSUME NEW A, NEW base \in [Nat -> A], NEW on \in SUBSET Nat, \A n \in on : n > 1,
         NEW g \in [Nat \X A -> A]
  PROVE  \E f \in [Nat -> A] : Halving(f, on, g, base)
<1> DEFINE Fits(N, h) ==
      /\ h \in [0..N -> A]
      /\ \A n \in 0..N : h[n] = IF n \in on THEN g[<<n, h[n \div 2]>>] ELSE base[n]
<1>1. ASSUME NEW N \in Nat PROVE \E h : Fits(N, h)
  <2> DEFINE Bad == {k \in Nat : ~\E h : Fits(k, h)}
  <2>1. SUFFICES ASSUME Bad # {} PROVE FALSE
    OBVIOUS
  <2>2. PICK k \in Bad : \A m \in Bad : k =< m
    BY <2>1, LeastNat
  <2>3. CASE k = 0
    <3>1. 0..k = {0} /\ 0 \notin on BY <2>3
    <3>2. Fits(k, [x \in 0..k |-> base[x]]) BY <3>1
    <3> QED BY <3>2, <2>2
  <2>4. CASE k > 0
    <3>0. k \in Nat /\ k - 1 \in Nat /\ ~(k =< k - 1) BY <2>4
    <3>1. k - 1 \notin Bad BY <2>2, <3>0
    <3>2. PICK h : Fits(k - 1, h) BY <3>1, <3>0
    <3> DEFINE new == IF k \in on THEN g[<<k, h[k \div 2]>>] ELSE base[k]
               e == [x \in 0..k |-> IF x < k THEN h[x] ELSE new]
    <3>3. h \in [0..(k - 1) -> A] BY <3>2
    <3>4. ASSUME NEW n \in 0..(k - 1)
          PROVE  h[n] = IF n \in on THEN g[<<n, h[n \div 2]>>] ELSE base[n]
      BY <3>2
    <3>5. ASSUME NEW n \in on, n =< k PROVE n \div 2 \in 0..(k - 1) /\ n \div 2 < k
      BY <3>5, <3>0, Halves
    <3>6. new \in A
      <4>1. k \in on => h[k \div 2] \in A BY <3>3, <3>5, <3>0
      <4> QED BY <4>1, <3>0
    <3>7. /\ e \in [0..k -> A]
          /\ \A x \in 0..(k - 1) : e[x] = h[x]
          /\ e[k] = new
      BY <3>3, <3>6, <3>0
    <3> HIDE DEF e
    <3>8. ASSUME NEW n \in 0..k PROVE e[n] = IF n \in on THEN g[<<n, e[n \div 2]>>] ELSE base[n]
      <4>1. n \in on => e[n \div 2] = h[n \div 2] BY <3>5, <3>7
      <4>2. CASE n < k BY <4>1, <4>2, <3>4, <3>7, <3>0
      <4>3. CASE n = k BY <4>1, <4>3, <3>7
      <4> QED BY <4>2, <4>3, <3>0
    <3>9. Fits(k, e) BY <3>7, <3>8
    <3> QED BY <3>9, <2>2
  <2> QED BY <2>3, <2>4
<1>2. ASSUME NEW N \in Nat, NEW M \in Nat, NEW h, NEW k, Fits(N, h), Fits(M, k), NEW n \in Nat, n =< N, n =< M
      PROVE  h[n] = k[n]
  <2> DEFINE Bad == {x \in Nat : x =< N /\ x =< M /\ h[x] # k[x]}
  <2>1. SUFFICES ASSUME Bad # {} PROVE FALSE BY <1>2
  <2>2. PICK x \in Bad : \A y \in Bad : x =< y
    BY <2>1, LeastNat
  <2>3. x \in Nat /\ x =< N /\ x =< M /\ h[x] # k[x] OBVIOUS
  <2>4. CASE x \in on
    <3>1. x \div 2 \in Nat /\ x \div 2 < x BY <2>4, <2>3, Halves
    <3>2. x \div 2 \notin Bad BY <3>1, <2>2, <2>3
    <3>3. h[x \div 2] = k[x \div 2] BY <3>1, <3>2, <2>3
    <3>4. h[x] = g[<<x, h[x \div 2]>>] /\ k[x] = g[<<x, k[x \div 2]>>]
      BY <2>4, <2>3, <1>2
    <3> QED BY <3>3, <3>4, <2>3
  <2>5. CASE x \notin on
    <3>1. x \in 0..N /\ x \in 0..M BY <2>3
    <3>2. h[x] = base[x] /\ k[x] = base[x] BY <2>5, <3>1, <1>2
    <3> QED BY <3>2, <2>3
  <2> QED BY <2>4, <2>5
<1> DEFINE h(n) == CHOOSE w : Fits(n, w)
           f == [n \in Nat |-> h(n)[n]]
<1>3. ASSUME NEW n \in Nat PROVE Fits(n, h(n))
  BY <1>1, <1>3
<1> HIDE DEF h, Fits
<1>4. ASSUME NEW n \in Nat PROVE f[n] \in A
  BY <1>3 DEF Fits
<1>5. ASSUME NEW n \in Nat PROVE f[n] = IF n \in on THEN g[<<n, f[n \div 2]>>] ELSE base[n]
  <2>1. h(n)[n] = IF n \in on THEN g[<<n, h(n)[n \div 2]>>] ELSE base[n]
    BY <1>3 DEF Fits
  <2>2. ASSUME n \in on PROVE h(n)[n \div 2] = f[n \div 2]
    <3>1. n \div 2 \in Nat /\ n \div 2 < n /\ n \div 2 =< n BY <2>2, Halves
    <3>2. Fits(n, h(n)) /\ Fits(n \div 2, h(n \div 2)) BY <3>1, <1>3
    <3>3. n \div 2 =< n \div 2 BY <3>1
    <3>4. h(n)[n \div 2] = h(n \div 2)[n \div 2] BY <3>1, <3>2, <3>3, <1>2
    <3> QED BY <3>1, <3>4
  <2> QED BY <2>1, <2>2
<1>6. f \in [Nat -> A] BY <1>4
<1> HIDE DEF f
<1> QED BY <1>5, <1>6 DEF Halving

LEMMA WayStep ==
  ASSUME NEW n \in Nat, n >= 1, NEW steps
  PROVE  \A m \in Nat : OnWay(n, steps, m) <=>
           m = n \/ (m > n /\ m \in steps /\ OnWay(n, steps, m \div 2))
<1> DEFINE on == {k \in Nat : k > n /\ k \in steps}
           base == [k \in Nat |-> k]
           g == [x \in Nat \X Nat |-> x[2]]
           Climbs(f) == f = [k \in Nat |-> IF k > n /\ k \in steps THEN f[k \div 2] ELSE k]
           climb == CHOOSE f : Climbs(f)
<1>1. on \in SUBSET Nat /\ (\A k \in on : k > 1) /\ base \in [Nat -> Nat]
  OBVIOUS
<1>2. g \in [Nat \X Nat -> Nat] /\ \A k, x \in Nat : g[<<k, x>>] = x
  OBVIOUS
<1> HIDE DEF g
<1>3. PICK f \in [Nat -> Nat] : Halving(f, on, g, base)
  <2> HIDE DEF on, base
  <2> QED BY <1>1, <1>2, HalvingFunction
<1>4. \A k \in Nat : f[k] = IF k > n /\ k \in steps THEN f[k \div 2] ELSE k
  <2> SUFFICES ASSUME NEW k \in Nat PROVE f[k] = IF k > n /\ k \in steps THEN f[k \div 2] ELSE k
    OBVIOUS
  <2>1. k \in on <=> k > n /\ k \in steps OBVIOUS
  <2>2. CASE k \in on
    <3>1. k \div 2 \in Nat BY <2>1, <2>2, Halves
    <3>2. f[k \div 2] \in Nat BY <3>1
    <3>3. g[<<k, f[k \div 2]>>] = f[k \div 2] BY <3>2, <1>2
    <3>4. f[k] = g[<<k, f[k \div 2]>>] BY <1>3, <2>2 DEF Halving
    <3> QED BY <3>3, <3>4, <2>1, <2>2
  <2>3. CASE k \notin on BY <1>3, <2>1, <2>3 DEF Halving
  <2> QED BY <2>2, <2>3
<1>5. Climbs(f)
  <2>1. f = [k \in Nat |-> f[k]] OBVIOUS
  <2> QED BY <2>1, <1>4
<1>6. Climbs(climb)
  <2> HIDE DEF Climbs
  <2> QED BY <1>5
<1>7. \A k \in Nat : climb[k] = IF k > n /\ k \in steps THEN climb[k \div 2] ELSE k
  <2> HIDE DEF climb
  <2> QED BY <1>6
<1>8. \A m : OnWay(n, steps, m) <=> climb[m] = n
  BY DEF OnWay
<1> HIDE DEF climb
<1>9. ASSUME NEW m \in Nat
      PROVE OnWay(n, steps, m) <=> m = n \/ (m > n /\ m \in steps /\ OnWay(n, steps, m \div 2))
  <2>1. OnWay(n, steps, m) <=> climb[m] = n BY <1>8
  <2>2. OnWay(n, steps, m \div 2) <=> climb[m \div 2] = n BY <1>8
  <2>3. climb[m] = IF m > n /\ m \in steps THEN climb[m \div 2] ELSE m BY <1>7
  <2> QED BY <2>1, <2>2, <2>3
<1> QED BY <1>9

LEMMA WayInduction ==
  ASSUME NEW n \in Nat, n >= 1, NEW steps, NEW P, n \in P,
         \A m \in Nat : m > n /\ m \in steps /\ OnWay(n, steps, m \div 2) /\ m \div 2 \in P => m \in P
  PROVE  \A m \in Nat : OnWay(n, steps, m) => m \in P /\ m >= n
<1> DEFINE Bad == {m \in Nat : OnWay(n, steps, m) /\ ~(m \in P /\ m >= n)}
<1>1. SUFFICES ASSUME Bad # {} PROVE FALSE
  OBVIOUS
<1>2. PICK m \in Bad : \A k \in Bad : m =< k
  BY <1>1, LeastNat
<1>3. m = n \/ (m > n /\ m \in steps /\ OnWay(n, steps, m \div 2))
  BY WayStep
<1>4. m # n
  OBVIOUS
<1>5. m \div 2 \in Nat /\ m \div 2 < m
  BY <1>3, <1>4, Halves
<1>6. m \div 2 \notin Bad
  BY <1>2, <1>5
<1>7. m \in P /\ m >= n
  BY <1>3, <1>4, <1>5, <1>6
<1> QED BY <1>7

\* no place has two children that the walk enters
Single(steps) ==
  \A a, b \in Nat : a \in steps /\ b \in steps /\ a \div 2 = b \div 2 => a = b

LEMMA WayBounds ==
  ASSUME NEW n \in Nat, n >= 1, NEW steps, NEW m \in Nat, OnWay(n, steps, m)
  PROVE  m >= n
BY WayInduction, n \in Nat

LEMMA WayChain ==
  ASSUME NEW n \in Nat, n >= 1, NEW steps, Single(steps)
  PROVE  \A b \in Nat : OnWay(n, steps, b) =>
           \A a \in Nat : OnWay(n, steps, a) /\ a < b =>
             \E s \in Nat : s \in steps /\ s > n /\ s \div 2 = a /\ s =< b /\ OnWay(n, steps, s)
<1> DEFINE Way(m) == OnWay(n, steps, m)
           Link(a, b) == \E s \in Nat : s \in steps /\ s > n /\ s \div 2 = a /\ s =< b /\ Way(s)
           Bad == {b \in Nat : Way(b) /\ \E a \in Nat : Way(a) /\ a < b /\ ~Link(a, b)}
<1>1. SUFFICES ASSUME Bad # {} PROVE FALSE
  OBVIOUS
<1>2. PICK b \in Bad : \A k \in Bad : b =< k
  BY <1>1, LeastNat
<1>3. PICK a \in Nat : Way(a) /\ a < b /\ ~Link(a, b)
  OBVIOUS
<1>4. b \in Nat /\ Way(b)
  OBVIOUS
<1>5. a >= n
  BY <1>3, WayBounds
<1>6. b > n /\ b > 1 /\ b # n
  BY <1>3, <1>4, <1>5
<1> DEFINE p == b \div 2
<1>7. b \in steps /\ Way(p)
  BY <1>4, <1>6, WayStep
<1>8. p \in Nat /\ p < b
  BY <1>4, <1>6, Halves
<1> HIDE DEF p, Link
<1>9. \A x, y \in Nat : Way(x) /\ Way(y) /\ x < y /\ y < b => Link(x, y)
  <2> TAKE x, y \in Nat
  <2>1. ~(b =< y) => y \notin Bad BY <1>2
  <2> QED BY <2>1, <1>4
<1>10. p # a
  BY <1>3, <1>4, <1>6, <1>7 DEF Link, p
<1>11. CASE a < p
  <2>1. Link(a, p) BY <1>11, <1>9, <1>3, <1>7, <1>8
  <2>2. Link(a, b) BY <2>1, <1>8, <1>4 DEF Link
  <2> QED BY <2>2, <1>3
<1>12. CASE p < a
  <2>1. Link(p, a) BY <1>12, <1>9, <1>3, <1>7, <1>8
  <2>2. PICK s \in Nat : s \in steps /\ s \div 2 = p /\ s =< a BY <2>1 DEF Link
  <2>3. s = b BY <2>2, <1>7, <1>4 DEF Single, p
  <2> QED BY <2>2, <2>3, <1>3, <1>4
<1> QED BY <1>8, <1>10, <1>11, <1>12

LEMMA AboveStep ==
  ASSUME NEW n \in Nat, n >= 1, NEW m \in Nat
  PROVE  Above(n, m) <=> m = n \/ (m > n /\ Above(n, m \div 2))
<1>1. OnWay(n, Nat, m) <=> m = n \/ (m > n /\ m \in Nat /\ OnWay(n, Nat, m \div 2))
  BY WayStep
<1> QED BY <1>1 DEF Above

LEMMA AboveInduction ==
  ASSUME NEW n \in Nat, n >= 1, NEW P, n \in P,
         \A m \in Nat : m > n /\ Above(n, m \div 2) /\ m \div 2 \in P => m \in P
  PROVE  \A m \in Nat : Above(n, m) => m \in P /\ m >= n
<1>1. \A m \in Nat : m > n /\ m \in Nat /\ OnWay(n, Nat, m \div 2) /\ m \div 2 \in P => m \in P
  BY DEF Above
<1>2. \A m \in Nat : OnWay(n, Nat, m) => m \in P /\ m >= n
  BY <1>1, WayInduction
<1> QED BY <1>2 DEF Above

LEMMA AboveParent ==
  ASSUME NEW c \in Nat, c > 1, NEW k \in Nat, Above(c, k)
  PROVE  Above(c \div 2, k) /\ c \div 2 # k
<1> DEFINE p == c \div 2
           P == {m \in Nat : Above(p, m)}
<1>1. p \in Nat /\ p >= 1 /\ p < c
  BY Halves
<1> HIDE DEF p
<1>2. Above(p, p)
  BY <1>1, AboveStep
<1>3. c \in P
  BY <1>1, <1>2, AboveStep DEF p
<1>4. ASSUME NEW m \in Nat, m > c, m \div 2 \in P PROVE m \in P
  BY <1>1, <1>4, AboveStep
<1> HIDE DEF P
<1>5. k \in P /\ k >= c
  BY <1>3, <1>4, AboveInduction
<1> QED BY <1>5, <1>1 DEF P, p

LEMMA AboveChild ==
  ASSUME NEW m \in Nat, m >= 1, NEW k \in Nat, Above(m, k), m # k
  PROVE  /\ Above(Left(m), k) \/ Above(Right(m), k)
         /\ ~(Above(Left(m), k) /\ Above(Right(m), k))
<1> DEFINE l == Left(m)
           r == Right(m)
           P == {x \in Nat : x = m \/ Above(l, x) \/ Above(r, x)}
           Q == {x \in Nat : ~Above(r, x)}
<1>1. /\ l \in Nat /\ r \in Nat /\ l > m /\ r > m /\ r = l + 1 /\ l >= 1 /\ r >= 1
  BY DEF Left, Right
<1>2. \A x \in Nat : x > 1 /\ x \div 2 = m => x = l \/ x = r
  BY Halves DEF Left, Right
<1>3. l > 1 /\ r > 1 /\ l \div 2 = m /\ r \div 2 = m
  BY <1>1, Halves DEF Left, Right
<1> HIDE DEF l, r
<1>4. Above(l, l) /\ Above(r, r)
  BY <1>1, AboveStep
<1>5. ASSUME NEW x \in Nat, x > m, x \div 2 \in P PROVE x \in P
  <2>1. x > 1 /\ x \div 2 \in Nat BY <1>5
  <2>2. CASE x \div 2 = m BY <2>1, <2>2, <1>2, <1>4
  <2>3. CASE Above(l, x \div 2)
    <3>1. x \div 2 >= l BY <2>1, <2>3, <1>1, WayBounds DEF Above
    <3>2. x > l BY <3>1, <2>1, <1>1, Halves
    <3> QED BY <3>2, <2>3, <1>1, AboveStep
  <2>4. CASE Above(r, x \div 2)
    <3>1. x \div 2 >= r BY <2>1, <2>4, <1>1, WayBounds DEF Above
    <3>2. x > r BY <3>1, <2>1, <1>1, Halves
    <3> QED BY <3>2, <2>4, <1>1, AboveStep
  <2> QED BY <2>2, <2>3, <2>4, <1>5
<1>6. m \in P OBVIOUS
<1>7. l \in Q
  BY <1>1, WayBounds DEF Above
<1>8. ASSUME NEW x \in Nat, x > l, Above(l, x \div 2), x \div 2 \in Q PROVE x \in Q
  <2>1. SUFFICES ASSUME Above(r, x) PROVE FALSE OBVIOUS
  <2>2. x = r \/ Above(r, x \div 2) BY <2>1, <1>1, AboveStep
  <2>3. x = r BY <2>2, <1>8
  <2>4. m >= l BY <2>3, <1>3, <1>8, <1>1, WayBounds DEF Above
  <2> QED BY <2>4, <1>1
<1> HIDE DEF P, Q
<1>9. k \in P
  BY <1>5, <1>6, AboveInduction
<1>10. Above(l, k) => k \in Q
  BY <1>7, <1>8, <1>1, AboveInduction
<1> QED BY <1>9, <1>10 DEF P, Q, l, r

\* trees of data in V, each datum at one place
Apart(t) == \A m, n \in DOMAIN t : t[m].mData = t[n].mData => m = n
Nodes(V) == [mData : V, mSize : Int]
Tree(V, t) ==
  /\ \E N \in Nat : DOMAIN t \subseteq 1..N
  /\ t \in [DOMAIN t -> Nodes(V)]
  /\ checkTree(t)
  /\ Apart(t)
Timed(V) == \A v \in V : v.mFutureTime \in Int

LEMMA Places ==
  ASSUME NEW n \in Nat, n >= 1
  PROVE  /\ Left(n) \in Nat /\ Right(n) \in Nat /\ Left(n) > n /\ Right(n) > n
         /\ Left(n) # Right(n) /\ Left(n) > 1 /\ Right(n) > 1
         /\ Left(n) \div 2 = n /\ Right(n) \div 2 = n
         /\ \A m \in Nat : m > 1 /\ m \div 2 = n => m \in {Left(n), Right(n)}
<1>1. /\ Left(n) \in Nat /\ Right(n) \in Nat /\ Left(n) > n /\ Right(n) > n
      /\ Left(n) # Right(n) /\ Left(n) > 1 /\ Right(n) > 1
  BY DEF Left, Right
<1>2. Left(n) \div 2 = n /\ Right(n) \div 2 = n BY <1>1, Halves
<1>3. \A m \in Nat : m > 1 /\ m \div 2 = n => m \in {Left(n), Right(n)} BY Halves
<1> QED BY <1>1, <1>2, <1>3

LEMMA TreeFacts ==
  ASSUME NEW V, Timed(V), NEW t, Tree(V, t), NEW n \in DOMAIN t
  PROVE  /\ n \in Nat /\ n >= 1
         /\ t[n] = [mData |-> t[n].mData, mSize |-> t[n].mSize]
         /\ t[n].mData \in V /\ t[n].mSize \in Int /\ t[n].mData.mFutureTime \in Int
         /\ n = 1 \/ n \div 2 \in DOMAIN t
         /\ \A c \in DOMAIN t : c \in {Left(n), Right(n)} =>
              t[n].mData.mFutureTime =< t[c].mData.mFutureTime
         /\ t[n].mSize - Size(t, Left(n)) - Size(t, Right(n)) = 1
<1>1. n \in Nat /\ n >= 1
  <2>1. PICK N \in Nat : DOMAIN t \subseteq 1..N BY DEF Tree
  <2> QED BY <2>1
<1>2. \A k \in DOMAIN t : t[k] \in Nodes(V) BY DEF Tree
<1>3. \A k \in DOMAIN t : t[k].mData.mFutureTime \in Int BY <1>2 DEF Nodes, Timed
<1>4. t[n] = [mData |-> t[n].mData, mSize |-> t[n].mSize] /\ t[n].mData \in V /\ t[n].mSize \in Int
  BY <1>2 DEF Nodes
<1>5. /\ n = 1 \/ n \div 2 \in DOMAIN t
      /\ \A c \in Children(t, n) : ~outRanks(t[c].mData, t[n].mData)
      /\ t[n].mSize - Size(t, Left(n)) - Size(t, Right(n)) = 1
  BY DEF Tree, checkTree
<1>6. \A c \in DOMAIN t : c \in {Left(n), Right(n)} =>
        t[n].mData.mFutureTime =< t[c].mData.mFutureTime
  BY <1>3, <1>5 DEF Children, outRanks
<1> QED BY <1>1, <1>3, <1>4, <1>5, <1>6

LEMMA SizeInt ==
  ASSUME NEW V, Timed(V), NEW t, Tree(V, t), NEW n
  PROVE  Size(t, n) \in Int /\ (n \notin DOMAIN t => Size(t, n) = 0)
                            /\ (n \in DOMAIN t => Size(t, n) = t[n].mSize)
BY TreeFacts DEF Size

LEMMA TreeTop ==
  ASSUME NEW V, Timed(V), NEW t, Tree(V, t), DOMAIN t # {}
  PROVE  1 \in DOMAIN t
<1>1. DOMAIN t \in SUBSET Nat BY TreeFacts
<1>2. PICK n \in DOMAIN t : \A m \in DOMAIN t : n =< m BY <1>1, LeastNat
<1>3. n = 1 \/ (n > 1 /\ n \div 2 \in DOMAIN t) BY TreeFacts
<1>4. n > 1 => n \div 2 < n /\ n \in Nat /\ n \div 2 \in Nat BY TreeFacts, Halves
<1> QED BY <1>2, <1>3, <1>4

\* a walk in a tree comes to an end
LEMMA WayEnds ==
  ASSUME NEW V, Timed(V), NEW t, Tree(V, t), NEW W, W \subseteq DOMAIN t, W # {}
  PROVE  \E m \in W : \A k \in W : k =< m
<1>1. PICK N \in Nat : DOMAIN t \subseteq 1..N BY DEF Tree
<1> DEFINE S == {x \in Nat : \E k \in W : x = N - k}
<1>2. S \in SUBSET Nat /\ S # {}
  <2>1. PICK k \in W : TRUE OBVIOUS
  <2>2. N - k \in S BY <2>1, <1>1
  <2> QED BY <2>2
<1>3. PICK x \in S : \A y \in S : x =< y
  <2> HIDE DEF S
  <2> QED BY <1>2, LeastNat
<1>4. PICK m \in W : x = N - m OBVIOUS
<1>5. ASSUME NEW k \in W PROVE k =< m
  <2>1. N - k \in S BY <1>1
  <2> QED BY <2>1, <1>3, <1>4, <1>1
<1> QED BY <1>5

LEMMA LighterIsChild ==
  ASSUME NEW t, NEW n \in Nat, n >= 1
  PROVE  /\ Lighter(t, n) \in {Left(n), Right(n)}
         /\ Lighter(t, n) \in Nat /\ Lighter(t, n) > n /\ Lighter(t, n) \div 2 = n
<1>1. Lighter(t, n) = Left(n) \/ Lighter(t, n) = Right(n)
  BY DEF Lighter
<1> QED BY <1>1, Places

LEMMA HeirIsChild ==
  ASSUME NEW V, Timed(V), NEW t, Tree(V, t), NEW n \in DOMAIN t, Children(t, n) # {}
  PROVE  /\ Heir(t, n) \in Children(t, n)
         /\ \A c \in Children(t, n) : t[Heir(t, n)].mData.mFutureTime =< t[c].mData.mFutureTime
<1>1. \A c \in Children(t, n) : c \in DOMAIN t /\ t[c].mData.mFutureTime \in Int
  BY TreeFacts DEF Children
<1> QED BY <1>1 DEF Heir, Children, outRanks

LEMMA CarriedStep ==
  ASSUME NEW t, NEW datum
  PROVE  /\ Carried(t, datum)[1] = datum
         /\ \A n \in Nat : n > 1 =>
              Carried(t, datum)[n] =
                IF outRanks(Carried(t, datum)[n \div 2], t[n \div 2].mData)
                THEN t[n \div 2].mData ELSE Carried(t, datum)[n \div 2]
<1> DEFINE A == {datum} \cup {t[n].mData : n \in Nat}
           on == {k \in Nat : k > 1}
           base == [k \in Nat |-> datum]
           Later(x, y) == IF outRanks(x, y) THEN y ELSE x
           g == [p \in Nat \X A |-> Later(p[2], t[p[1] \div 2].mData)]
           Fits(f) == f = [n \in Nat |-> IF n =< 1 THEN datum
                                         ELSE Later(f[n \div 2], t[n \div 2].mData)]
           carried == CHOOSE f : Fits(f)
<1>0. \A n \in on : n > 1 /\ n \in Nat /\ n \div 2 \in Nat BY Halves
<1>1. on \in SUBSET Nat /\ (\A k \in on : k > 1) /\ base \in [Nat -> A]
  OBVIOUS
<1>2. ASSUME NEW k \in Nat, NEW x \in A PROVE Later(x, t[k \div 2].mData) \in A
  <2>1. k \div 2 \in Nat OBVIOUS
  <2> QED BY <2>1
<1>3. g \in [Nat \X A -> A] /\ \A k \in Nat, x \in A : g[<<k, x>>] = Later(x, t[k \div 2].mData)
  <2> HIDE DEF A, Later
  <2> QED BY <1>2
<1> HIDE DEF g
<1>4. PICK f \in [Nat -> A] : Halving(f, on, g, base)
  <2> HIDE DEF on, base, A
  <2> QED BY <1>1, <1>3, HalvingFunction
<1>5. ASSUME NEW k \in Nat
      PROVE  f[k] = IF k =< 1 THEN datum ELSE Later(f[k \div 2], t[k \div 2].mData)
  <2> HIDE DEF Later, A
  <2>1. CASE k > 1
    <3>1. k \in on /\ k \div 2 \in Nat BY <2>1, <1>0
    <3>2. f[k \div 2] \in A BY <3>1
    <3>3. f[k] = g[<<k, f[k \div 2]>>] BY <3>1, <1>4 DEF Halving
    <3> QED BY <3>2, <3>3, <1>3, <2>1
  <2>2. CASE k =< 1
    <3>1. k \notin on BY <2>2
    <3>2. f[k] = base[k] BY <3>1, <1>4 DEF Halving
    <3> QED BY <3>2, <2>2
  <2> QED BY <2>1, <2>2
<1>6. Fits(f)
  <2>1. f = [k \in Nat |-> f[k]] OBVIOUS
  <2> HIDE DEF Later
  <2> QED BY <2>1, <1>5
<1>7. Fits(carried)
  <2> HIDE DEF Fits
  <2> QED BY <1>6
<1>8. \A k \in Nat : carried[k] = IF k =< 1 THEN datum ELSE Later(carried[k \div 2], t[k \div 2].mData)
  <2> HIDE DEF carried, Later
  <2> QED BY <1>7
<1>9. Carried(t, datum) = carried
  BY DEF Carried
<1> HIDE DEF carried
<1> QED BY <1>8, <1>9

Lights(t) == {n \in Nat : n \div 2 \in DOMAIN t /\ n = Lighter(t, n \div 2)}
Pushes(t, n) == OnWay(1, Lights(t), n)

\* the way of a push: it goes on in every place of the tree, to one child, and
\* ends at one place that is free
PushWay(t, x) ==
  /\ x \in Nat /\ x >= 1 /\ x \notin DOMAIN t /\ Pushes(t, x)
  /\ x = 1 \/ x \div 2 \in DOMAIN t
  /\ Pushes(t, 1)
  /\ \A n \in Nat : Pushes(t, n) /\ n # x => n \in DOMAIN t /\ n < x
  /\ \A n \in DOMAIN t : Pushes(t, n) => Pushes(t, Lighter(t, n))
  /\ \A n \in Nat : n > 1 /\ Pushes(t, n) =>
       n \div 2 \in DOMAIN t /\ Pushes(t, n \div 2) /\ n = Lighter(t, n \div 2)
  /\ \A m, n \in Nat : Pushes(t, m) /\ Pushes(t, n) /\ m < n => m \in DOMAIN t /\ Lighter(t, m) =< n

LEMMA PushWayIs ==
  ASSUME NEW V, Timed(V), NEW t, Tree(V, t)
  PROVE  \E x : PushWay(t, x)
<1> DEFINE L == Lights(t)
           Way(n) == OnWay(1, L, n)
<1>1. Single(L)
  BY DEF Single, Lights
<1>2. ASSUME NEW n \in L
      PROVE  /\ n \in Nat /\ n > 1 /\ n \div 2 \in DOMAIN t /\ n = Lighter(t, n \div 2)
  <2>1. n \in Nat /\ n \div 2 \in DOMAIN t /\ n = Lighter(t, n \div 2) BY DEF Lights
  <2>2. n \div 2 \in Nat /\ n \div 2 >= 1 BY <2>1, TreeFacts
  <2> QED BY <2>1, <2>2, LighterIsChild, Places
<1>3. ASSUME NEW n \in DOMAIN t
      PROVE  Lighter(t, n) \in L /\ Lighter(t, n) > n /\ Lighter(t, n) \div 2 = n /\ Lighter(t, n) \in Nat
  <2>1. n \in Nat /\ n >= 1 BY TreeFacts
  <2>2. /\ Lighter(t, n) \in Nat /\ Lighter(t, n) > n /\ Lighter(t, n) \div 2 = n
    BY <2>1, LighterIsChild
  <2> QED BY <2>2 DEF Lights
<1> HIDE DEF L
<1>4. \A m \in Nat : Way(m) <=> m = 1 \/ (m > 1 /\ m \in L /\ Way(m \div 2))
  BY WayStep
<1>5. Way(1)
  BY <1>4
<1>6. \A n \in DOMAIN t : Way(n) => Way(Lighter(t, n))
  BY <1>3, <1>4, TreeFacts
<1>7. \A n \in Nat : n > 1 /\ Way(n) => n \div 2 \in DOMAIN t /\ Way(n \div 2) /\ n = Lighter(t, n \div 2)
  BY <1>2, <1>4
<1>8. \A m, n \in Nat : Way(m) /\ Way(n) /\ m < n => m \in DOMAIN t /\ Lighter(t, m) =< n
  <2> SUFFICES ASSUME NEW m \in Nat, NEW n \in Nat, Way(m), Way(n), m < n
               PROVE  m \in DOMAIN t /\ Lighter(t, m) =< n
    OBVIOUS
  <2>1. PICK s \in Nat : s \in L /\ s \div 2 = m /\ s =< n
    BY <1>1, WayChain
  <2> QED BY <2>1, <1>2
<1>9. \E x \in Nat : Way(x) /\ x \notin DOMAIN t
  <2> SUFFICES ASSUME \A x \in Nat : Way(x) => x \in DOMAIN t PROVE FALSE
    OBVIOUS
  <2> DEFINE W == {x \in Nat : Way(x)}
  <2>1. W \subseteq DOMAIN t /\ W # {} BY <1>5
  <2>2. PICK m \in W : \A k \in W : k =< m BY <2>1, WayEnds
  <2>3. m \in DOMAIN t /\ Way(m) BY <2>1
  <2>4. Lighter(t, m) \in W BY <2>3, <1>3, <1>6
  <2> QED BY <2>2, <2>4, <2>3, <1>3, TreeFacts
<1>10. PICK x \in Nat : Way(x) /\ x \notin DOMAIN t
  BY <1>9
<1>11. x >= 1
  BY <1>10, <1>4
<1>12. x = 1 \/ x \div 2 \in DOMAIN t
  BY <1>10, <1>11, <1>7
<1>13. \A n \in Nat : Way(n) /\ n # x => n \in DOMAIN t /\ n < x
  BY <1>8, <1>10
<1>14. PushWay(t, x)
  BY <1>5, <1>6, <1>7, <1>8, <1>10, <1>11, <1>12, <1>13 DEF PushWay, Pushes, L
<1> QED BY <1>14

PushData(t, datum, n) ==
  IF n \in DOMAIN t /\ ~outRanks(Carried(t, datum)[n], t[n].mData)
  THEN t[n].mData ELSE Carried(t, datum)[n]

\* u is t after a push that ends at x
Pushed(t, datum, x, u) ==
  /\ DOMAIN u = DOMAIN t \cup {x} /\ u = [n \in DOMAIN u |-> u[n]]
  /\ \A n \in DOMAIN u :
       IF Pushes(t, n)
       THEN /\ u[n] = [mData |-> PushData(t, datum, n), mSize |-> Size(t, n) + 1]
            /\ u[n].mData = PushData(t, datum, n) /\ u[n].mSize = Size(t, n) + 1
       ELSE u[n] = t[n]

LEMMA PushIs ==
  ASSUME NEW V, Timed(V), NEW t, Tree(V, t), NEW datum, NEW x, PushWay(t, x)
  PROVE  Pushed(t, datum, x, push(t, datum))
<1> DEFINE places == {1} \cup {Lighter(t, m) : m \in DOMAIN t}
           leaf == {n \in places \ DOMAIN t : Pushes(t, n)}
           node(n) == IF Pushes(t, n)
                      THEN [mData |-> PushData(t, datum, n), mSize |-> Size(t, n) + 1]
                      ELSE t[n]
<1>1. push(t, datum) = [n \in DOMAIN t \cup leaf |-> node(n)]
  BY DEF push, Pushes, Lights, PushData
<1>2. places \subseteq Nat
  <2> SUFFICES ASSUME NEW m \in DOMAIN t PROVE Lighter(t, m) \in Nat
    OBVIOUS
  <2>1. m \in Nat /\ m >= 1 BY TreeFacts
  <2> QED BY <2>1, LighterIsChild, Places
<1>3. x \in places
  <2>1. CASE x = 1 BY <2>1
  <2>2. CASE x # 1
    <3>1. x > 1 BY <2>2 DEF PushWay
    <3>2. x \div 2 \in DOMAIN t /\ x = Lighter(t, x \div 2) BY <3>1 DEF PushWay
    <3> QED BY <3>2
  <2> QED BY <2>1, <2>2
<1>4. leaf = {x}
  <2>1. x \in leaf BY <1>3 DEF PushWay
  <2>2. \A n \in leaf : n = x BY <1>2 DEF PushWay
  <2> HIDE DEF leaf
  <2> QED BY <2>1, <2>2
<1> HIDE DEF leaf, node
<1>5. push(t, datum) = [n \in DOMAIN t \cup {x} |-> node(n)] BY <1>1, <1>4
<1> DEFINE u == push(t, datum)
<1>6. DOMAIN u = DOMAIN t \cup {x} /\ \A n \in DOMAIN u : u[n] = node(n)
  BY <1>5
<1>7. u = [n \in DOMAIN u |-> u[n]]
  BY <1>5
<1> HIDE DEF u
<1>8. ASSUME NEW n \in DOMAIN u, Pushes(t, n)
      PROVE  /\ u[n] = [mData |-> PushData(t, datum, n), mSize |-> Size(t, n) + 1]
             /\ u[n].mData = PushData(t, datum, n) /\ u[n].mSize = Size(t, n) + 1
  <2>1. u[n] = [mData |-> PushData(t, datum, n), mSize |-> Size(t, n) + 1]
    BY <1>6, <1>8 DEF node
  <2> QED BY <2>1
<1>9. ASSUME NEW n \in DOMAIN u, ~Pushes(t, n) PROVE u[n] = t[n]
  BY <1>6, <1>9 DEF node
<1>10. Pushed(t, datum, x, u)
  BY <1>6, <1>7, <1>8, <1>9 DEF Pushed
<1> QED BY <1>10 DEF u

\* what is where while a push comes down to place n: the places above have
\* kept theirs, 0 stands for what is carried
OnTheWay(t, datum, n) ==
  [k \in DOMAIN t \cup {0} |->
     IF k = 0 THEN Carried(t, datum)[n]
     ELSE IF Pushes(t, k) /\ k < n THEN PushData(t, datum, k) ELSE t[k].mData]

\* f puts each datum of D at one place
Places1(f, S, D) ==
  /\ \A a, b \in S : f[a] = f[b] => a = b
  /\ \A a \in S : f[a] \in D
  /\ \A d \in D : \E a \in S : f[a] = d

LEMMA Exchange ==
  ASSUME NEW f, NEW g, NEW S, NEW D, Places1(f, S, D), NEW i \in S, NEW j \in S,
         \A a \in S : a # i /\ a # j => g[a] = f[a],
         \/ g[i] = f[i] /\ g[j] = f[j]
         \/ g[i] = f[j] /\ g[j] = f[i]
  PROVE  Places1(g, S, D)
<1>1. CASE g[i] = f[i] /\ g[j] = f[j]
  <2>1. \A a \in S : g[a] = f[a] BY <1>1
  <2> QED BY <2>1 DEF Places1
<1>2. CASE g[i] = f[j] /\ g[j] = f[i]
  <2> DEFINE w(a) == IF a = i THEN j ELSE IF a = j THEN i ELSE a
  <2>1. \A a \in S : g[a] = f[w(a)] /\ w(a) \in S /\ w(w(a)) = a BY <1>2
  <2> HIDE DEF w
  <2>2. ASSUME NEW a \in S, NEW b \in S, g[a] = g[b] PROVE a = b
    <3>1. w(a) = w(b) BY <2>1, <2>2 DEF Places1
    <3> QED BY <3>1, <2>1
  <2>3. ASSUME NEW a \in S PROVE g[a] \in D BY <2>1 DEF Places1
  <2>4. ASSUME NEW d \in D PROVE \E a \in S : g[a] = d
    <3>1. PICK a \in S : f[a] = d BY DEF Places1
    <3>2. w(a) \in S /\ g[w(a)] = d BY <3>1, <2>1
    <3> QED BY <3>2
  <2> QED BY <2>2, <2>3, <2>4 DEF Places1
<1> QED BY <1>1, <1>2

LEMMA PushPlaces ==
  ASSUME NEW V, Timed(V), NEW t, Tree(V, t), NEW datum \in V, datum \notin Contents(t),
         NEW x, PushWay(t, x)
  PROVE  \A n \in Nat : Pushes(t, n) =>
           Places1(OnTheWay(t, datum, n), DOMAIN t \cup {0}, Contents(t) \cup {datum})
<1> DEFINE S == DOMAIN t \cup {0}
           D == Contents(t) \cup {datum}
           F(n) == OnTheWay(t, datum, n)
           P == {n \in Nat : Pushes(t, n) => Places1(F(n), S, D)}
           C == Carried(t, datum)
<1>0. \A n \in DOMAIN t : n \in Nat /\ n >= 1
  BY TreeFacts
<1>1. 1 \in P
  <2>1. F(1) = [k \in S |-> IF k = 0 THEN datum ELSE t[k].mData]
    <3>1. C[1] = datum BY CarriedStep
    <3>2. \A k \in S : ~(Pushes(t, k) /\ k < 1 /\ k # 0) BY <1>0
    <3> QED BY <3>1, <3>2 DEF OnTheWay
  <2>2. /\ F(1)[0] = datum /\ \A k \in DOMAIN t : F(1)[k] = t[k].mData
    BY <2>1, <1>0
  <2> HIDE DEF F
  <2>3. \A k \in DOMAIN t : t[k].mData \in Contents(t) BY DEF Contents
  <2>4. \A d \in Contents(t) : \E k \in DOMAIN t : t[k].mData = d BY DEF Contents
  <2>5. \A a, b \in S : F(1)[a] = F(1)[b] => a = b
    BY <2>2, <2>3 DEF Tree, Apart
  <2> QED BY <2>2, <2>3, <2>4, <2>5 DEF Places1
<1>2. ASSUME NEW m \in Nat, m > 1, m \in Lights(t), OnWay(1, Lights(t), m \div 2), m \div 2 \in P
      PROVE m \in P
  <2> DEFINE p == m \div 2
  <2>1. Pushes(t, m)
    BY <1>2, WayStep DEF Pushes
  <2>2. p \in DOMAIN t /\ Pushes(t, p) /\ m = Lighter(t, p)
    BY <1>2, <2>1 DEF PushWay
  <2>3. p \in Nat /\ p >= 1 /\ p < m
    BY <1>2, Halves
  <2>4. Places1(F(p), S, D)
    BY <1>2, <2>2
  <2>5. C[m] = IF outRanks(C[p], t[p].mData) THEN t[p].mData ELSE C[p]
    BY <1>2, CarriedStep
  <2> HIDE DEF p
  <2>6. F(m)[0] = C[m] /\ F(p)[0] = C[p]
    BY DEF OnTheWay
  <2>7. F(m)[p] = PushData(t, datum, p) /\ F(p)[p] = t[p].mData
    BY <2>2, <2>3 DEF OnTheWay
  <2>8. ASSUME NEW k \in S, k # 0, k # p PROVE F(m)[k] = F(p)[k]
    <3>1. k \in DOMAIN t /\ k \in Nat BY <2>8, <1>0
    <3>2. Pushes(t, k) /\ p < k => ~(k < m) BY <3>1, <2>2, <2>3 DEF PushWay
    <3>3. Pushes(t, k) => (k < m <=> k < p) BY <3>1, <3>2, <2>3, <2>8
    <3> QED BY <3>3, <2>8 DEF OnTheWay
  <2>9. \/ F(m)[p] = F(p)[p] /\ F(m)[0] = F(p)[0]
        \/ F(m)[p] = F(p)[0] /\ F(m)[0] = F(p)[p]
    BY <2>2, <2>5, <2>6, <2>7 DEF PushData
  <2>10. p \in S /\ 0 \in S BY <2>2
  <2> HIDE DEF F, S, D
  <2>11. Places1(F(m), S, D)
    BY <2>4, <2>8, <2>9, <2>10, Exchange
  <2> QED BY <2>11
<1> HIDE DEF P
<1>3. \A n \in Nat : OnWay(1, Lights(t), n) => n \in P /\ n >= 1
  BY <1>1, <1>2, WayInduction
<1> QED BY <1>3 DEF P, Pushes

\* A push adds the datum and keeps the tree in order and its sizes right.
LEMMA PushTree ==
  ASSUME NEW V, Timed(V), NEW t, Tree(V, t), NEW datum \in V, datum \notin Contents(t)
  PROVE  /\ Tree(V, push(t, datum))
         /\ Contents(push(t, datum)) = Contents(t) \cup {datum}
<1>1. PICK x : PushWay(t, x)
  BY PushWayIs
<1> DEFINE u == push(t, datum)
           D == DOMAIN t \cup {x}
           C == Carried(t, datum)
           kept(n) == PushData(t, datum, n)
<1>2. x \in Nat /\ x >= 1 /\ x \notin DOMAIN t /\ Pushes(t, x)
  BY <1>1 DEF PushWay
<1>0. Pushed(t, datum, x, u)
  BY <1>1, PushIs
<1> HIDE DEF u
<1>3. /\ DOMAIN u = D /\ u = [n \in D |-> u[n]]
      /\ \A n \in D :
           IF Pushes(t, n)
           THEN /\ u[n] = [mData |-> kept(n), mSize |-> Size(t, n) + 1]
                /\ u[n].mData = kept(n) /\ u[n].mSize = Size(t, n) + 1
           ELSE u[n] = t[n]
  BY <1>0 DEF Pushed
<1>4. \A n \in DOMAIN t : n \in Nat /\ n >= 1 /\ n # 0
  BY TreeFacts
<1>5. \A n \in D : n \in Nat /\ n >= 1
  BY <1>2, <1>4
<1> DEFINE F == OnTheWay(t, datum, x)
<1>6. Places1(F, DOMAIN t \cup {0}, Contents(t) \cup {datum})
  BY <1>1, <1>2, PushPlaces
<1>7. /\ \A n \in DOMAIN t : u[n].mData = F[n]
      /\ u[x].mData = F[0]
  <2>1. ASSUME NEW n \in DOMAIN t PROVE u[n].mData = F[n]
    <3>1. Pushes(t, n) => n < x BY <1>1, <1>2, <1>4 DEF PushWay
    <3>2. F[n] = IF Pushes(t, n) THEN kept(n) ELSE t[n].mData
      BY <3>1, <1>4 DEF OnTheWay
    <3> HIDE DEF F
    <3> QED BY <3>2, <1>3
  <2>2. F[0] = C[x] BY DEF OnTheWay
  <2>3. kept(x) = C[x] BY <1>2 DEF PushData
  <2>4. u[x].mData = kept(x) BY <1>2, <1>3
  <2> QED BY <2>1, <2>2, <2>3, <2>4
<1> HIDE DEF F
<1>8. Apart(u)
  <2> DEFINE w(n) == IF n = x THEN 0 ELSE n
  <2>1. \A n \in D : w(n) \in DOMAIN t \cup {0} /\ u[n].mData = F[w(n)]
    BY <1>7, <1>2
  <2>2. \A m, n \in D : w(m) = w(n) => m = n
    BY <1>4, <1>2
  <2> HIDE DEF w
  <2> QED BY <2>1, <2>2, <1>3, <1>6 DEF Apart, Places1
<1>9. Contents(u) = Contents(t) \cup {datum}
  <2>1. \A n \in D : u[n].mData \in Contents(t) \cup {datum}
    BY <1>6, <1>7 DEF Places1
  <2>2. ASSUME NEW d \in Contents(t) \cup {datum} PROVE \E n \in D : u[n].mData = d
    <3>1. PICK a \in DOMAIN t \cup {0} : F[a] = d BY <1>6 DEF Places1
    <3> QED BY <3>1, <1>7
  <2>3. Contents(u) = {u[n].mData : n \in D} BY <1>3 DEF Contents
  <2> HIDE DEF D
  <2> QED BY <2>1, <2>2, <2>3
<1>10. Contents(t) \subseteq V
  BY TreeFacts DEF Contents
<1>11. \A n \in D : u[n].mData \in V /\ u[n].mData.mFutureTime \in Int
  <2>1. \A n \in D : u[n].mData \in Contents(u) BY <1>3 DEF Contents
  <2> QED BY <2>1, <1>9, <1>10 DEF Timed
<1>12. u \in [D -> Nodes(V)]
  <2> SUFFICES ASSUME NEW n \in D PROVE u[n] \in Nodes(V)
    BY <1>3
  <2>1. CASE Pushes(t, n)
    <3>1. u[n] = [mData |-> kept(n), mSize |-> Size(t, n) + 1] BY <2>1, <1>3
    <3>2. u[n].mData = kept(n) BY <3>1
    <3>3. kept(n) \in V BY <3>2, <1>11
    <3>4. Size(t, n) \in Int BY SizeInt
    <3> QED BY <3>1, <3>3, <3>4 DEF Nodes
  <2>2. CASE ~Pushes(t, n)
    <3>1. n \in DOMAIN t BY <2>2, <1>2
    <3> QED BY <3>1, <2>2, <1>3 DEF Tree
  <2> QED BY <2>1, <2>2
<1>13. \E N \in Nat : D \subseteq 1..N
  <2>1. PICK N \in Nat : DOMAIN t \subseteq 1..N BY DEF Tree
  <2> DEFINE M == IF N < x THEN x ELSE N
  <2>2. M \in Nat /\ D \subseteq 1..M BY <2>1, <1>2
  <2> QED BY <2>2
<1>14. ASSUME NEW n \in D PROVE n = 1 \/ n \div 2 \in D
  BY <1>1, TreeFacts DEF PushWay
<1>15. ASSUME NEW n \in D, NEW c \in D, c \in {Left(n), Right(n)}
       PROVE  u[n].mData.mFutureTime =< u[c].mData.mFutureTime
  <2>1. n \in Nat /\ n >= 1 /\ c \in Nat /\ c > 1 /\ c \div 2 = n /\ c > n
    BY <1>5, <1>15, Places
  <2>2. CASE ~Pushes(t, n)
    <3>1. ~Pushes(t, c) BY <2>1, <2>2, <1>1 DEF PushWay
    <3>2. n \in DOMAIN t /\ c \in DOMAIN t BY <3>1, <2>2, <1>2
    <3>3. u[n] = t[n] /\ u[c] = t[c] BY <3>1, <2>2, <1>3
    <3> QED BY <3>2, <3>3, <1>15, TreeFacts
  <2>3. CASE Pushes(t, n)
    <3>1. c # 1 BY <2>1
    <3>2. n \in DOMAIN t
      <4>1. c = x => n \in DOMAIN t BY <2>1, <1>1 DEF PushWay
      <4>2. c \in DOMAIN t => n \in DOMAIN t BY <2>1, <3>1, TreeFacts
      <4> QED BY <4>1, <4>2
    <3>3. u[n].mData = kept(n) BY <2>3, <1>3
    <3>4. kept(n) = IF outRanks(C[n], t[n].mData) THEN C[n] ELSE t[n].mData
      BY <3>2 DEF PushData
    <3> DEFINE z == F[0]
    <3>5. C[n] \in V
      <4>1. OnTheWay(t, datum, n)[0] = C[n] BY DEF OnTheWay
      <4>2. Places1(OnTheWay(t, datum, n), DOMAIN t \cup {0}, Contents(t) \cup {datum})
        BY <2>1, <2>3, <1>1, PushPlaces
      <4> QED BY <4>1, <4>2, <1>10 DEF Places1
    <3>6. C[n].mFutureTime \in Int /\ t[n].mData.mFutureTime \in Int
      BY <3>2, <3>5, TreeFacts DEF Timed
    <3>7. /\ u[n].mData.mFutureTime =< C[n].mFutureTime
          /\ u[n].mData.mFutureTime =< t[n].mData.mFutureTime
      BY <3>3, <3>4, <3>6 DEF outRanks
    <3>8. u[n].mData.mFutureTime \in Int BY <1>11
    <3>9. c \in DOMAIN t => u[n].mData.mFutureTime =< t[c].mData.mFutureTime
      <4>1. c \in DOMAIN t => t[n].mData.mFutureTime =< t[c].mData.mFutureTime /\ t[c].mData.mFutureTime \in Int
        BY <3>2, <1>15, TreeFacts
      <4> QED BY <4>1, <3>6, <3>7, <3>8
    <3>10. CASE ~Pushes(t, c)
      BY <3>9, <3>10, <1>2, <1>3
    <3>11. CASE Pushes(t, c)
      <4>1. C[c] = IF outRanks(C[n], t[n].mData) THEN t[n].mData ELSE C[n]
        BY <2>1, CarriedStep
      <4>2. u[n].mData.mFutureTime =< C[c].mFutureTime BY <4>1, <3>7
      <4>3. u[c].mData = kept(c) BY <3>11, <1>3
      <4>4. kept(c) = C[c] \/ (c \in DOMAIN t /\ kept(c) = t[c].mData) BY DEF PushData
      <4> QED BY <4>2, <4>3, <4>4, <3>9
    <3> QED BY <3>10, <3>11
  <2> QED BY <2>2, <2>3
<1>16. ASSUME NEW n \in D PROVE u[n].mSize - Size(u, Left(n)) - Size(u, Right(n)) = 1
  <2>1. n \in Nat /\ n >= 1 BY <1>5
  <2>2. \A k : k \notin D => Size(u, k) = 0 /\ Size(t, k) = 0
    BY <1>3 DEF Size
  <2>3. \A k \in D : Size(u, k) = IF Pushes(t, k) THEN Size(t, k) + 1 ELSE Size(t, k)
    <3> SUFFICES ASSUME NEW k \in D
                 PROVE Size(u, k) = IF Pushes(t, k) THEN Size(t, k) + 1 ELSE Size(t, k)
      OBVIOUS
    <3>1. Size(u, k) = u[k].mSize BY <1>3 DEF Size
    <3>2. CASE Pushes(t, k) BY <3>1, <3>2, <1>3
    <3>3. CASE ~Pushes(t, k) BY <3>1, <3>3, <1>2, <1>3 DEF Size
    <3> QED BY <3>2, <3>3
  <2>4. \A k : Size(t, k) \in Int BY SizeInt
  <2>5. /\ Left(n) \in Nat /\ Right(n) \in Nat /\ Left(n) > 1 /\ Right(n) > 1 /\ Left(n) # Right(n)
        /\ Left(n) \div 2 = n /\ Right(n) \div 2 = n /\ Left(n) > n /\ Right(n) > n
    BY <2>1, Places
  <2>6. u[n].mSize = Size(u, n) BY <1>3 DEF Size
  <2>7. CASE n = x
    <3>1. \A c \in {Left(n), Right(n)} : c \notin DOMAIN t
      <4> SUFFICES ASSUME NEW c \in {Left(n), Right(n)}, c \in DOMAIN t PROVE FALSE OBVIOUS
      <4>1. c # 1 /\ c \div 2 = n BY <2>5
      <4>2. n \in DOMAIN t BY <4>1, TreeFacts
      <4> QED BY <4>2, <2>7, <1>2
    <3>2. Left(n) \notin D /\ Right(n) \notin D BY <3>1, <2>5, <2>7, <2>1
    <3>3. Size(u, n) = 1 BY <2>7, <2>3, <1>2 DEF Size
    <3> QED BY <3>2, <3>3, <2>2, <2>6
  <2>8. CASE n # x
    <3>1. n \in DOMAIN t BY <2>8
    <3>2. Size(t, n) - Size(t, Left(n)) - Size(t, Right(n)) = 1
      BY <3>1, TreeFacts DEF Size
    <3>3. CASE ~Pushes(t, n)
      <4>1. ~Pushes(t, Left(n)) /\ ~Pushes(t, Right(n))
        BY <3>3, <2>5, <1>1 DEF PushWay
      <4>2. Size(u, Left(n)) = Size(t, Left(n)) /\ Size(u, Right(n)) = Size(t, Right(n))
        BY <4>1, <2>2, <2>3
      <4> QED BY <4>2, <3>2, <3>3, <2>3, <2>6
    <3>4. CASE Pushes(t, n)
      <4> DEFINE c == Lighter(t, n)
      <4>1. c \in {Left(n), Right(n)} /\ c \in Nat BY <2>1, LighterIsChild
      <4>2. Pushes(t, c) BY <3>1, <3>4, <1>1 DEF PushWay
      <4>3. \A k \in {Left(n), Right(n)} : Pushes(t, k) => k = c
        BY <2>5, <1>1 DEF PushWay
      <4>4. c \in D BY <4>1, <4>2, <1>1 DEF PushWay
      <4> HIDE DEF c
      <4>5. Size(u, c) = Size(t, c) + 1 BY <4>2, <4>4, <2>3
      <4>6. \A k \in {Left(n), Right(n)} : k # c => Size(u, k) = Size(t, k)
        BY <4>3, <2>2, <2>3
      <4>7. Size(u, n) = Size(t, n) + 1 BY <3>4, <2>3
      <4>8. CASE c = Left(n)
        <5>1. Size(u, Right(n)) = Size(t, Right(n)) BY <4>6, <4>8, <2>5
        <5> QED BY <5>1, <4>5, <4>7, <4>8, <3>2, <2>4, <2>6
      <4>9. CASE c = Right(n)
        <5>1. Size(u, Left(n)) = Size(t, Left(n)) BY <4>6, <4>9, <2>5
        <5> QED BY <5>1, <4>5, <4>7, <4>9, <3>2, <2>4, <2>6
      <4> QED BY <4>1, <4>8, <4>9
    <3> QED BY <3>3, <3>4
  <2> QED BY <2>7, <2>8
<1>17. checkTree(u)
  <2> SUFFICES ASSUME NEW n \in DOMAIN u
               PROVE  /\ n = 1 \/ n \div 2 \in DOMAIN u
                      /\ \A c \in Children(u, n) : ~outRanks(u[c].mData, u[n].mData)
                      /\ u[n].mSize - Size(u, Left(n)) - Size(u, Right(n)) = 1
    BY DEF checkTree
  <2>1. n \in D BY <1>3
  <2>2. \A c \in Children(u, n) : ~outRanks(u[c].mData, u[n].mData)
    <3> SUFFICES ASSUME NEW c \in Children(u, n) PROVE ~outRanks(u[c].mData, u[n].mData)
      OBVIOUS
    <3>1. c \in D /\ c \in {Left(n), Right(n)} BY <1>3 DEF Children
    <3>2. u[n].mData.mFutureTime =< u[c].mData.mFutureTime BY <3>1, <2>1, <1>15
    <3>3. u[n].mData.mFutureTime \in Int /\ u[c].mData.mFutureTime \in Int
      BY <3>1, <2>1, <1>11
    <3> HIDE DEF D
    <3> QED BY <3>2, <3>3 DEF outRanks
  <2> QED BY <2>1, <2>2, <1>3, <1>14, <1>16
<1>18. Tree(V, u)
  BY <1>3, <1>8, <1>12, <1>13, <1>17 DEF Tree
<1> QED BY <1>9, <1>18 DEF u

Inherits(t) == {m \in DOMAIN t : m \div 2 \in DOMAIN t /\ m = Heir(t, m \div 2)}
Pops(t, n, m) == OnWay(n, Inherits(t), m)

\* the way of a pop at n: from heir to heir, to a leaf x
PopWay(t, n, x) ==
  /\ x \in DOMAIN t /\ Pops(t, n, x) /\ Children(t, x) = {}
  /\ Pops(t, n, n)
  /\ \A m \in Nat : Pops(t, n, m) => m \in DOMAIN t /\ m >= n
  /\ \A m \in DOMAIN t : Pops(t, n, m) /\ m # x =>
       Children(t, m) # {} /\ Pops(t, n, Heir(t, m))
  /\ \A m \in DOMAIN t : Pops(t, n, m) /\ m # n =>
       m \div 2 \in DOMAIN t /\ Pops(t, n, m \div 2) /\ m = Heir(t, m \div 2) /\ m > n

LEMMA PopWayIs ==
  ASSUME NEW V, Timed(V), NEW t, Tree(V, t), NEW n \in DOMAIN t
  PROVE  \E x : PopWay(t, n, x)
<1> DEFINE L == Inherits(t)
           Way(m) == OnWay(n, L, m)
<1>0. \A m \in DOMAIN t : m \in Nat /\ m >= 1
  BY TreeFacts
<1>1. Single(L)
  BY DEF Single, Inherits
<1>2. ASSUME NEW m \in L
      PROVE  /\ m \in DOMAIN t /\ m \in Nat /\ m > 1 /\ m \div 2 \in DOMAIN t /\ m = Heir(t, m \div 2)
             /\ Children(t, m \div 2) # {}
  <2>1. m \in DOMAIN t /\ m \div 2 \in DOMAIN t /\ m = Heir(t, m \div 2) BY DEF Inherits
  <2>2. m \div 2 \in Nat /\ m \div 2 >= 1 /\ m \in Nat BY <2>1, <1>0
  <2>3. m > 1 BY <2>2
  <2>4. m \in {Left(m \div 2), Right(m \div 2)} BY <2>2, <2>3, Halves
  <2> QED BY <2>1, <2>3, <2>4, <1>0 DEF Children
<1>3. ASSUME NEW m \in DOMAIN t, Children(t, m) # {}
      PROVE  Heir(t, m) \in L /\ Heir(t, m) > m /\ Heir(t, m) \div 2 = m /\ Heir(t, m) \in DOMAIN t
  <2>1. Heir(t, m) \in DOMAIN t /\ (Heir(t, m) = Left(m) \/ Heir(t, m) = Right(m))
    BY <1>3, HeirIsChild DEF Children
  <2>2. Heir(t, m) > m /\ Heir(t, m) \div 2 = m BY <2>1, <1>0, Places
  <2> QED BY <2>1, <2>2 DEF Inherits
<1> HIDE DEF L
<1>4. \A m \in Nat : Way(m) <=> m = n \/ (m > n /\ m \in L /\ Way(m \div 2))
  BY <1>0, WayStep
<1>5. Way(n)
  BY <1>0, <1>4
<1>6. \A m \in Nat : Way(m) => m \in DOMAIN t /\ m >= n
  BY <1>0, <1>2, <1>4
<1>7. \A m \in DOMAIN t : Way(m) /\ Children(t, m) # {} => Way(Heir(t, m))
  <2> SUFFICES ASSUME NEW m \in DOMAIN t, Way(m), Children(t, m) # {} PROVE Way(Heir(t, m))
    OBVIOUS
  <2>1. m >= n /\ m \in Nat /\ n \in Nat BY <1>0, <1>6
  <2>2. Heir(t, m) \in L /\ Heir(t, m) > n /\ Heir(t, m) \div 2 = m /\ Heir(t, m) \in Nat
    BY <2>1, <1>0, <1>3
  <2> QED BY <2>2, <1>4
<1>8. \A m \in DOMAIN t : Way(m) /\ m # n =>
        m \div 2 \in DOMAIN t /\ Way(m \div 2) /\ m = Heir(t, m \div 2) /\ m > n
  BY <1>0, <1>2, <1>4
<1> DEFINE W == {m \in Nat : Way(m)}
<1>9. PICK x \in W : \A k \in W : k =< x
  <2>1. W \subseteq DOMAIN t /\ W # {} BY <1>0, <1>5, <1>6
  <2> HIDE DEF W
  <2> QED BY <2>1, WayEnds
<1>10. x \in DOMAIN t /\ Way(x)
  BY <1>6
<1>11. Children(t, x) = {}
  <2> SUFFICES ASSUME Children(t, x) # {} PROVE FALSE OBVIOUS
  <2>1. Heir(t, x) \in W /\ Heir(t, x) > x /\ x \in Nat /\ Heir(t, x) \in Nat
    BY <1>0, <1>3, <1>7, <1>10
  <2> QED BY <2>1, <1>9
<1>12. \A m \in DOMAIN t : Way(m) /\ m # x => Children(t, m) # {}
  <2> SUFFICES ASSUME NEW m \in DOMAIN t, Way(m), m # x PROVE Children(t, m) # {} OBVIOUS
  <2>1. m \in Nat /\ m \in W /\ x \in Nat BY <1>0
  <2>2. m < x BY <2>1, <1>9
  <2>3. PICK s \in Nat : s \in L /\ s \div 2 = m
    <3>1. n \in Nat /\ n >= 1 BY <1>0
    <3> QED BY <3>1, <2>1, <2>2, <1>1, <1>10, WayChain
  <2> QED BY <2>3, <1>2
<1>13. PopWay(t, n, x)
  BY <1>5, <1>6, <1>7, <1>8, <1>10, <1>11, <1>12 DEF PopWay, Pops, L
<1> QED BY <1>13

\* u is t after a pop at n that ends at x
Popped(t, n, x, u) ==
  /\ DOMAIN u = DOMAIN t \ {x} /\ u = [m \in DOMAIN u |-> u[m]]
  /\ \A m \in DOMAIN u :
       IF Pops(t, n, m)
       THEN /\ u[m] = [mData |-> t[Heir(t, m)].mData, mSize |-> t[m].mSize - 1]
            /\ u[m].mData = t[Heir(t, m)].mData /\ u[m].mSize = t[m].mSize - 1
       ELSE u[m] = t[m]

LEMMA PopIs ==
  ASSUME NEW V, Timed(V), NEW t, Tree(V, t), NEW n \in DOMAIN t, NEW x, PopWay(t, n, x)
  PROVE  Popped(t, n, x, pop(t, n))
<1> DEFINE leaf == {m \in DOMAIN t : Children(t, m) = {} /\ Pops(t, n, m)}
           node(m) == IF Pops(t, n, m)
                      THEN [mData |-> t[Heir(t, m)].mData, mSize |-> t[m].mSize - 1]
                      ELSE t[m]
           u == pop(t, n)
<1>1. pop(t, n) = [m \in DOMAIN t \ leaf |-> node(m)]
  BY DEF pop, Pops, Inherits
<1>2. leaf = {x}
  BY DEF PopWay
<1> HIDE DEF leaf, node
<1>3. u = [m \in DOMAIN t \ {x} |-> node(m)]
  BY <1>1, <1>2
<1>4. DOMAIN u = DOMAIN t \ {x} /\ \A m \in DOMAIN u : u[m] = node(m)
  BY <1>3
<1>5. u = [m \in DOMAIN u |-> u[m]]
  BY <1>3
<1> HIDE DEF u
<1>6. ASSUME NEW m \in DOMAIN u, Pops(t, n, m)
      PROVE  /\ u[m] = [mData |-> t[Heir(t, m)].mData, mSize |-> t[m].mSize - 1]
             /\ u[m].mData = t[Heir(t, m)].mData /\ u[m].mSize = t[m].mSize - 1
  <2>1. u[m] = [mData |-> t[Heir(t, m)].mData, mSize |-> t[m].mSize - 1]
    BY <1>4, <1>6 DEF node
  <2> QED BY <2>1
<1>7. ASSUME NEW m \in DOMAIN u, ~Pops(t, n, m) PROVE u[m] = t[m]
  BY <1>4, <1>7 DEF node
<1>8. Popped(t, n, x, u)
  BY <1>4, <1>5, <1>6, <1>7 DEF Popped
<1> QED BY <1>8 DEF u

\* u is a tree in order without the datum of place n, whose parent still counts it
Without(V, t, n, u) ==
  /\ DOMAIN u \subseteq DOMAIN t /\ u \in [DOMAIN u -> Nodes(V)]
  /\ Apart(u) /\ Contents(u) = Contents(t) \ {t[n].mData}
  /\ \A m \in DOMAIN u : m = 1 \/ m \div 2 \in DOMAIN u
  /\ \A m, c \in DOMAIN u : c \in {Left(m), Right(m)} =>
       u[m].mData.mFutureTime =< u[c].mData.mFutureTime
  /\ \A m \in DOMAIN u :
       u[m].mSize - Size(u, Left(m)) - Size(u, Right(m)) = IF m = n \div 2 THEN 2 ELSE 1

LEMMA PopWithout ==
  ASSUME NEW V, Timed(V), NEW t, Tree(V, t), NEW n \in DOMAIN t
  PROVE  Without(V, t, n, pop(t, n))
<1> DEFINE u == pop(t, n)
           Way(m) == Pops(t, n, m)
           h(m) == Heir(t, m)
<1>1. PICK x : PopWay(t, n, x)
  BY PopWayIs
<1>2. Popped(t, n, x, u)
  BY <1>1, PopIs
<1> HIDE DEF u
<1> DEFINE D == DOMAIN t \ {x}
<1>3. /\ DOMAIN u = D /\ u = [m \in D |-> u[m]]
      /\ \A m \in D :
           IF Way(m)
           THEN /\ u[m] = [mData |-> t[h(m)].mData, mSize |-> t[m].mSize - 1]
                /\ u[m].mData = t[h(m)].mData /\ u[m].mSize = t[m].mSize - 1
           ELSE u[m] = t[m]
  BY <1>2 DEF Popped
<1>4. \A m \in DOMAIN t : m \in Nat /\ m >= 1
  BY TreeFacts
<1>5. \A m \in DOMAIN t : t[m].mData \in V /\ t[m].mSize \in Int /\ t[m].mData.mFutureTime \in Int
  BY TreeFacts
<1>6. ASSUME NEW m \in D, Way(m)
      PROVE  /\ h(m) \in DOMAIN t /\ h(m) \in {Left(m), Right(m)} /\ Way(h(m))
             /\ h(m) > m /\ h(m) # n /\ h(m) \div 2 = m /\ h(m) \in Nat
             /\ \A c \in DOMAIN t : c \in {Left(m), Right(m)} =>
                  t[h(m)].mData.mFutureTime =< t[c].mData.mFutureTime
  <2>1. Children(t, m) # {} /\ Way(h(m)) BY <1>1, <1>6 DEF PopWay
  <2>2. /\ h(m) \in Children(t, m)
        /\ \A c \in Children(t, m) : t[h(m)].mData.mFutureTime =< t[c].mData.mFutureTime
    BY <2>1, HeirIsChild
  <2>3. h(m) \in DOMAIN t /\ h(m) \in {Left(m), Right(m)} BY <2>2 DEF Children
  <2>4. m \in Nat /\ m >= 1 /\ m >= n /\ n \in Nat BY <1>1, <1>4, <1>6 DEF PopWay
  <2>5. h(m) > m /\ h(m) \div 2 = m /\ h(m) \in Nat BY <2>3, <2>4, Places
  <2>6. h(m) # n BY <2>4, <2>5
  <2> QED BY <2>1, <2>2, <2>3, <2>5, <2>6 DEF Children
<1>7. ASSUME NEW m \in DOMAIN t, Way(m), m # n
      PROVE  m \div 2 \in D /\ Way(m \div 2) /\ h(m \div 2) = m
  <2>1. m \div 2 \in DOMAIN t /\ Way(m \div 2) /\ h(m \div 2) = m /\ m > n
    BY <1>1, <1>7 DEF PopWay
  <2>2. m > 1 /\ m \in Nat BY <2>1, <1>4
  <2>3. m \in {Left(m \div 2), Right(m \div 2)} BY <2>2, Halves
  <2>4. m \div 2 # x BY <2>3, <1>1, <1>7 DEF PopWay, Children
  <2> QED BY <2>1, <2>4
<1> DEFINE w(m) == IF Way(m) THEN h(m) ELSE m
<1>8. ASSUME NEW m \in D PROVE w(m) \in DOMAIN t /\ w(m) # n /\ u[m].mData = t[w(m)].mData
  <2>1. ~Way(m) => m # n BY <1>1 DEF PopWay
  <2> QED BY <2>1, <1>3, <1>6
<1>9. ASSUME NEW m \in D, NEW k \in D, w(m) = w(k) PROVE m = k
  <2>1. CASE Way(m) /\ Way(k) BY <2>1, <1>6, <1>9
  <2>2. CASE Way(m) /\ ~Way(k) BY <2>2, <1>6, <1>9
  <2>3. CASE ~Way(m) /\ Way(k) BY <2>3, <1>6, <1>9
  <2>4. CASE ~Way(m) /\ ~Way(k) BY <2>4, <1>9
  <2> QED BY <2>1, <2>2, <2>3, <2>4
<1>10. ASSUME NEW k \in DOMAIN t, k # n PROVE \E m \in D : w(m) = k
  <2>1. CASE Way(k) BY <2>1, <1>7, <1>10
  <2>2. CASE ~Way(k)
    <3>1. k # x BY <2>2, <1>1 DEF PopWay
    <3> QED BY <3>1, <2>2
  <2> QED BY <2>1, <2>2
<1> HIDE DEF w
<1>11. Apart(u)
  BY <1>3, <1>8, <1>9 DEF Apart, Tree
<1>12. Contents(u) = Contents(t) \ {t[n].mData}
  <2>1. ASSUME NEW m \in D PROVE u[m].mData \in Contents(t) /\ u[m].mData # t[n].mData
    BY <1>8 DEF Contents, Tree, Apart
  <2>2. ASSUME NEW d \in Contents(t), d # t[n].mData PROVE \E m \in D : u[m].mData = d
    <3>1. PICK k \in DOMAIN t : t[k].mData = d BY DEF Contents
    <3>2. k # n BY <3>1, <2>2
    <3>3. PICK m \in D : w(m) = k BY <3>2, <1>10
    <3> QED BY <3>1, <3>3, <1>8
  <2>3. Contents(u) = {u[m].mData : m \in D} BY <1>3 DEF Contents
  <2> HIDE DEF D
  <2> QED BY <2>1, <2>2, <2>3
<1>13. u \in [D -> Nodes(V)]
  <2> SUFFICES ASSUME NEW m \in D PROVE u[m] \in Nodes(V)
    BY <1>3
  <2>1. CASE Way(m)
    <3>1. t[h(m)].mData \in V /\ t[m].mSize - 1 \in Int BY <2>1, <1>5, <1>6
    <3>2. u[m] = [mData |-> t[h(m)].mData, mSize |-> t[m].mSize - 1] BY <2>1, <1>3
    <3> QED BY <3>1, <3>2 DEF Nodes
  <2>2. CASE ~Way(m) BY <2>2, <1>3 DEF Tree
  <2> QED BY <2>1, <2>2
<1>14. ASSUME NEW m \in D PROVE m = 1 \/ m \div 2 \in D
  <2> SUFFICES ASSUME m # 1 PROVE m \div 2 \in D OBVIOUS
  <2>1. m > 1 /\ m \in Nat /\ m \div 2 \in DOMAIN t BY <1>4, TreeFacts
  <2>2. m \in {Left(m \div 2), Right(m \div 2)} BY <2>1, Halves
  <2>3. m \div 2 # x BY <2>2, <1>1 DEF PopWay, Children
  <2> QED BY <2>1, <2>3
<1>15. ASSUME NEW m \in D, NEW c \in D, c \in {Left(m), Right(m)}
       PROVE  u[m].mData.mFutureTime =< u[c].mData.mFutureTime
  <2>1. m \in Nat /\ m >= 1 /\ c \in Nat /\ c > m /\ c \div 2 = m
    BY <1>4, <1>15, Places
  <2>2. t[m].mData.mFutureTime =< t[c].mData.mFutureTime BY <1>15, TreeFacts
  <2>3. CASE ~Way(m)
    <3>1. u[m].mData = t[m].mData BY <2>3, <1>3
    <3>2. CASE ~Way(c) BY <3>1, <3>2, <2>2, <1>3
    <3>3. CASE Way(c)
      <4>1. u[c].mData = t[h(c)].mData BY <3>3, <1>3
      <4>2. t[c].mData.mFutureTime =< t[h(c)].mData.mFutureTime
        BY <3>3, <1>6, TreeFacts
      <4>3. h(c) \in DOMAIN t BY <3>3, <1>6
      <4> QED BY <3>1, <4>1, <4>2, <4>3, <2>2, <1>5
    <3> QED BY <3>2, <3>3
  <2>4. CASE Way(m)
    <3>1. u[m].mData = t[h(m)].mData /\ h(m) \in DOMAIN t
          /\ t[h(m)].mData.mFutureTime =< t[c].mData.mFutureTime
      BY <2>4, <1>3, <1>6, <1>15
    <3>2. CASE ~Way(c) BY <3>1, <3>2, <1>3
    <3>3. CASE Way(c)
      <4>1. u[c].mData = t[h(c)].mData BY <3>3, <1>3
      <4>2. t[c].mData.mFutureTime =< t[h(c)].mData.mFutureTime
        BY <3>3, <1>6, TreeFacts
      <4>3. h(c) \in DOMAIN t BY <3>3, <1>6
      <4> QED BY <3>1, <4>1, <4>2, <4>3, <1>5
    <3> QED BY <3>2, <3>3
  <2> QED BY <2>3, <2>4
<1>16. ASSUME NEW m \in D
       PROVE  u[m].mSize - Size(u, Left(m)) - Size(u, Right(m)) = IF m = n \div 2 THEN 2 ELSE 1
  <2>1. m \in Nat /\ m >= 1 /\ n \in Nat /\ n >= 1 BY <1>4
  <2>2. /\ Left(m) \in Nat /\ Right(m) \in Nat /\ Left(m) > 1 /\ Right(m) > 1 /\ Left(m) # Right(m)
        /\ Left(m) \div 2 = m /\ Right(m) \div 2 = m /\ Left(m) > m /\ Right(m) > m
    BY <2>1, Places
  <2>3. \A k : Size(t, k) \in Int BY SizeInt
  <2>4. Size(t, x) = 1
    <3>1. x \in DOMAIN t /\ Left(x) \notin DOMAIN t /\ Right(x) \notin DOMAIN t
      BY <1>1 DEF PopWay, Children
    <3>2. t[x].mSize - Size(t, Left(x)) - Size(t, Right(x)) = 1 BY <3>1, TreeFacts
    <3>3. Size(t, Left(x)) = 0 /\ Size(t, Right(x)) = 0 BY <3>1 DEF Size
    <3> QED BY <3>1, <3>2, <3>3, <1>5 DEF Size
  <2>5. ASSUME NEW k PROVE Size(u, k) = IF k \in DOMAIN t /\ Way(k) THEN Size(t, k) - 1 ELSE Size(t, k)
    <3>1. CASE k = x
      <4>1. k \notin DOMAIN u /\ k \in DOMAIN t /\ Way(k) BY <3>1, <1>1, <1>3 DEF PopWay
      <4> QED BY <4>1, <3>1, <2>4 DEF Size
    <3>2. CASE k \in D
      <4>1. Size(u, k) = u[k].mSize /\ Size(t, k) = t[k].mSize BY <3>2, <1>3 DEF Size
      <4>2. u[k].mSize = IF Way(k) THEN t[k].mSize - 1 ELSE t[k].mSize BY <3>2, <1>3
      <4> QED BY <4>1, <4>2, <3>2
    <3>3. CASE k \notin DOMAIN t
      <4>1. k \notin DOMAIN u BY <3>3, <1>3
      <4> QED BY <4>1, <3>3 DEF Size
    <3> QED BY <3>1, <3>2, <3>3
  <2>6. u[m].mSize = Size(u, m) BY <1>3 DEF Size
  <2>7. Size(t, m) - Size(t, Left(m)) - Size(t, Right(m)) = 1
    BY TreeFacts DEF Size
  <2>8. ASSUME NEW c \in {Left(m), Right(m)}, c \in DOMAIN t, Way(c)
        PROVE  c = n \/ (Way(m) /\ h(m) = c)
    BY <2>2, <2>8, <1>7
  <2>9. CASE Way(m)
    <3>1. m # n \div 2
      <4>1. m >= n BY <2>9, <2>1, <1>1 DEF PopWay
      <4> QED BY <4>1, <2>1
    <3>2. /\ h(m) \in DOMAIN t /\ h(m) \in {Left(m), Right(m)} /\ Way(h(m))
      BY <2>9, <1>6
    <3>3. Left(m) # n /\ Right(m) # n
      <4>1. m >= n BY <2>9, <2>1, <1>1 DEF PopWay
      <4> QED BY <4>1, <2>1, <2>2
    <3>4. \A c \in {Left(m), Right(m)} : Size(u, c) = IF c = h(m) THEN Size(t, c) - 1 ELSE Size(t, c)
      BY <3>2, <3>3, <2>5, <2>8
    <3>5. Size(u, m) = Size(t, m) - 1 BY <2>9, <2>5
    <3> HIDE DEF h, Way
    <3>6. CASE h(m) = Left(m)
      <4>1. Size(u, Left(m)) = Size(t, Left(m)) - 1 /\ Size(u, Right(m)) = Size(t, Right(m))
        BY <3>4, <3>6, <2>2
      <4> QED BY <4>1, <3>5, <3>1, <2>3, <2>6, <2>7
    <3>7. CASE h(m) = Right(m)
      <4>1. Size(u, Left(m)) = Size(t, Left(m)) /\ Size(u, Right(m)) = Size(t, Right(m)) - 1
        BY <3>4, <3>7, <2>2
      <4> QED BY <4>1, <3>5, <3>1, <2>3, <2>6, <2>7
    <3> QED BY <3>2, <3>6, <3>7
  <2>10. CASE ~Way(m)
    <3>1. Size(u, m) = Size(t, m) BY <2>10, <2>5
    <3>2. \A c \in {Left(m), Right(m)} : Size(u, c) = IF c = n THEN Size(t, c) - 1 ELSE Size(t, c)
      <4>1. n \in DOMAIN t /\ Way(n) BY <1>1 DEF PopWay
      <4> QED BY <4>1, <2>5, <2>8, <2>10
    <3>3. m = n \div 2 <=> n \in {Left(m), Right(m)}
      <4>1. CASE n = 1
        <5>1. n \div 2 = 0 BY <4>1
        <5> QED BY <5>1, <4>1, <2>1, <2>2
      <4>2. CASE n > 1 BY <4>2, <2>1, Halves
      <4> QED BY <4>1, <4>2, <2>1
    <3> HIDE DEF h, Way
    <3>4. CASE n = Left(m)
      <4>1. Size(u, Left(m)) = Size(t, Left(m)) - 1 /\ Size(u, Right(m)) = Size(t, Right(m))
        BY <3>2, <3>4, <2>2
      <4> QED BY <4>1, <3>1, <3>3, <3>4, <2>3, <2>6, <2>7
    <3>5. CASE n = Right(m)
      <4>1. Size(u, Left(m)) = Size(t, Left(m)) /\ Size(u, Right(m)) = Size(t, Right(m)) - 1
        BY <3>2, <3>5, <2>2
      <4> QED BY <4>1, <3>1, <3>3, <3>5, <2>3, <2>6, <2>7
    <3>6. CASE n # Left(m) /\ n # Right(m)
      <4>1. Size(u, Left(m)) = Size(t, Left(m)) /\ Size(u, Right(m)) = Size(t, Right(m))
        BY <3>2, <3>6
      <4> QED BY <4>1, <3>1, <3>3, <3>6, <2>3, <2>6, <2>7
    <3> QED BY <3>4, <3>5, <3>6
  <2> QED BY <2>9, <2>10
<1>17. Without(V, t, n, u)
  BY <1>3, <1>11, <1>12, <1>13, <1>14, <1>15, <1>16 DEF Without
<1> QED BY <1>17 DEF u

\* a tree reaches up to its top
LEMMA AboveInTree ==
  ASSUME NEW V, Timed(V), NEW t, Tree(V, t), NEW n \in DOMAIN t, NEW m \in Nat, m >= 1, Above(m, n)
  PROVE  /\ m \in DOMAIN t /\ m =< n /\ n \in Nat
         /\ t[m].mData.mFutureTime =< t[n].mData.mFutureTime
<1> DEFINE P == {k \in Nat : k \in DOMAIN t =>
                   m \in DOMAIN t /\ t[m].mData.mFutureTime =< t[k].mData.mFutureTime}
<1>1. m \in P
  <2>1. m \in DOMAIN t => t[m].mData.mFutureTime \in Int BY TreeFacts
  <2> QED BY <2>1
<1>2. ASSUME NEW k \in Nat, k > m, k \div 2 \in P PROVE k \in P
  <2> SUFFICES ASSUME k \in DOMAIN t
               PROVE  m \in DOMAIN t /\ t[m].mData.mFutureTime =< t[k].mData.mFutureTime
    OBVIOUS
  <2>1. k > 1 BY <1>2
  <2>2. k \div 2 \in DOMAIN t BY <2>1, TreeFacts
  <2>3. m \in DOMAIN t /\ t[m].mData.mFutureTime =< t[k \div 2].mData.mFutureTime
    BY <2>2, <1>2
  <2>4. k \in {Left(k \div 2), Right(k \div 2)} BY <2>1, Halves
  <2>5. t[k \div 2].mData.mFutureTime =< t[k].mData.mFutureTime BY <2>2, <2>4, TreeFacts
  <2>6. /\ t[m].mData.mFutureTime \in Int /\ t[k].mData.mFutureTime \in Int
        /\ t[k \div 2].mData.mFutureTime \in Int
    BY <2>2, <2>3, TreeFacts
  <2> QED BY <2>3, <2>5, <2>6
<1>3. n \in Nat BY TreeFacts
<1> HIDE DEF P
<1>4. n \in P /\ n >= m BY <1>1, <1>2, <1>3, AboveInduction
<1> QED BY <1>3, <1>4 DEF P

LEMMA PopKeeps ==
  ASSUME NEW V, Timed(V), NEW t, Tree(V, t), NEW n \in DOMAIN t, NEW m \in DOMAIN t, m < n
  PROVE  m \in DOMAIN pop(t, n)
<1>1. PICK x : PopWay(t, n, x) BY PopWayIs
<1>2. DOMAIN pop(t, n) = DOMAIN t \ {x} BY <1>1, PopIs DEF Popped
<1>3. m \in Nat /\ n \in Nat /\ x \in Nat BY <1>1, TreeFacts DEF PopWay
<1>4. x >= n BY <1>1, <1>3 DEF PopWay
<1> QED BY <1>2, <1>3, <1>4

\* u is t without a datum
TreeWithout(V, t, datum, u) ==
  /\ Tree(V, u) /\ Contents(u) = Contents(t) \ {datum}

LEMMA TreeFromParts ==
  ASSUME NEW V, Timed(V), NEW t, Tree(V, t), NEW u, DOMAIN u \subseteq DOMAIN t,
         u \in [DOMAIN u -> Nodes(V)], Apart(u),
         \A m \in DOMAIN u : m = 1 \/ m \div 2 \in DOMAIN u,
         \A m, c \in DOMAIN u : c \in {Left(m), Right(m)} =>
           u[m].mData.mFutureTime =< u[c].mData.mFutureTime,
         \A m \in DOMAIN u : u[m].mSize - Size(u, Left(m)) - Size(u, Right(m)) = 1
  PROVE  Tree(V, u)
<1>1. \E N \in Nat : DOMAIN u \subseteq 1..N
  <2>1. PICK N \in Nat : DOMAIN t \subseteq 1..N BY DEF Tree
  <2> QED BY <2>1
<1>2. ASSUME NEW m \in DOMAIN u, NEW c \in Children(u, m)
      PROVE  ~outRanks(u[c].mData, u[m].mData)
  <2>1. c \in DOMAIN u /\ c \in {Left(m), Right(m)} BY DEF Children
  <2>2. \A k \in DOMAIN u : u[k].mData.mFutureTime \in Int
    BY DEF Nodes, Timed
  <2> QED BY <2>1, <2>2 DEF outRanks
<1>3. checkTree(u) BY <1>2 DEF checkTree
<1> QED BY <1>1, <1>3 DEF Tree

LEMMA PopTree ==
  ASSUME NEW V, Timed(V), NEW t, Tree(V, t), 1 \in DOMAIN t
  PROVE  TreeWithout(V, t, peek(t), pop(t, 1))
<1> DEFINE u == pop(t, 1)
<1>1. Without(V, t, 1, u) BY PopWithout
<1> HIDE DEF u
<1>2. \A m \in DOMAIN u : m \in Nat /\ m >= 1 BY <1>1, TreeFacts DEF Without
<1>3. \A m \in DOMAIN u : m # 1 \div 2 BY <1>2
<1>4. \A m \in DOMAIN u : u[m].mSize - Size(u, Left(m)) - Size(u, Right(m)) = 1
  BY <1>1, <1>3 DEF Without
<1>5. Tree(V, u) BY <1>1, <1>4, TreeFromParts DEF Without
<1>6. Contents(u) = Contents(t) \ {peek(t)} BY <1>1 DEF Without, peek
<1> QED BY <1>5, <1>6 DEF TreeWithout, u

\* what is in the tree is found
LEMMA PlacesOfIs ==
  ASSUME NEW V, Timed(V), NEW t, Tree(V, t), NEW datum
  PROVE  /\ \A n \in PlacesOf(t, datum) : n \in DOMAIN t /\ t[n].mData = datum
         /\ PlacesOf(t, datum) # {} <=> datum \in Contents(t)
<1>1. \A n \in PlacesOf(t, datum) : n \in DOMAIN t /\ t[n].mData = datum
  BY DEF PlacesOf
<1>2. PlacesOf(t, datum) # {} => datum \in Contents(t) BY <1>1 DEF Contents
<1>3. ASSUME datum \in Contents(t) PROVE PlacesOf(t, datum) # {}
  <2>1. PICK n \in DOMAIN t : t[n].mData = datum BY <1>3 DEF Contents
  <2>2. ASSUME NEW m \in DOMAIN t, Above(m, n) PROVE ~outRanks(datum, t[m].mData)
    <3>1. m \in Nat /\ m >= 1 BY TreeFacts
    <3>2. t[m].mData.mFutureTime =< t[n].mData.mFutureTime BY <3>1, <2>2, AboveInTree
    <3>3. t[m].mData.mFutureTime \in Int /\ t[n].mData.mFutureTime \in Int BY TreeFacts
    <3> QED BY <3>2, <3>3, <2>1 DEF outRanks
  <2>3. n \in PlacesOf(t, datum) BY <2>1, <2>2 DEF PlacesOf
  <2> QED BY <2>3
<1> QED BY <1>1, <1>2, <1>3

\* u is t after a pop at n, and v has counted it in the places above
Recounted(t, n, u, v) ==
  /\ DOMAIN v = DOMAIN u /\ v = [m \in DOMAIN v |-> v[m]]
  /\ \A m \in DOMAIN v :
       IF m # n /\ Above(m, n)
       THEN /\ v[m] = [mData |-> u[m].mData, mSize |-> u[m].mSize - 1]
            /\ v[m].mData = u[m].mData /\ v[m].mSize = u[m].mSize - 1
       ELSE v[m] = u[m]

LEMMA RemoveIs ==
  ASSUME NEW V, Timed(V), NEW t, Tree(V, t), NEW datum
  PROVE  /\ datum \notin Contents(t) => remove(t, datum) = t
         /\ datum \in Contents(t) =>
              \E n \in DOMAIN t : /\ t[n].mData = datum
                                  /\ Recounted(t, n, pop(t, n), remove(t, datum))
<1>1. ASSUME datum \notin Contents(t) PROVE remove(t, datum) = t
  <2>1. PlacesOf(t, datum) = {} BY <1>1, PlacesOfIs
  <2> QED BY <2>1 DEF remove
<1>2. ASSUME datum \in Contents(t)
      PROVE  \E n \in DOMAIN t : /\ t[n].mData = datum
                                 /\ Recounted(t, n, pop(t, n), remove(t, datum))
  <2> DEFINE n == CHOOSE m \in PlacesOf(t, datum) : TRUE
             u == pop(t, n)
             node(m) == IF m # n /\ Above(m, n)
                        THEN [mData |-> u[m].mData, mSize |-> u[m].mSize - 1] ELSE u[m]
             v == [m \in DOMAIN u |-> node(m)]
  <2>1. PlacesOf(t, datum) # {} BY <1>2, PlacesOfIs
  <2>2. n \in PlacesOf(t, datum) BY <2>1
  <2>3. n \in DOMAIN t /\ t[n].mData = datum BY <2>2, PlacesOfIs
  <2>4. remove(t, datum) = v BY <2>1 DEF remove
  <2> HIDE DEF n, u
  <2>5. ASSUME NEW m \in DOMAIN u, m # n, Above(m, n)
        PROVE  /\ v[m] = [mData |-> u[m].mData, mSize |-> u[m].mSize - 1]
               /\ v[m].mData = u[m].mData /\ v[m].mSize = u[m].mSize - 1
    <3>1. v[m] = [mData |-> u[m].mData, mSize |-> u[m].mSize - 1] BY <2>5
    <3> QED BY <3>1
  <2>6. ASSUME NEW m \in DOMAIN u, ~(m # n /\ Above(m, n)) PROVE v[m] = u[m]
    BY <2>6
  <2> HIDE DEF node
  <2>7. DOMAIN v = DOMAIN u /\ v = [m \in DOMAIN v |-> v[m]] OBVIOUS
  <2> HIDE DEF v
  <2>8. Recounted(t, n, u, v) BY <2>5, <2>6, <2>7 DEF Recounted
  <2>9. Recounted(t, n, pop(t, n), remove(t, datum)) BY <2>4, <2>8 DEF u
  <2> QED BY <2>3, <2>9
<1> QED BY <1>1, <1>2

LEMMA RecountedTree ==
  ASSUME NEW V, Timed(V), NEW t, Tree(V, t), NEW n \in DOMAIN t, NEW u, u = pop(t, n),
         NEW v, Recounted(t, n, u, v)
  PROVE  TreeWithout(V, t, t[n].mData, v)
<1> DEFINE Up(m) == m # n /\ Above(m, n)
           D == DOMAIN u
<1>1. Without(V, t, n, u) BY PopWithout
<1>2. /\ DOMAIN v = D /\ v = [m \in D |-> v[m]]
      /\ \A m \in D : v[m].mData = u[m].mData
      /\ \A m \in D : Up(m) => /\ v[m] = [mData |-> u[m].mData, mSize |-> u[m].mSize - 1]
                               /\ v[m].mSize = u[m].mSize - 1
      /\ \A m \in D : ~Up(m) => v[m] = u[m]
  BY DEF Recounted
<1>3. /\ D \subseteq DOMAIN t /\ Apart(u) /\ Contents(u) = Contents(t) \ {t[n].mData}
      /\ \A m \in D : m = 1 \/ m \div 2 \in D
      /\ \A m, c \in D : c \in {Left(m), Right(m)} =>
           u[m].mData.mFutureTime =< u[c].mData.mFutureTime
  BY <1>1 DEF Without
<1>4. \A m \in D : u[m] \in Nodes(V) /\ u[m].mData \in V /\ u[m].mSize \in Int
  BY <1>1 DEF Without, Nodes
<1>5. \A m \in DOMAIN t : m \in Nat /\ m >= 1 BY TreeFacts
<1>6. v \in [D -> Nodes(V)]
  <2> SUFFICES ASSUME NEW m \in D PROVE v[m] \in Nodes(V) BY <1>2
  <2>1. CASE Up(m)
    <3>1. v[m] = [mData |-> u[m].mData, mSize |-> u[m].mSize - 1] BY <2>1, <1>2
    <3>2. u[m].mData \in V /\ u[m].mSize - 1 \in Int BY <1>4
    <3> QED BY <3>1, <3>2 DEF Nodes
  <2>2. CASE ~Up(m) BY <2>2, <1>2, <1>4
  <2> QED BY <2>1, <2>2
<1>7. Apart(v)
  <2> HIDE DEF D
  <2> QED BY <1>2, <1>3 DEF Apart, D
<1>8. Contents(v) = Contents(u)
  <2>1. Contents(v) = {v[m].mData : m \in D} BY <1>2 DEF Contents
  <2>2. Contents(u) = {u[m].mData : m \in D} BY DEF Contents
  <2> HIDE DEF D, Up
  <2> QED BY <2>1, <2>2, <1>2
<1>9. ASSUME NEW m \in DOMAIN t, Up(m) PROVE m \in D /\ m < n
  <2>1. m =< n /\ n \in Nat /\ m \in Nat BY <1>9, <1>5, AboveInTree
  <2> QED BY <2>1, <1>9, PopKeeps
<1>10. ASSUME NEW m \in D
       PROVE  v[m].mSize - Size(v, Left(m)) - Size(v, Right(m)) = 1
  <2>1. m \in Nat /\ m >= 1 /\ n \in Nat /\ n >= 1 BY <1>3, <1>5
  <2>2. /\ Left(m) \in Nat /\ Right(m) \in Nat /\ Left(m) > 1 /\ Right(m) > 1 /\ Left(m) # Right(m)
        /\ Left(m) \div 2 = m /\ Right(m) \div 2 = m
    BY <2>1, Places
  <2>3. ASSUME NEW k PROVE Size(u, k) \in Int /\ (k \notin D => Size(u, k) = 0)
    BY <1>4 DEF Size
  <2>4. ASSUME NEW k PROVE Size(v, k) = IF k \in D /\ Up(k) THEN Size(u, k) - 1 ELSE Size(u, k)
    <3>1. CASE k \in D
      <4>1. Size(v, k) = v[k].mSize /\ Size(u, k) = u[k].mSize BY <3>1, <1>2 DEF Size
      <4> QED BY <4>1, <3>1, <1>2
    <3>2. CASE k \notin D
      <4>1. k \notin DOMAIN v BY <3>2, <1>2
      <4> QED BY <4>1, <3>2 DEF Size
    <3> QED BY <3>1, <3>2
  <2>5. v[m].mSize = Size(v, m) BY <1>2 DEF Size
  <2>6. Size(u, m) - Size(u, Left(m)) - Size(u, Right(m)) = IF m = n \div 2 THEN 2 ELSE 1
    BY <1>1 DEF Without, Size
  <2>7. ASSUME NEW c \in {Left(m), Right(m)}, Above(c, n) PROVE Up(m)
    <3>1. c \in Nat /\ c > 1 /\ c \div 2 = m BY <2>2
    <3> QED BY <3>1, <2>1, <2>7, AboveParent
  <2>8. CASE ~Up(m)
    <3>1. m # n \div 2
      <4>1. SUFFICES ASSUME m = n \div 2 PROVE FALSE OBVIOUS
      <4>2. n > 1 BY <4>1, <2>1
      <4>3. Above(n, n) BY <2>1, AboveStep
      <4> QED BY <4>1, <4>2, <4>3, <2>1, <2>8, AboveParent
    <3>2. Size(v, m) = Size(u, m) /\ Size(v, Left(m)) = Size(u, Left(m))
          /\ Size(v, Right(m)) = Size(u, Right(m))
      BY <2>4, <2>7, <2>8
    <3> QED BY <3>1, <3>2, <2>5, <2>6
  <2>9. CASE Up(m)
    <3>1. /\ Above(Left(m), n) \/ Above(Right(m), n)
          /\ ~(Above(Left(m), n) /\ Above(Right(m), n))
      BY <2>9, <2>1, AboveChild
    <3>2. Size(v, m) = Size(u, m) - 1 BY <2>9, <2>4
    <3>3. m = n \div 2 <=> n \in {Left(m), Right(m)}
      <4>1. CASE n = 1
        <5>1. n \div 2 = 0 BY <4>1
        <5> QED BY <5>1, <4>1, <2>1, <2>2
      <4>2. CASE n > 1 BY <4>2, <2>1, Halves
      <4> QED BY <4>1, <4>2, <2>1
    <3>4. Above(n, n) BY <2>1, AboveStep
    <3>5. ASSUME NEW c \in {Left(m), Right(m)}, Above(c, n), c # n
          PROVE  Size(v, c) = Size(u, c) - 1
      <4>1. c \in Nat /\ c >= 1 BY <2>2
      <4>2. c \in DOMAIN t BY <4>1, <3>5, AboveInTree
      <4>3. c \in D BY <4>2, <3>5, <1>9
      <4> QED BY <4>3, <3>5, <2>4
    <3>6. ASSUME NEW c \in {Left(m), Right(m)}, ~Above(c, n) \/ c = n
          PROVE  Size(v, c) = Size(u, c)
      BY <3>6, <2>4
    <3> HIDE DEF Up, D
    <3>7. CASE Above(Left(m), n)
      <4>1. Size(v, Right(m)) = Size(u, Right(m)) /\ n # Right(m)
        BY <3>1, <3>4, <3>6, <3>7
      <4>2. CASE n = Left(m)
        <5>1. Size(v, Left(m)) = Size(u, Left(m)) BY <3>6, <4>2
        <5> QED BY <5>1, <4>1, <4>2, <3>2, <3>3, <2>3, <2>5, <2>6
      <4>3. CASE n # Left(m)
        <5>1. Size(v, Left(m)) = Size(u, Left(m)) - 1 BY <3>5, <3>7, <4>3
        <5>2. m # n \div 2 BY <3>3, <4>1, <4>3
        <5> QED BY <5>1, <5>2, <4>1, <3>2, <2>3, <2>5, <2>6
      <4> QED BY <4>2, <4>3
    <3>8. CASE Above(Right(m), n)
      <4>1. Size(v, Left(m)) = Size(u, Left(m)) /\ n # Left(m)
        BY <3>1, <3>4, <3>6, <3>8
      <4>2. CASE n = Right(m)
        <5>1. Size(v, Right(m)) = Size(u, Right(m)) BY <3>6, <4>2
        <5> QED BY <5>1, <4>1, <4>2, <3>2, <3>3, <2>3, <2>5, <2>6
      <4>3. CASE n # Right(m)
        <5>1. Size(v, Right(m)) = Size(u, Right(m)) - 1 BY <3>5, <3>8, <4>3
        <5>2. m # n \div 2 BY <3>3, <4>1, <4>3
        <5> QED BY <5>1, <5>2, <4>1, <3>2, <2>3, <2>5, <2>6
      <4> QED BY <4>2, <4>3
    <3> QED BY <3>1, <3>7, <3>8
  <2> QED BY <2>8, <2>9
<1>11. \A m, c \in D : c \in {Left(m), Right(m)} =>
         v[m].mData.mFutureTime =< v[c].mData.mFutureTime
  BY <1>2, <1>3
<1>12. /\ DOMAIN v \subseteq DOMAIN t /\ v \in [DOMAIN v -> Nodes(V)]
       /\ \A m \in DOMAIN v : m = 1 \/ m \div 2 \in DOMAIN v
       /\ \A m, c \in DOMAIN v : c \in {Left(m), Right(m)} =>
            v[m].mData.mFutureTime =< v[c].mData.mFutureTime
       /\ \A m \in DOMAIN v : v[m].mSize - Size(v, Left(m)) - Size(v, Right(m)) = 1
  <2>1. DOMAIN v = D BY <1>2
  <2> HIDE DEF D, Up
  <2> QED BY <2>1, <1>3, <1>6, <1>10, <1>11
<1>13. Tree(V, v) BY <1>7, <1>12, TreeFromParts
<1> QED BY <1>3, <1>8, <1>13 DEF TreeWithout

LEMMA RemoveTree ==
  ASSUME NEW V, Timed(V), NEW t, Tree(V, t), NEW datum
  PROVE  /\ TreeWithout(V, t, datum, remove(t, datum))
         /\ datum \notin Contents(t) => remove(t, datum) = t
<1>1. CASE datum \notin Contents(t)
  <2>1. remove(t, datum) = t BY <1>1, RemoveIs
  <2>2. Contents(t) = Contents(t) \ {datum} BY <1>1
  <2> QED BY <2>1, <2>2 DEF TreeWithout
<1>2. CASE datum \in Contents(t)
  <2>1. PICK n \in DOMAIN t : /\ t[n].mData = datum
                              /\ Recounted(t, n, pop(t, n), remove(t, datum))
    BY <1>2, RemoveIs
  <2> QED BY <2>1, <1>2, RecountedTree
<1> QED BY <1>1, <1>2

\* the tree without places, and the top of the others
LEMMA EmptyTree ==
  ASSUME NEW V
  PROVE  Tree(V, Empty) /\ Contents(Empty) = {} /\ Empty = [n \in {} |-> Empty[n]]
<1>1. DOMAIN Empty = {} BY DEF Empty
<1>2. Empty = [n \in {} |-> Empty[n]] BY DEF Empty
<1>3. DOMAIN Empty \subseteq 1..0 BY <1>1
<1>4. checkTree(Empty) BY <1>1 DEF checkTree
<1>5. Apart(Empty) BY <1>1 DEF Apart
<1>6. Empty \in [DOMAIN Empty -> Nodes(V)] BY <1>1, <1>2
<1> QED BY <1>1, <1>2, <1>3, <1>4, <1>5, <1>6 DEF Tree, Contents

LEMMA PeekIs ==
  ASSUME NEW V, Timed(V), NEW t, Tree(V, t)
  PROVE  /\ t = Empty <=> Contents(t) = {}
         /\ t # Empty => 1 \in DOMAIN t /\ peek(t) \in Contents(t)
         /\ Contents(t) \subseteq V
<1>1. Contents(Empty) = {} BY EmptyTree
<1>2. ASSUME t # Empty PROVE 1 \in DOMAIN t /\ peek(t) \in Contents(t)
  <2>1. t = [n \in DOMAIN t |-> t[n]] BY DEF Tree
  <2>2. DOMAIN t # {}
    <3>1. SUFFICES ASSUME DOMAIN t = {} PROVE FALSE OBVIOUS
    <3>2. DOMAIN Empty = {} BY DEF Empty
    <3>3. Empty = [n \in DOMAIN Empty |-> Empty[n]] BY DEF Empty
    <3>4. Empty = t BY <3>1, <3>2, <3>3, <2>1
    <3> QED BY <3>4, <1>2
  <2>3. 1 \in DOMAIN t BY <2>2, TreeTop
  <2> QED BY <2>3 DEF Contents, peek
<1>3. Contents(t) \subseteq V BY TreeFacts DEF Contents
<1> QED BY <1>1, <1>2, <1>3

-----------------------------------------------------------------------------
(***************************************************************************)
(* The timers: what every pointer to a delegate may rely on, and that each *)
(* start ends once.                                                        *)
(***************************************************************************)

\* what the heaps hold
Timers == [timer : Delegates, mFutureTime : 0..MaxTime]

Tasks == [at : {"msg_q_rcv", "settime", "expire", "stop", "timeOutCallback", "next"},
          c : Containers \cup {None}, timer : Delegates \cup {None},
          client : Clients \cup {None}, limit : 0..MaxTime]
Polls == [at : {"epoll_wait", "run", "removePoll", "sendMsg"}, fds : SUBSET Containers,
          c : Containers \cup {None}]
Memory == [mClient : Clients \cup {None}, mFutureTime : 0..MaxTime,
           mContainer : Containers \cup {None}, live : BOOLEAN]

Heaps ==
  /\ mTree = [c \in Containers |-> mTree[c]]
  /\ \A c \in Containers : Tree(Timers, mTree[c])

\* an expiry is no delegate's
Addressed(m) == IF m.what = "expire" THEN m.timer = None ELSE m.timer \in Delegates
Asked ==
  /\ mQ \in Seq(TimerMessages)
  /\ \A i \in 1..Len(mQ) : Addressed(mQ[i])

TaskTyped ==
  /\ task \in Tasks
  /\ task.at = "settime" => task.c \in Containers /\ mTree[task.c] # Empty
  /\ task.at \in {"expire", "stop", "timeOutCallback", "next"} => task.c \in Containers
  /\ task.at \in {"expire", "stop"} => task.timer \in Delegates
  /\ task.at \in {"stop", "timeOutCallback"} => task.client \in Clients

PollTyped ==
  /\ poll \in Polls /\ polled \subseteq Containers
  /\ poll.at \in {"removePoll", "sendMsg"} => poll.c \in Containers
  /\ timerfd \in [Containers -> 0..MaxTime \cup {Disarmed}]

ClientsTyped ==
  /\ now \in 0..MaxTime
  /\ mTimer \in [Clients -> Delegates \cup {None}]
  /\ delegate \in [Delegates -> Memory]

Counted ==
  /\ starts \in [Clients -> Nat] /\ stops \in [Clients -> Nat] /\ callbacks \in [Clients -> Nat]

Typed == Heaps /\ Asked /\ TaskTyped /\ PollTyped /\ ClientsTyped

LEMMA TimersTimed == Timed(Timers)
BY TimerBounds DEF Timers, Timed

LEMMA TimerTypedInit == TimerInit => Typed /\ Counted
<1> SUFFICES ASSUME TimerInit PROVE Typed /\ Counted
  OBVIOUS
<1>1. Heaps
  <2>1. mTree = [c \in Containers |-> Empty] BY DEF TimerInit
  <2>2. \A c \in Containers : mTree[c] = Empty BY <2>1
  <2>3. mTree = [c \in Containers |-> mTree[c]] BY <2>1
  <2>4. Tree(Timers, Empty) BY EmptyTree
  <2> QED BY <2>2, <2>3, <2>4 DEF Heaps
<1>2. Asked
  BY DEF TimerInit, Asked
<1>3. TaskTyped
  BY TimerBounds DEF TimerInit, TaskTyped, TaskIdle, Tasks, None
<1>4. PollTyped
  BY DEF TimerInit, PollTyped, Waiting, Polls, None, Disarmed
<1>5. ClientsTyped
  BY TimerBounds, NoneIsNobody DEF TimerInit, ClientsTyped, Memory, Freed, None
<1>6. Counted
  BY DEF TimerInit, Counted
<1> QED BY <1>1, <1>2, <1>3, <1>4, <1>5, <1>6 DEF Typed

\* the queue with one message more, and without the first
Sent(m) ==
  /\ Len(mQ') = Len(mQ) + 1 /\ mQ'[Len(mQ) + 1] = m
  /\ \A i \in 1..Len(mQ) : mQ'[i] = mQ[i]
Received(what, c, d) ==
  /\ Len(mQ) >= 1 /\ Len(mQ') = Len(mQ) - 1
  /\ \A i \in 1..Len(mQ') : mQ'[i] = mQ[i + 1]
  /\ mQ[1].what = what /\ mQ[1].c = c /\ mQ[1].timer = d

LEMMA SendIs ==
  ASSUME Asked, NEW m \in TimerMessages,
         Addressed(m), sendMsg(m)
  PROVE  Asked' /\ Sent(m) /\ Len(mQ) \in Nat
<1>1. mQ' = Append(mQ, m) BY DEF sendMsg, linked_list_add
<1>2. mQ \in Seq(TimerMessages) BY DEF Asked
<1>3. mQ' \in Seq(TimerMessages) /\ Sent(m) /\ Len(mQ) \in Nat BY <1>1, <1>2 DEF Sent
<1>4. ASSUME NEW i \in 1..Len(mQ')
      PROVE  Addressed(mQ'[i])
  <2>1. CASE i = Len(mQ) + 1 BY <2>1, <1>3 DEF Sent
  <2>2. CASE i # Len(mQ) + 1
    <3>1. i \in 1..Len(mQ) BY <2>2, <1>3 DEF Sent
    <3> QED BY <3>1, <1>3 DEF Sent, Asked
  <2> QED BY <2>1, <2>2
<1> QED BY <1>3, <1>4 DEF Asked

LEMMA ReceiveIs ==
  ASSUME Asked, NEW what, msg_q_rcv(what)
  PROVE  /\ Asked' /\ Received(what, Head(mQ).c, Head(mQ).timer)
         /\ Head(mQ).c \in Containers /\ Len(mQ) \in Nat /\ Len(mQ') \in Nat
         /\ what \in {"push", "remove"} => Head(mQ).timer \in Delegates
<1>1. mQ # <<>> /\ Head(mQ).what = what /\ mQ' = Tail(mQ) BY DEF msg_q_rcv
<1>2. mQ \in Seq(TimerMessages) BY DEF Asked
<1>3. /\ mQ' \in Seq(TimerMessages) /\ Len(mQ) \in Nat /\ Len(mQ) >= 1
      /\ Len(mQ') = Len(mQ) - 1 /\ Head(mQ) = mQ[1]
      /\ \A i \in 1..Len(mQ') : mQ'[i] = mQ[i + 1]
  BY <1>1, <1>2
<1>4. mQ[1] \in TimerMessages BY <1>2, <1>3
<1>5. Head(mQ).c \in Containers BY <1>3, <1>4 DEF TimerMessages
<1>6. Received(what, Head(mQ).c, Head(mQ).timer) BY <1>1, <1>3 DEF Received
<1>7. \A i \in 1..Len(mQ') : Addressed(mQ'[i])
  <2> SUFFICES ASSUME NEW i \in 1..Len(mQ') PROVE Addressed(mQ'[i]) OBVIOUS
  <2>1. i + 1 \in 1..Len(mQ) /\ mQ'[i] = mQ[i + 1] BY <1>3
  <2> QED BY <2>1 DEF Asked
<1>8. what \in {"push", "remove"} => Head(mQ).timer \in Delegates
  BY <1>1, <1>3 DEF Asked, Addressed
<1> QED BY <1>3, <1>5, <1>6, <1>7, <1>8 DEF Asked

\* one heap changes
LEMMA HeapIs ==
  ASSUME Heaps, NEW c \in Containers, NEW t, Tree(Timers, t),
         mTree' = [mTree EXCEPT ![c] = t]
  PROVE  Heaps' /\ mTree'[c] = t /\ \A k \in Containers : k # c => mTree'[k] = mTree[k]
<1>1. mTree = [k \in Containers |-> mTree[k]] BY DEF Heaps
<1>2. mTree' = [k \in Containers |-> IF k = c THEN t ELSE mTree[k]]
  BY <1>1
<1>3. mTree'[c] = t /\ \A k \in Containers : k # c => mTree'[k] = mTree[k]
  BY <1>2
<1>4. mTree' = [k \in Containers |-> mTree'[k]] BY <1>2
<1>5. \A k \in Containers : Tree(Timers, mTree'[k]) BY <1>3 DEF Heaps
<1> QED BY <1>3, <1>4, <1>5 DEF Heaps

\* the top leaves its heap and expires
TopPopped(c, d) ==
  /\ \A k \in Containers :
       Contents(mTree'[k]) = IF k = c THEN Contents(mTree[c]) \ {peek(mTree[c])}
                                      ELSE Contents(mTree[k])
  /\ peek(mTree[c]) \in Contents(mTree[c]) /\ peek(mTree[c]).timer = d
  /\ task'.at = "expire" /\ task'.timer = d

LEMMA PopTopIs ==
  ASSUME Heaps, NEW c \in Containers, mTree[c] # Empty, NEW limit \in 0..MaxTime, PopTop(c, limit)
  PROVE  /\ Heaps' /\ TaskTyped' /\ peek(mTree[c]).timer \in Delegates
         /\ TopPopped(c, peek(mTree[c]).timer)
<1> DEFINE t == mTree[c]
<1>1. Tree(Timers, t) BY DEF Heaps
<1>2. Timed(Timers) BY TimersTimed
<1>3. 1 \in DOMAIN t /\ peek(t) \in Contents(t) /\ Contents(t) \subseteq Timers
  BY <1>1, <1>2, PeekIs
<1>4. Tree(Timers, pop(t, 1)) /\ Contents(pop(t, 1)) = Contents(t) \ {peek(t)}
  BY <1>1, <1>2, <1>3, PopTree DEF TreeWithout
<1>5. mTree' = [mTree EXCEPT ![c] = pop(t, 1)] BY DEF PopTop
<1> HIDE DEF t
<1>6. /\ Heaps' /\ mTree'[c] = pop(t, 1) /\ \A k \in Containers : k # c => mTree'[k] = mTree[k]
  BY <1>4, <1>5, HeapIs
<1>7. peek(t).timer \in Delegates BY <1>3 DEF Timers
<1>8. task' = [at |-> "expire", c |-> c, timer |-> peek(t).timer, client |-> None, limit |-> limit]
  BY DEF PopTop, t
<1>9. TaskTyped' BY <1>7, <1>8 DEF TaskTyped, Tasks
<1>10. \A k \in Containers :
         Contents(mTree'[k]) = IF k = c THEN Contents(t) \ {peek(t)} ELSE Contents(mTree[k])
  BY <1>4, <1>6
<1>11. task'.at = "expire" /\ task'.timer = peek(t).timer BY <1>8
<1> QED BY <1>3, <1>6, <1>7, <1>9, <1>10, <1>11 DEF TopPopped, t

LEMMA UpdateIs ==
  ASSUME PollTyped, NEW c \in Containers, NEW priorTop, updateSoonestTime(c, priorTop)
  PROVE  TaskTyped' /\ polled' \subseteq Containers /\ task'.at \in {"msg_q_rcv", "settime"}
<1>1. CASE Top(mTree'[c]) # NoTop /\ task' = [TaskIdle EXCEPT !.at = "settime", !.c = c]
           /\ polled' = polled \cup {c}
  <2>1. mTree'[c] # Empty BY <1>1 DEF Top
  <2>2. task' = [at |-> "settime", c |-> c, timer |-> None, client |-> None, limit |-> 0]
    BY <1>1 DEF TaskIdle
  <2> QED BY <1>1, <2>1, <2>2, TimerBounds DEF TaskTyped, Tasks, PollTyped
<1>2. CASE task' = TaskIdle /\ polled' = polled
  BY <1>2, TimerBounds DEF TaskIdle, TaskTyped, Tasks, PollTyped, None
<1> QED BY <1>1, <1>2 DEF updateSoonestTime

LEMMA AskedIs ==
  ASSUME Asked, NEW i \in 1..Len(mQ)
  PROVE  /\ mQ[i].what \in {"push", "remove", "expire"}
         /\ mQ[i].what \in {"push", "remove"} => mQ[i].timer \in Delegates
         /\ mQ[i].what = "expire" => mQ[i].timer = None
<1>1. mQ[i] \in TimerMessages /\ Addressed(mQ[i]) BY DEF Asked
<1> QED BY <1>1 DEF TimerMessages, Addressed

\* who knows a delegate
Held(d) == \E c \in Containers : \E x \in Contents(mTree[c]) : x.timer = d
Asks(what, d) == \E i \in 1..Len(mQ) : mQ[i].what = what /\ mQ[i].timer = d
Expiry(d) == task.at \in {"expire", "stop"} /\ task.timer = d

\* what each pointer to a delegate may rely on
RunningOwned ==
  \A l \in Clients : mTimer[l] # None =>
    /\ delegate[mTimer[l]].live /\ delegate[mTimer[l]].mClient = l
    /\ delegate[mTimer[l]].mContainer \in Containers
    /\ Held(mTimer[l]) \/ Asks("push", mTimer[l]) \/ Expiry(mTimer[l])
LiveOwned ==
  \A d \in Delegates : delegate[d].live =>
    IF delegate[d].mClient = None THEN Asks("remove", d)
    ELSE mTimer[delegate[d].mClient] = d
RemoveOwned ==
  \A i \in 1..Len(mQ) : mQ[i].what = "remove" =>
    /\ delegate[mQ[i].timer].live
    /\ delegate[mQ[i].timer].mClient = None /\ delegate[mQ[i].timer].mContainer = None
    /\ \A j \in 1..Len(mQ) : j # i /\ mQ[j].what = "remove" => mQ[j].timer # mQ[i].timer
PushOwned ==
  \A i \in 1..Len(mQ) : mQ[i].what = "push" =>
    /\ delegate[mQ[i].timer].live
    /\ delegate[mQ[i].timer].mClient # None => delegate[mQ[i].timer].mContainer = mQ[i].c
    /\ ~Held(mQ[i].timer) /\ ~Expiry(mQ[i].timer)
    /\ \A j \in 1..Len(mQ) : j # i /\ mQ[j].timer = mQ[i].timer =>
         mQ[j].what = "remove" /\ j > i /\ mQ[j].c = mQ[i].c
HeapOwned ==
  \A c \in Containers : \A x \in Contents(mTree[c]) :
    /\ x = Ranked(x.timer) /\ delegate[x.timer].live
    /\ delegate[x.timer].mClient # None => delegate[x.timer].mContainer = c
    /\ ~Expiry(x.timer)
    /\ \A j \in 1..Len(mQ) : mQ[j].what = "remove" /\ mQ[j].timer = x.timer => mQ[j].c = c
    /\ \A k \in Containers : \A y \in Contents(mTree[k]) : y.timer = x.timer => k = c
ExpiringOwned ==
  /\ \A d \in Delegates : Expiry(d) => delegate[d].live
  /\ task.at = "stop" => delegate[task.timer].mClient \in {None, task.client}

AllOwned ==
  RunningOwned /\ LiveOwned /\ RemoveOwned /\ PushOwned /\ HeapOwned /\ ExpiringOwned

\* the timer of l is disowned, and its removal is asked for
Stopped(l) ==
  LET d == mTimer[l]
  IN /\ d \in Delegates /\ mTimer' = [mTimer EXCEPT ![l] = None]
     /\ \A e \in Delegates : e # d => delegate'[e] = delegate[e]
     /\ \A e \in Delegates : delegate'[e].live = delegate[e].live
     /\ \A e \in Delegates : delegate'[e].mFutureTime = delegate[e].mFutureTime
     /\ delegate'[d].mClient = None /\ delegate'[d].mContainer = None
     /\ Sent(Message("remove", delegate[d].mContainer, d))

LEMMA StopLockedIs ==
  ASSUME Typed, RunningOwned, NEW l \in Clients, mTimer[l] # None, StopLocked(l)
  PROVE  /\ Asked' /\ mTimer' \in [Clients -> Delegates \cup {None}]
         /\ delegate' \in [Delegates -> Memory]
         /\ Stopped(l)
<1> DEFINE d == mTimer[l]
           m == Message("remove", delegate[d].mContainer, d)
<1>1. /\ d \in Delegates /\ delegate[d].mContainer \in Containers
      /\ mTimer \in [Clients -> Delegates \cup {None}] /\ delegate \in [Delegates -> Memory]
  BY DEF Typed, ClientsTyped, RunningOwned
<1>2. m \in TimerMessages /\ Addressed(m)
  BY <1>1 DEF TimerMessages, Message, Addressed
<1>3. Asked' /\ Sent(m) BY <1>2, SendIs DEF StopLocked, Typed
<1>4. mTimer' \in [Clients -> Delegates \cup {None}] BY <1>1 DEF StopLocked
<1>5. delegate' = [delegate EXCEPT ![d].mClient = None, ![d].mContainer = None]
  BY DEF StopLocked
<1>6. delegate' = [delegate EXCEPT ![d] = [@ EXCEPT !.mClient = None, !.mContainer = None]]
  BY <1>5
<1>7. [delegate[d] EXCEPT !.mClient = None, !.mContainer = None] \in Memory
  BY <1>1 DEF Memory
<1>8. delegate' \in [Delegates -> Memory] BY <1>1, <1>6, <1>7
<1>9. \A e \in Delegates : e # d => delegate'[e] = delegate[e] BY <1>1, <1>6
<1>10. delegate'[d] = [delegate[d] EXCEPT !.mClient = None, !.mContainer = None] BY <1>1, <1>6
<1>11. delegate[d] \in Memory BY <1>1
<1>12. /\ delegate'[d].live = delegate[d].live /\ delegate'[d].mFutureTime = delegate[d].mFutureTime
       /\ delegate'[d].mClient = None /\ delegate'[d].mContainer = None
  BY <1>10, <1>11 DEF Memory
<1>13. mTimer' = [mTimer EXCEPT ![l] = None] BY DEF StopLocked
<1>14. Stopped(l) BY <1>1, <1>3, <1>9, <1>12, <1>13 DEF Stopped
<1> QED BY <1>3, <1>4, <1>8, <1>14

LEMMA TypedStart ==
  ASSUME Typed, NEW l \in Clients, NEW delay \in Delays, NEW c \in Containers, start(l, delay, c)
  PROVE  Typed' /\ \E d \in Delegates :
           /\ ~delegate[d].live /\ mTimer' = [mTimer EXCEPT ![l] = d]
           /\ delegate' = [delegate EXCEPT ![d] =
                [mClient |-> l, mFutureTime |-> now + delay, mContainer |-> c, live |-> TRUE]]
           /\ Sent(Message("push", c, d))
<1> DEFINE d == CHOOSE e \in Delegates : ~delegate[e].live
           m == Message("push", c, d)
           fresh == [mClient |-> l, mFutureTime |-> now + delay, mContainer |-> c, live |-> TRUE]
<1>1. d \in Delegates /\ ~delegate[d].live BY DEF start
<1>2. /\ now + delay =< MaxTime /\ delegate' = [delegate EXCEPT ![d] = fresh]
      /\ mTimer' = [mTimer EXCEPT ![l] = d] /\ sendMsg(m)
  BY DEF start
<1>3. UNCHANGED <<now, mTree, timerfd, polled, task, poll>> BY DEF start, fdVars
<1> HIDE DEF d
<1>4. now + delay \in 0..MaxTime
  BY <1>2, TimerBounds DEF Typed, ClientsTyped
<1>5. fresh \in Memory BY <1>4 DEF Memory
<1>6. ClientsTyped' BY <1>1, <1>2, <1>3, <1>5 DEF Typed, ClientsTyped
<1>7. m \in TimerMessages /\ Addressed(m) BY <1>1 DEF TimerMessages, Message, Addressed
<1>8. Asked' /\ Sent(m) BY <1>1, <1>2, <1>7, SendIs DEF Typed
<1>9. Heaps' /\ TaskTyped' /\ PollTyped' BY <1>3 DEF Typed, Heaps, TaskTyped, PollTyped
<1> QED BY <1>1, <1>2, <1>6, <1>8, <1>9 DEF Typed

LEMMA TypedPoll ==
  ASSUME Typed, PollTask \/ Tick
  PROVE  Typed'
<1>1. CASE epoll_wait
  <2>1. PollTyped' BY <1>1 DEF epoll_wait, fdVars, Typed, PollTyped, Polls
  <2> QED BY <1>1, <2>1 DEF epoll_wait, fdVars, Typed, Heaps, Asked, TaskTyped, ClientsTyped
<1>2. CASE removePoll
  <2>1. PollTyped' BY <1>2 DEF removePoll, Typed, PollTyped, Polls
  <2> QED BY <1>2, <2>1 DEF removePoll, Typed, Heaps, Asked, TaskTyped, ClientsTyped
<1>3. CASE sendExpire
  <2> DEFINE m == Message("expire", poll.c, None)
  <2>1. m \in TimerMessages /\ Addressed(m)
    BY <1>3 DEF sendExpire, Typed, PollTyped, TimerMessages, Message, Addressed
  <2>2. Asked' BY <1>3, <2>1, SendIs DEF sendExpire, Typed
  <2>3. PollTyped' BY <1>3 DEF sendExpire, fdVars, Waiting, Typed, PollTyped, Polls
  <2> QED BY <1>3, <2>2, <2>3 DEF sendExpire, fdVars, Typed, Heaps, TaskTyped, ClientsTyped
<1>4. CASE \E c \in Containers : disarm(c)
  <2>1. PICK c \in Containers : disarm(c) BY <1>4
  <2>2. PollTyped'
    <3>1. timerfd' \in [Containers -> 0..MaxTime \cup {Disarmed}]
      BY <2>1 DEF disarm, Typed, PollTyped
    <3> QED BY <2>1, <3>1 DEF disarm, Typed, PollTyped, Polls
  <2> QED BY <2>1, <2>2 DEF disarm, Typed, Heaps, Asked, TaskTyped, ClientsTyped
<1>5. CASE Tick
  <2>1. now' \in 0..MaxTime BY <1>5, TimerBounds DEF Tick, Typed, ClientsTyped
  <2> QED BY <1>5, <2>1 DEF Tick, fdVars, Typed, Heaps, Asked, TaskTyped, PollTyped, ClientsTyped
<1> QED BY <1>1, <1>2, <1>3, <1>4, <1>5 DEF PollTask

\* the message task comes back to its queue, or to arming a descriptor first
Receiving == task.at \in {"msg_q_rcv", "settime"}

\* the steps of the message task, as far as ownership goes
TimerPushed(c, d) ==
  /\ Received("push", c, d) /\ c \in Containers /\ d \in Delegates
  /\ \A k \in Containers :
       Contents(mTree'[k]) = IF k = c THEN Contents(mTree[c]) \cup {Ranked(d)} ELSE Contents(mTree[k])
  /\ UNCHANGED <<mTimer, delegate>>
  /\ Receiving /\ Receiving'
TimerRemoved(c, d) ==
  /\ Received("remove", c, d) /\ c \in Containers /\ d \in Delegates
  /\ \A k \in Containers :
       Contents(mTree'[k]) = IF k = c THEN Contents(mTree[c]) \ {Ranked(d)} ELSE Contents(mTree[k])
  /\ UNCHANGED mTimer /\ delegate' = [delegate EXCEPT ![d] = Freed]
  /\ Receiving /\ Receiving'

LEMMA TypedPush ==
  ASSUME Typed, PushOwned, MsgTimerPush
  PROVE  Typed' /\ \E c, d : TimerPushed(c, d)
<1> DEFINE c == Head(mQ).c
           d == Head(mQ).timer
<1>1. msg_q_rcv("push") BY DEF MsgTimerPush
<1>2. Asked' /\ Received("push", c, d) /\ c \in Containers /\ Len(mQ) \in Nat /\ d \in Delegates
  BY <1>1, ReceiveIs DEF Typed
<1>3. /\ mTree' = [mTree EXCEPT ![c] = push(mTree[c], Ranked(d))]
      /\ updateSoonestTime(c, Top(mTree[c]))
      /\ UNCHANGED <<now, mTimer, delegate, timerfd, poll>>
  BY DEF MsgTimerPush
<1> HIDE DEF c, d
<1>4. mQ[1].what = "push" /\ mQ[1].timer = d /\ 1 \in 1..Len(mQ)
  BY <1>2 DEF Received
<1>5. ~Held(d) BY <1>4 DEF PushOwned
<1>6. Ranked(d).timer = d BY DEF Ranked
<1>7. Ranked(d) \notin Contents(mTree[c]) BY <1>2, <1>5, <1>6 DEF Held
<1>8. Ranked(d) \in Timers BY <1>2 DEF Ranked, Timers, Typed, ClientsTyped, Memory
<1>9. Tree(Timers, mTree[c]) /\ Timed(Timers) BY <1>2, TimersTimed DEF Typed, Heaps
<1>10. /\ Tree(Timers, push(mTree[c], Ranked(d)))
       /\ Contents(push(mTree[c], Ranked(d))) = Contents(mTree[c]) \cup {Ranked(d)}
  BY <1>7, <1>8, <1>9, PushTree
<1>11. /\ Heaps' /\ mTree'[c] = push(mTree[c], Ranked(d))
       /\ \A k \in Containers : k # c => mTree'[k] = mTree[k]
  BY <1>2, <1>3, <1>10, HeapIs DEF Typed
<1>12. TaskTyped' /\ polled' \subseteq Containers /\ task'.at \in {"msg_q_rcv", "settime"}
  BY <1>2, <1>3, UpdateIs DEF Typed
<1>13. PollTyped' BY <1>3, <1>12 DEF Typed, PollTyped
<1>14. ClientsTyped' BY <1>3 DEF Typed, ClientsTyped
<1>15. \A k \in Containers :
         Contents(mTree'[k]) = IF k = c THEN Contents(mTree[c]) \cup {Ranked(d)} ELSE Contents(mTree[k])
  BY <1>10, <1>11
<1>16. Receiving /\ Receiving' BY <1>1, <1>12 DEF msg_q_rcv, Receiving
<1>17. TimerPushed(c, d) BY <1>2, <1>3, <1>15, <1>16 DEF TimerPushed
<1> QED BY <1>2, <1>11, <1>12, <1>13, <1>14, <1>17 DEF Typed

LEMMA TypedRemove ==
  ASSUME Typed, MsgTimerRemove
  PROVE  Typed' /\ \E c, d : TimerRemoved(c, d)
<1> DEFINE c == Head(mQ).c
           d == Head(mQ).timer
<1>1. msg_q_rcv("remove") BY DEF MsgTimerRemove
<1>2. Asked' /\ Received("remove", c, d) /\ c \in Containers /\ Len(mQ) \in Nat /\ d \in Delegates
  BY <1>1, ReceiveIs DEF Typed
<1>3. /\ mTree' = [mTree EXCEPT ![c] = remove(mTree[c], Ranked(d))]
      /\ updateSoonestTime(c, NoTop) \/ (task' = TaskIdle /\ UNCHANGED polled)
      /\ delegate' = [delegate EXCEPT ![d] = Freed]
      /\ UNCHANGED <<now, mTimer, timerfd, poll>>
  BY DEF MsgTimerRemove
<1> HIDE DEF c, d
<1>4. Tree(Timers, mTree[c]) /\ Timed(Timers) BY <1>2, TimersTimed DEF Typed, Heaps
<1>5. /\ Tree(Timers, remove(mTree[c], Ranked(d)))
      /\ Contents(remove(mTree[c], Ranked(d))) = Contents(mTree[c]) \ {Ranked(d)}
  BY <1>4, RemoveTree DEF TreeWithout
<1>6. /\ Heaps' /\ mTree'[c] = remove(mTree[c], Ranked(d))
      /\ \A k \in Containers : k # c => mTree'[k] = mTree[k]
  BY <1>2, <1>3, <1>5, HeapIs DEF Typed
<1>7. TaskTyped' /\ polled' \subseteq Containers /\ task'.at \in {"msg_q_rcv", "settime"}
  <2>1. CASE updateSoonestTime(c, NoTop) BY <2>1, <1>2, UpdateIs DEF Typed
  <2>2. CASE task' = TaskIdle /\ UNCHANGED polled
    BY <2>2, TimerBounds DEF TaskIdle, TaskTyped, Tasks, Typed, PollTyped, None
  <2> QED BY <2>1, <2>2, <1>3
<1>8. PollTyped' BY <1>3, <1>7 DEF Typed, PollTyped
<1>9. Freed \in Memory BY TimerBounds DEF Freed, Memory
<1>10. ClientsTyped' BY <1>2, <1>3, <1>9 DEF Typed, ClientsTyped
<1>11. \A k \in Containers :
         Contents(mTree'[k]) = IF k = c THEN Contents(mTree[c]) \ {Ranked(d)} ELSE Contents(mTree[k])
  BY <1>5, <1>6
<1>12. Receiving /\ Receiving' BY <1>1, <1>7 DEF msg_q_rcv, Receiving
<1>13. TimerRemoved(c, d) BY <1>2, <1>3, <1>11, <1>12 DEF TimerRemoved
<1> QED BY <1>2, <1>6, <1>7, <1>8, <1>10, <1>13 DEF Typed

\* the heaps as they were, and no delegate expires any more
HeapsSettled == UNCHANGED mTree /\ Receiving'

LEMMA TypedExpire ==
  ASSUME Typed, MsgTimerExpire
  PROVE  /\ Typed' /\ UNCHANGED <<mTimer, delegate>> /\ Receiving
         /\ \E c \in Containers : /\ Received("expire", c, Head(mQ).timer)
                                  /\ HeapsSettled \/ \E d \in Delegates : TopPopped(c, d)
<1> DEFINE c == Head(mQ).c
<1>1. msg_q_rcv("expire") BY DEF MsgTimerExpire
<1>2. Asked' /\ Received("expire", c, Head(mQ).timer) /\ c \in Containers
  BY <1>1, ReceiveIs DEF Typed
<1>3. IF mTree[c] = Empty THEN task' = TaskIdle /\ UNCHANGED mTree ELSE PopTop(c, now)
  BY DEF MsgTimerExpire
<1>4. UNCHANGED <<now, mTimer, delegate, timerfd, polled, poll>>
  BY DEF MsgTimerExpire, fdVars
<1> HIDE DEF c
<1>5. Heaps' /\ TaskTyped' /\ (HeapsSettled \/ \E d \in Delegates : TopPopped(c, d))
  <2>1. CASE mTree[c] = Empty
    <3>1. task' = TaskIdle /\ UNCHANGED mTree BY <2>1, <1>3
    <3>2. TaskTyped' /\ Receiving'
      BY <3>1, TimerBounds DEF TaskIdle, TaskTyped, Tasks, None, Receiving
    <3> QED BY <3>1, <3>2 DEF Typed, Heaps, HeapsSettled
  <2>2. CASE mTree[c] # Empty
    <3>1. PopTop(c, now) /\ now \in 0..MaxTime BY <2>2, <1>3 DEF Typed, ClientsTyped
    <3> QED BY <3>1, <2>2, <1>2, PopTopIs DEF Typed
  <2> QED BY <2>1, <2>2
<1>6. PollTyped' /\ ClientsTyped' BY <1>4 DEF Typed, PollTyped, ClientsTyped
<1>7. Receiving BY <1>1 DEF msg_q_rcv, Receiving
<1> QED BY <1>2, <1>4, <1>5, <1>6, <1>7 DEF Typed

LEMMA TypedNext ==
  ASSUME Typed, NextTimer
  PROVE  /\ Typed' /\ UNCHANGED <<mTimer, delegate, mQ>> /\ task.at = "next"
         /\ HeapsSettled \/ \E c \in Containers, d \in Delegates : TopPopped(c, d)
<1> DEFINE c == task.c
<1>1. task.at = "next" /\ c \in Containers /\ task.limit \in 0..MaxTime
  BY DEF NextTimer, Typed, TaskTyped, Tasks
<1>2. \/ mTree[c] # Empty /\ PopTop(c, task.limit) /\ UNCHANGED polled
      \/ UNCHANGED mTree /\ updateSoonestTime(c, NoTop)
  BY DEF NextTimer
<1>3. UNCHANGED <<now, mTimer, delegate, mQ, timerfd, poll>> BY DEF NextTimer
<1> HIDE DEF c
<1>4. /\ Heaps' /\ TaskTyped' /\ polled' \subseteq Containers
      /\ HeapsSettled \/ \E d \in Delegates : TopPopped(c, d)
  <2>1. CASE mTree[c] # Empty /\ PopTop(c, task.limit) /\ UNCHANGED polled
    BY <2>1, <1>1, PopTopIs DEF Typed, PollTyped
  <2>2. CASE UNCHANGED mTree /\ updateSoonestTime(c, NoTop)
    <3>1. TaskTyped' /\ polled' \subseteq Containers /\ task'.at \in {"msg_q_rcv", "settime"}
      BY <2>2, <1>1, UpdateIs DEF Typed
    <3> QED BY <2>2, <3>1 DEF Typed, Heaps, HeapsSettled, Receiving
  <2> QED BY <2>1, <2>2, <1>2
<1>5. PollTyped' /\ ClientsTyped' /\ Asked'
  BY <1>3, <1>4 DEF Typed, PollTyped, ClientsTyped, Asked
<1> QED BY <1>1, <1>3, <1>4, <1>5 DEF Typed

LEMMA TypedRead ==
  ASSUME Typed, ReadClient
  PROVE  /\ Typed' /\ UNCHANGED <<mTimer, delegate, mQ, mTree>> /\ task.at = "expire"
         /\ \/ delegate[task.timer].mClient = None /\ task'.at = "next"
            \/ /\ task'.at = "stop" /\ task'.timer = task.timer
               /\ task'.client = delegate[task.timer].mClient
<1>1. /\ task.at = "expire" /\ task \in Tasks /\ task.timer \in Delegates /\ task.c \in Containers
      /\ UNCHANGED <<now, mTimer, delegate, mQ, mTree, timerfd, polled, poll>>
  BY DEF ReadClient, Typed, TaskTyped, fdVars
<1>2. delegate[task.timer].mClient \in Clients \cup {None}
  BY <1>1 DEF Typed, ClientsTyped, Memory
<1>3. CASE delegate[task.timer].mClient = None
  <2>1. task' = [task EXCEPT !.at = "next"] BY <1>3 DEF ReadClient
  <2>2. TaskTyped' /\ task'.at = "next" BY <2>1, <1>1 DEF TaskTyped, Tasks
  <2> QED BY <1>1, <1>3, <2>2 DEF Typed, Heaps, Asked, PollTyped, ClientsTyped
<1>4. CASE delegate[task.timer].mClient # None
  <2>1. task' = [task EXCEPT !.at = "stop", !.client = delegate[task.timer].mClient]
    BY <1>4 DEF ReadClient
  <2>2. /\ TaskTyped' /\ task'.at = "stop" /\ task'.timer = task.timer
        /\ task'.client = delegate[task.timer].mClient
    BY <2>1, <1>1, <1>2, <1>4 DEF TaskTyped, Tasks
  <2> QED BY <1>1, <2>2 DEF Typed, Heaps, Asked, PollTyped, ClientsTyped
<1> QED BY <1>3, <1>4

LEMMA TypedStopExpired ==
  ASSUME Typed, RunningOwned, StopExpired
  PROVE  /\ Typed' /\ UNCHANGED mTree /\ task.at = "stop" /\ task.client \in Clients
         /\ \/ /\ mTimer[task.client] # None /\ Stopped(task.client)
               /\ task'.at = "timeOutCallback" /\ task'.client = task.client
            \/ /\ mTimer[task.client] = None /\ UNCHANGED <<mTimer, delegate, mQ>>
               /\ task'.at = "next"
<1>1. /\ task.at = "stop" /\ task \in Tasks /\ task.client \in Clients /\ task.c \in Containers
      /\ UNCHANGED <<now, mTree, timerfd, polled, poll>>
  BY DEF StopExpired, Typed, TaskTyped, fdVars
<1>2. CASE mTimer[task.client] # None
  <2>1. StopLocked(task.client) /\ task' = [task EXCEPT !.at = "timeOutCallback"]
    BY <1>2 DEF StopExpired
  <2>2. /\ Asked' /\ mTimer' \in [Clients -> Delegates \cup {None}]
        /\ delegate' \in [Delegates -> Memory] /\ Stopped(task.client)
    BY <2>1, <1>1, <1>2, StopLockedIs
  <2>3. TaskTyped' /\ task'.at = "timeOutCallback" /\ task'.client = task.client
    BY <2>1, <1>1 DEF TaskTyped, Tasks
  <2> QED BY <1>1, <1>2, <2>2, <2>3 DEF Typed, Heaps, PollTyped, ClientsTyped
<1>3. CASE mTimer[task.client] = None
  <2>1. task' = [task EXCEPT !.at = "next"] /\ UNCHANGED <<mTimer, delegate, mQ>>
    BY <1>3 DEF StopExpired
  <2>2. TaskTyped' /\ task'.at = "next" BY <2>1, <1>1 DEF TaskTyped, Tasks
  <2> QED BY <1>1, <1>3, <2>1, <2>2 DEF Typed, Heaps, Asked, PollTyped, ClientsTyped
<1> QED BY <1>2, <1>3

LEMMA TypedRest ==
  ASSUME Typed, timeOutCallback \/ settime
  PROVE  /\ Typed' /\ UNCHANGED <<mTimer, delegate, mQ, mTree>>
         /\ task.at \in {"timeOutCallback", "settime"} /\ task'.at \in {"next", "msg_q_rcv"}
<1>1. CASE timeOutCallback
  <2>1. /\ task.at = "timeOutCallback" /\ task' = [task EXCEPT !.at = "next"]
        /\ UNCHANGED <<now, mTimer, delegate, mQ, mTree, timerfd, polled, poll>>
    BY <1>1 DEF timeOutCallback, fdVars
  <2>2. TaskTyped' /\ task'.at = "next" BY <2>1 DEF Typed, TaskTyped, Tasks
  <2> QED BY <2>1, <2>2 DEF Typed, Heaps, Asked, PollTyped, ClientsTyped
<1>2. CASE settime
  <2> DEFINE c == task.c
  <2>1. /\ task.at = "settime" /\ task' = TaskIdle
        /\ timerfd' = [timerfd EXCEPT ![c] = peek(mTree[c]).mFutureTime]
        /\ UNCHANGED <<now, mTimer, delegate, mQ, mTree, polled, poll>>
    BY <1>2 DEF settime
  <2>2. c \in Containers /\ mTree[c] # Empty BY <2>1 DEF Typed, TaskTyped
  <2>3. Tree(Timers, mTree[c]) /\ Timed(Timers) BY <2>2, TimersTimed DEF Typed, Heaps
  <2>4. peek(mTree[c]) \in Timers BY <2>2, <2>3, PeekIs
  <2>5. peek(mTree[c]).mFutureTime \in 0..MaxTime BY <2>4 DEF Timers
  <2> HIDE DEF c
  <2>6. PollTyped' BY <2>1, <2>2, <2>5 DEF Typed, PollTyped
  <2>7. TaskTyped' /\ task'.at = "msg_q_rcv"
    BY <2>1, TimerBounds DEF TaskIdle, TaskTyped, Tasks, None
  <2> QED BY <2>1, <2>6, <2>7 DEF Typed, Heaps, Asked, ClientsTyped
<1> QED BY <1>1, <1>2

\* the queue as it was, or without an expiry at its head
Kept(s) ==
  /\ s \in {0, 1} /\ Len(mQ) \in Nat /\ Len(mQ') \in Nat /\ Len(mQ') = Len(mQ) - s
  /\ \A i \in 1..Len(mQ') : mQ'[i] = mQ[i + s]
  /\ s = 1 => mQ[1].what = "expire"

LEMMA KeptAsks ==
  ASSUME NEW s, Kept(s)
  PROVE  \A what \in {"push", "remove"} : \A d : Asks(what, d)' <=> Asks(what, d)
<1> SUFFICES ASSUME NEW what \in {"push", "remove"}, NEW d PROVE Asks(what, d)' <=> Asks(what, d)
  OBVIOUS
<1>1. ASSUME Asks(what, d)' PROVE Asks(what, d)
  <2>1. PICK i \in 1..Len(mQ') : mQ'[i].what = what /\ mQ'[i].timer = d BY <1>1 DEF Asks
  <2>2. i + s \in 1..Len(mQ) /\ mQ[i + s] = mQ'[i] BY DEF Kept
  <2> QED BY <2>1, <2>2 DEF Asks
<1>2. ASSUME Asks(what, d) PROVE Asks(what, d)'
  <2>1. PICK i \in 1..Len(mQ) : mQ[i].what = what /\ mQ[i].timer = d BY <1>2 DEF Asks
  <2>2. i - s \in 1..Len(mQ') /\ (i - s) + s = i
    <3>1. i \in Int /\ 1 <= i /\ i <= Len(mQ) /\ Len(mQ) \in Nat BY <2>1 DEF Kept
    <3>2. s \in {0, 1} /\ Len(mQ') = Len(mQ) - s BY DEF Kept
    <3>3. s = 1 => i # 1
      <4>1. s = 1 => mQ[1].what = "expire" BY DEF Kept
      <4> QED BY <4>1, <2>1
    <3> QED BY <3>1, <3>2, <3>3
  <2>3. mQ'[i - s] = mQ[i] BY <2>2 DEF Kept
  <2> QED BY <2>1, <2>2, <2>3 DEF Asks
<1> QED BY <1>1, <1>2

\* delegates and heaps stay, and the delegate that expires may go if it does not run
LEMMA OwnedFrame ==
  ASSUME Typed, Typed', AllOwned, NEW s, Kept(s), UNCHANGED <<mTimer, delegate>>,
         \A k \in Containers : Contents(mTree'[k]) = Contents(mTree[k]),
         \A d : Expiry(d)' => Expiry(d),
         \A d \in Delegates : Expiry(d) /\ ~Expiry(d)' => delegate[d].mClient = None,
         task'.at = "stop" => delegate[task'.timer].mClient \in {None, task'.client}
  PROVE  AllOwned'
<1>1. \A d : Held(d)' <=> Held(d) BY DEF Held
<1>2. \A what \in {"push", "remove"} : \A d : Asks(what, d)' <=> Asks(what, d) BY KeptAsks
<1>3. \A i \in 1..Len(mQ') : i + s \in 1..Len(mQ) /\ mQ'[i] = mQ[i + s] BY DEF Kept
<1>4. \A l \in Clients : mTimer[l] # None => mTimer[l] \in Delegates
  BY DEF Typed, ClientsTyped
<1>5. RunningOwned'
  <2> SUFFICES ASSUME NEW l \in Clients, mTimer[l] # None
               PROVE  /\ delegate[mTimer[l]].live /\ delegate[mTimer[l]].mClient = l
                      /\ delegate[mTimer[l]].mContainer \in Containers
                      /\ Held(mTimer[l])' \/ Asks("push", mTimer[l])' \/ Expiry(mTimer[l])'
    BY DEF RunningOwned, Held, Asks, Expiry
  <2>1. /\ delegate[mTimer[l]].live /\ delegate[mTimer[l]].mClient = l
        /\ delegate[mTimer[l]].mContainer \in Containers
        /\ Held(mTimer[l]) \/ Asks("push", mTimer[l]) \/ Expiry(mTimer[l])
    BY DEF AllOwned, RunningOwned
  <2>2. Expiry(mTimer[l]) => Expiry(mTimer[l])'
    BY <2>1, <1>4, NoneIsNobody DEF None
  <2> QED BY <2>1, <2>2, <1>1, <1>2
<1>6. LiveOwned' BY <1>2 DEF AllOwned, LiveOwned
<1>7. RemoveOwned'
  <2> SUFFICES ASSUME NEW i \in 1..Len(mQ'), mQ'[i].what = "remove"
               PROVE  /\ delegate[mQ'[i].timer].live
                      /\ delegate[mQ'[i].timer].mClient = None /\ delegate[mQ'[i].timer].mContainer = None
                      /\ \A j \in 1..Len(mQ') : j # i /\ mQ'[j].what = "remove" => mQ'[j].timer # mQ'[i].timer
    BY DEF RemoveOwned
  <2>1. \A j \in 1..Len(mQ') : j # i => j + s # i + s BY DEF Kept
  <2> QED BY <2>1, <1>3 DEF AllOwned, RemoveOwned
<1>8. PushOwned'
  <2> SUFFICES ASSUME NEW i \in 1..Len(mQ'), mQ'[i].what = "push", NEW d1, d1 = mQ'[i].timer
               PROVE  /\ delegate[d1].live
                      /\ delegate[d1].mClient # None => delegate[d1].mContainer = mQ'[i].c
                      /\ ~Held(d1)' /\ ~Expiry(d1)'
                      /\ \A j \in 1..Len(mQ') : j # i /\ mQ'[j].timer = d1 =>
                           mQ'[j].what = "remove" /\ j > i /\ mQ'[j].c = mQ'[i].c
    BY DEF PushOwned, Held, Expiry
  <2>1. \A j \in 1..Len(mQ') : (j # i => j + s # i + s) /\ (j + s > i + s => j > i) BY DEF Kept
  <2>2. i + s \in 1..Len(mQ) /\ mQ'[i] = mQ[i + s] BY <1>3
  <2>3. /\ delegate[d1].live
        /\ delegate[d1].mClient # None => delegate[d1].mContainer = mQ'[i].c
        /\ ~Held(d1) /\ ~Expiry(d1)
    BY <2>2 DEF AllOwned, PushOwned
  <2>4. ASSUME NEW j \in 1..Len(mQ'), j # i, mQ'[j].timer = d1
        PROVE  mQ'[j].what = "remove" /\ j > i /\ mQ'[j].c = mQ'[i].c
    <3>1. j + s \in 1..Len(mQ) /\ mQ'[j] = mQ[j + s] /\ j + s # i + s BY <2>1, <2>4, <1>3
    <3>2. mQ[j + s].what = "remove" /\ j + s > i + s /\ mQ[j + s].c = mQ[i + s].c
      BY <3>1, <2>2, <2>4 DEF AllOwned, PushOwned
    <3> QED BY <3>1, <3>2, <2>1, <2>2
  <2> QED BY <2>3, <2>4, <1>1
<1>9. HeapOwned'
  <2> SUFFICES ASSUME NEW c \in Containers, NEW x \in Contents(mTree[c])
               PROVE  /\ x = Ranked(x.timer)' /\ delegate[x.timer].live
                      /\ delegate[x.timer].mClient # None => delegate[x.timer].mContainer = c
                      /\ ~Expiry(x.timer)'
                      /\ \A j \in 1..Len(mQ') : mQ'[j].what = "remove" /\ mQ'[j].timer = x.timer => mQ'[j].c = c
                      /\ \A k \in Containers : \A y \in Contents(mTree[k]) : y.timer = x.timer => k = c
    BY DEF HeapOwned, Ranked, Expiry
  <2>1. Ranked(x.timer)' = Ranked(x.timer) BY DEF Ranked
  <2> QED BY <2>1, <1>3 DEF AllOwned, HeapOwned
<1>10. ExpiringOwned' BY DEF AllOwned, ExpiringOwned, Expiry
<1> QED BY <1>5, <1>6, <1>7, <1>8, <1>9, <1>10 DEF AllOwned

\* the top of a heap expires
LEMMA OwnedPop ==
  ASSUME Typed, Typed', AllOwned, NEW s, Kept(s), UNCHANGED <<mTimer, delegate>>,
         NEW c \in Containers, NEW d \in Delegates, TopPopped(c, d),
         task.at \notin {"expire", "stop"}
  PROVE  AllOwned'
<1> DEFINE top == peek(mTree[c])
<1>1. /\ top \in Contents(mTree[c]) /\ top.timer = d
      /\ \A k \in Containers :
           Contents(mTree'[k]) = IF k = c THEN Contents(mTree[c]) \ {top} ELSE Contents(mTree[k])
      /\ task'.at = "expire" /\ task'.timer = d
  BY DEF TopPopped
<1> HIDE DEF top
<1>2. \A x \in Contents(mTree[c]) : x.timer = d => x = top
  BY <1>1 DEF AllOwned, HeapOwned
<1>3. \A k \in Containers : \A x \in Contents(mTree'[k]) : x \in Contents(mTree[k]) /\ x.timer # d
  <2> TAKE k \in Containers
  <2> TAKE x \in Contents(mTree'[k])
  <2>1. x \in Contents(mTree[k]) BY <1>1
  <2>2. x.timer = d => k = c BY <2>1, <1>1 DEF AllOwned, HeapOwned
  <2> QED BY <2>1, <2>2, <1>1, <1>2
<1>4. \A e : Held(e)' <=> Held(e) /\ e # d
  <2> SUFFICES ASSUME NEW e PROVE Held(e)' <=> Held(e) /\ e # d
    OBVIOUS
  <2>1. ASSUME Held(e)' PROVE Held(e) /\ e # d BY <2>1, <1>3 DEF Held
  <2>2. ASSUME Held(e), e # d PROVE Held(e)'
    <3>1. PICK k \in Containers : \E x \in Contents(mTree[k]) : x.timer = e BY <2>2 DEF Held
    <3>2. PICK x \in Contents(mTree[k]) : x.timer = e BY <3>1
    <3>3. x \in Contents(mTree'[k]) BY <3>2, <2>2, <1>1
    <3> QED BY <3>2, <3>3 DEF Held
  <2> QED BY <2>1, <2>2
<1>5. \A what \in {"push", "remove"} : \A e : Asks(what, e)' <=> Asks(what, e) BY KeptAsks
<1>6. \A i \in 1..Len(mQ') : i + s \in 1..Len(mQ) /\ mQ'[i] = mQ[i + s] BY DEF Kept
<1>7. (\A e : Expiry(e)' <=> e = d) /\ \A e : ~Expiry(e) BY <1>1 DEF Expiry
<1>8. Held(d) BY <1>1 DEF Held
<1>9. RunningOwned'
  <2> SUFFICES ASSUME NEW l \in Clients, mTimer[l] # None
               PROVE  /\ delegate[mTimer[l]].live /\ delegate[mTimer[l]].mClient = l
                      /\ delegate[mTimer[l]].mContainer \in Containers
                      /\ Held(mTimer[l])' \/ Asks("push", mTimer[l])' \/ Expiry(mTimer[l])'
    BY DEF RunningOwned, Held, Asks, Expiry
  <2>1. /\ delegate[mTimer[l]].live /\ delegate[mTimer[l]].mClient = l
        /\ delegate[mTimer[l]].mContainer \in Containers
        /\ Held(mTimer[l]) \/ Asks("push", mTimer[l]) \/ Expiry(mTimer[l])
    BY DEF AllOwned, RunningOwned
  <2> QED BY <2>1, <1>4, <1>5, <1>7
<1>10. LiveOwned' BY <1>5 DEF AllOwned, LiveOwned
<1>11. RemoveOwned'
  <2> SUFFICES ASSUME NEW i \in 1..Len(mQ'), mQ'[i].what = "remove"
               PROVE  /\ delegate[mQ'[i].timer].live
                      /\ delegate[mQ'[i].timer].mClient = None /\ delegate[mQ'[i].timer].mContainer = None
                      /\ \A j \in 1..Len(mQ') : j # i /\ mQ'[j].what = "remove" => mQ'[j].timer # mQ'[i].timer
    BY DEF RemoveOwned
  <2>1. \A j \in 1..Len(mQ') : j # i => j + s # i + s BY DEF Kept
  <2> QED BY <2>1, <1>6 DEF AllOwned, RemoveOwned
<1>12. PushOwned'
  <2> SUFFICES ASSUME NEW i \in 1..Len(mQ'), mQ'[i].what = "push", NEW d1, d1 = mQ'[i].timer
               PROVE  /\ delegate[d1].live
                      /\ delegate[d1].mClient # None => delegate[d1].mContainer = mQ'[i].c
                      /\ ~Held(d1)' /\ ~Expiry(d1)'
                      /\ \A j \in 1..Len(mQ') : j # i /\ mQ'[j].timer = d1 =>
                           mQ'[j].what = "remove" /\ j > i /\ mQ'[j].c = mQ'[i].c
    BY DEF PushOwned, Held, Expiry
  <2>1. \A j \in 1..Len(mQ') : (j # i => j + s # i + s) /\ (j + s > i + s => j > i) BY DEF Kept
  <2>2. i + s \in 1..Len(mQ) /\ mQ'[i] = mQ[i + s] BY <1>6
  <2>3. /\ delegate[d1].live
        /\ delegate[d1].mClient # None => delegate[d1].mContainer = mQ'[i].c
        /\ ~Held(d1) /\ ~Expiry(d1)
    BY <2>2 DEF AllOwned, PushOwned
  <2>4. ASSUME NEW j \in 1..Len(mQ'), j # i, mQ'[j].timer = d1
        PROVE  mQ'[j].what = "remove" /\ j > i /\ mQ'[j].c = mQ'[i].c
    <3>1. j + s \in 1..Len(mQ) /\ mQ'[j] = mQ[j + s] /\ j + s # i + s BY <2>1, <2>4, <1>6
    <3>2. mQ[j + s].what = "remove" /\ j + s > i + s /\ mQ[j + s].c = mQ[i + s].c
      BY <3>1, <2>2, <2>4 DEF AllOwned, PushOwned
    <3> QED BY <3>1, <3>2, <2>1, <2>2
  <2>5. d1 # d BY <2>3, <1>8
  <2> QED BY <2>3, <2>4, <2>5, <1>4, <1>7
<1>13. HeapOwned'
  <2> SUFFICES ASSUME NEW k \in Containers, NEW x \in Contents(mTree'[k])
               PROVE  /\ x = Ranked(x.timer)' /\ delegate[x.timer].live
                      /\ delegate[x.timer].mClient # None => delegate[x.timer].mContainer = k
                      /\ ~Expiry(x.timer)'
                      /\ \A j \in 1..Len(mQ') : mQ'[j].what = "remove" /\ mQ'[j].timer = x.timer => mQ'[j].c = k
                      /\ \A m \in Containers : \A y \in Contents(mTree'[m]) : y.timer = x.timer => m = k
    BY DEF HeapOwned, Ranked, Expiry
  <2>1. Ranked(x.timer)' = Ranked(x.timer) BY DEF Ranked
  <2>2. x \in Contents(mTree[k]) /\ x.timer # d BY <1>3
  <2>3. \A m \in Containers : \A y \in Contents(mTree'[m]) : y \in Contents(mTree[m]) BY <1>3
  <2>4. /\ x = Ranked(x.timer) /\ delegate[x.timer].live
        /\ delegate[x.timer].mClient # None => delegate[x.timer].mContainer = k
    BY <2>2 DEF AllOwned, HeapOwned
  <2>5. \A j \in 1..Len(mQ) : mQ[j].what = "remove" /\ mQ[j].timer = x.timer => mQ[j].c = k
    BY <2>2 DEF AllOwned, HeapOwned
  <2>6. \A j \in 1..Len(mQ') : mQ'[j].what = "remove" /\ mQ'[j].timer = x.timer => mQ'[j].c = k
    BY <2>5, <1>6
  <2>7. \A m \in Containers : \A y \in Contents(mTree[m]) : y.timer = x.timer => m = k
    BY <2>2 DEF AllOwned, HeapOwned
  <2> QED BY <2>1, <2>2, <2>3, <2>4, <2>6, <2>7, <1>7
<1>14. ExpiringOwned'
  <2>1. delegate[d].live BY <1>1 DEF AllOwned, HeapOwned
  <2> QED BY <2>1, <1>1, <1>7 DEF ExpiringOwned
<1> QED BY <1>9, <1>10, <1>11, <1>12, <1>13, <1>14 DEF AllOwned

LEMMA SentAsks ==
  ASSUME Asked, NEW w, NEW c, NEW d, Sent(Message(w, c, d))
  PROVE  /\ \A what : \A e : Asks(what, e)' <=> Asks(what, e) \/ (what = w /\ e = d)
         /\ Len(mQ) \in Nat /\ Len(mQ') = Len(mQ) + 1
         /\ mQ'[Len(mQ) + 1].what = w /\ mQ'[Len(mQ) + 1].c = c /\ mQ'[Len(mQ) + 1].timer = d
         /\ \A i \in 1..Len(mQ') : i = Len(mQ) + 1 \/ (i \in 1..Len(mQ) /\ mQ'[i] = mQ[i])
<1>1. Len(mQ) \in Nat BY DEF Asked
<1>2. /\ Len(mQ') = Len(mQ) + 1 /\ mQ'[Len(mQ) + 1] = Message(w, c, d)
      /\ \A i \in 1..Len(mQ) : mQ'[i] = mQ[i]
  BY DEF Sent
<1>3. /\ Message(w, c, d).what = w /\ Message(w, c, d).c = c /\ Message(w, c, d).timer = d
  BY DEF Message
<1>4. \A i \in 1..Len(mQ') : i = Len(mQ) + 1 \/ (i \in 1..Len(mQ) /\ mQ'[i] = mQ[i])
  BY <1>1, <1>2
<1>5. ASSUME NEW what, NEW e
      PROVE  Asks(what, e)' <=> Asks(what, e) \/ (what = w /\ e = d)
  <2>1. ASSUME Asks(what, e)' PROVE Asks(what, e) \/ (what = w /\ e = d)
    <3>1. PICK i \in 1..Len(mQ') : mQ'[i].what = what /\ mQ'[i].timer = e BY <2>1 DEF Asks
    <3>2. CASE i = Len(mQ) + 1 BY <3>1, <3>2, <1>2, <1>3
    <3>3. CASE i \in 1..Len(mQ) /\ mQ'[i] = mQ[i] BY <3>1, <3>3 DEF Asks
    <3> QED BY <3>2, <3>3, <1>4
  <2>2. ASSUME Asks(what, e) PROVE Asks(what, e)'
    <3>1. PICK i \in 1..Len(mQ) : mQ[i].what = what /\ mQ[i].timer = e BY <2>2 DEF Asks
    <3>2. i \in 1..Len(mQ') /\ mQ'[i] = mQ[i] BY <1>1, <1>2
    <3> QED BY <3>1, <3>2 DEF Asks
  <2>3. ASSUME what = w, e = d PROVE Asks(what, e)'
    <3>1. Len(mQ) + 1 \in 1..Len(mQ') BY <1>1, <1>2
    <3> QED BY <3>1, <2>3, <1>2, <1>3 DEF Asks
  <2> QED BY <2>1, <2>2, <2>3
<1> QED BY <1>1, <1>2, <1>3, <1>4, <1>5

LEMMA ReceivedAsks ==
  ASSUME Asked, Asked', NEW w, NEW c, NEW d, Received(w, c, d)
  PROVE  /\ \A what : \A e : Asks(what, e) <=> Asks(what, e)' \/ (what = w /\ e = d)
         /\ 1 \in 1..Len(mQ) /\ mQ[1].what = w /\ mQ[1].c = c /\ mQ[1].timer = d
         /\ \A i \in 1..Len(mQ') : i + 1 \in 1..Len(mQ) /\ mQ'[i] = mQ[i + 1] /\ i + 1 # 1
<1>1. Len(mQ) \in Nat /\ Len(mQ') \in Nat BY DEF Asked
<1>2. /\ Len(mQ) >= 1 /\ Len(mQ') = Len(mQ) - 1
      /\ \A i \in 1..Len(mQ') : mQ'[i] = mQ[i + 1]
      /\ mQ[1].what = w /\ mQ[1].c = c /\ mQ[1].timer = d
  BY DEF Received
<1>3. \A i \in 1..Len(mQ') : i + 1 \in 1..Len(mQ) /\ mQ'[i] = mQ[i + 1] /\ i + 1 # 1
  BY <1>1, <1>2
<1>4. 1 \in 1..Len(mQ) BY <1>1, <1>2
<1>5. ASSUME NEW what, NEW e
      PROVE  Asks(what, e) <=> Asks(what, e)' \/ (what = w /\ e = d)
  <2>1. ASSUME Asks(what, e) PROVE Asks(what, e)' \/ (what = w /\ e = d)
    <3>1. PICK i \in 1..Len(mQ) : mQ[i].what = what /\ mQ[i].timer = e BY <2>1 DEF Asks
    <3>2. CASE i = 1 BY <3>1, <3>2, <1>2
    <3>3. CASE i # 1
      <4>1. i - 1 \in 1..Len(mQ') /\ (i - 1) + 1 = i BY <3>3, <1>1, <1>2
      <4>2. mQ'[i - 1] = mQ[i] BY <4>1, <1>2
      <4> QED BY <4>1, <4>2, <3>1 DEF Asks
    <3> QED BY <3>2, <3>3
  <2>2. ASSUME Asks(what, e)' PROVE Asks(what, e)
    <3>1. PICK i \in 1..Len(mQ') : mQ'[i].what = what /\ mQ'[i].timer = e BY <2>2 DEF Asks
    <3> QED BY <3>1, <1>3 DEF Asks
  <2>3. ASSUME what = w, e = d PROVE Asks(what, e)
    BY <2>3, <1>2, <1>4 DEF Asks
  <2> QED BY <2>1, <2>2, <2>3
<1> QED BY <1>2, <1>3, <1>4, <1>5

\* nobody knows a delegate that does not live
LEMMA FreedUnknown ==
  ASSUME AllOwned, NEW d \in Delegates, ~delegate[d].live
  PROVE  /\ ~Held(d) /\ ~Asks("push", d) /\ ~Asks("remove", d) /\ ~Expiry(d)
         /\ \A l \in Clients : mTimer[l] # None => mTimer[l] # d
<1>1. ~Held(d) BY DEF Held, AllOwned, HeapOwned
<1>2. ~Asks("push", d) BY DEF Asks, AllOwned, PushOwned
<1>3. ~Asks("remove", d) BY DEF Asks, AllOwned, RemoveOwned
<1>4. ~Expiry(d) BY DEF AllOwned, ExpiringOwned
<1>5. \A l \in Clients : mTimer[l] # None => mTimer[l] # d BY DEF AllOwned, RunningOwned
<1> QED BY <1>1, <1>2, <1>3, <1>4, <1>5

LEMMA OwnedSend ==
  ASSUME Typed, Typed', AllOwned, NEW c, Sent(Message("expire", c, None)),
         UNCHANGED <<mTimer, delegate, mTree, task>>
  PROVE  AllOwned'
<1> DEFINE n == Len(mQ) + 1
<1>0. \A what : \A e : Asks(what, e)' <=> Asks(what, e) \/ (what = "expire" /\ e = None)
  BY SentAsks DEF Typed
<1>1. /\ mQ'[n].what = "expire" /\ mQ'[n].timer = None
      /\ \A i \in 1..Len(mQ') : i = n \/ (i \in 1..Len(mQ) /\ mQ'[i] = mQ[i])
  BY SentAsks DEF Typed
<1>2. \A e : (Held(e)' <=> Held(e)) /\ (Expiry(e)' <=> Expiry(e)) BY DEF Held, Expiry
<1>3. \A e : Ranked(e)' = Ranked(e) BY DEF Ranked
<1>4. \A e : /\ Asks("push", e)' <=> Asks("push", e)
             /\ Asks("remove", e)' <=> Asks("remove", e)
  BY <1>0
<1> HIDE DEF n
<1>5. RunningOwned' BY <1>2, <1>4 DEF AllOwned, RunningOwned
<1>6. LiveOwned' BY <1>4 DEF AllOwned, LiveOwned
<1>7. RemoveOwned' BY <1>1 DEF AllOwned, RemoveOwned
<1>8. PushOwned'
  <2> SUFFICES ASSUME NEW i \in 1..Len(mQ'), mQ'[i].what = "push", NEW d1, d1 = mQ'[i].timer
               PROVE  /\ delegate[d1].live
                      /\ delegate[d1].mClient # None => delegate[d1].mContainer = mQ'[i].c
                      /\ ~Held(d1)' /\ ~Expiry(d1)'
                      /\ \A j \in 1..Len(mQ') : j # i /\ mQ'[j].timer = d1 =>
                           mQ'[j].what = "remove" /\ j > i /\ mQ'[j].c = mQ'[i].c
    BY DEF PushOwned, Held, Expiry
  <2>1. i \in 1..Len(mQ) /\ mQ'[i] = mQ[i] BY <1>1
  <2>2. d1 \in Delegates BY <2>1, AskedIs DEF Typed
  <2>3. d1 # None BY <2>2, NoneIsNobody DEF None
  <2>4. /\ delegate[d1].live
        /\ delegate[d1].mClient # None => delegate[d1].mContainer = mQ[i].c
        /\ ~Held(d1) /\ ~Expiry(d1)
        /\ \A j \in 1..Len(mQ) : j # i /\ mQ[j].timer = d1 =>
             mQ[j].what = "remove" /\ j > i /\ mQ[j].c = mQ[i].c
    BY <2>1 DEF AllOwned, PushOwned
  <2> QED BY <2>1, <2>3, <2>4, <1>1, <1>2
<1>9. HeapOwned' BY <1>1, <1>2, <1>3 DEF AllOwned, HeapOwned
<1>10. ExpiringOwned' BY <1>2 DEF AllOwned, ExpiringOwned
<1> QED BY <1>5, <1>6, <1>7, <1>8, <1>9, <1>10 DEF AllOwned

LEMMA OwnedPush ==
  ASSUME Typed, Typed', AllOwned, NEW c, NEW d, TimerPushed(c, d)
  PROVE  AllOwned'
<1>0. /\ Received("push", c, d) /\ c \in Containers /\ d \in Delegates
      /\ \A k \in Containers :
           Contents(mTree'[k]) = IF k = c THEN Contents(mTree[c]) \cup {Ranked(d)} ELSE Contents(mTree[k])
      /\ UNCHANGED <<mTimer, delegate>> /\ Receiving /\ Receiving'
  BY DEF TimerPushed
<1>1. \A what : \A e : Asks(what, e) <=> Asks(what, e)' \/ (what = "push" /\ e = d)
  BY <1>0, ReceivedAsks DEF Typed
<1>2. /\ 1 \in 1..Len(mQ) /\ mQ[1].what = "push" /\ mQ[1].c = c /\ mQ[1].timer = d
      /\ \A i \in 1..Len(mQ') : i + 1 \in 1..Len(mQ) /\ mQ'[i] = mQ[i + 1] /\ i + 1 # 1
  BY <1>0, ReceivedAsks DEF Typed
<1>3. /\ delegate[d].live /\ (delegate[d].mClient # None => delegate[d].mContainer = c)
      /\ ~Held(d)
      /\ \A j \in 1..Len(mQ) : j # 1 /\ mQ[j].timer = d => mQ[j].what = "remove" /\ mQ[j].c = c
  BY <1>2 DEF AllOwned, PushOwned
<1>4. Ranked(d).timer = d /\ \A e : Ranked(e)' = Ranked(e) BY <1>0 DEF Ranked
<1>5. \A e : Held(e)' <=> Held(e) \/ e = d
  <2> SUFFICES ASSUME NEW e PROVE Held(e)' <=> Held(e) \/ e = d OBVIOUS
  <2>1. ASSUME Held(e)' PROVE Held(e) \/ e = d BY <2>1, <1>0, <1>4 DEF Held
  <2>2. ASSUME Held(e) PROVE Held(e)' BY <2>2, <1>0 DEF Held
  <2>3. Held(d)'
    <3>1. Ranked(d) \in Contents(mTree'[c]) BY <1>0
    <3> QED BY <3>1, <1>0, <1>4 DEF Held
  <2> QED BY <2>1, <2>2, <2>3
<1>6. \A e : ~Expiry(e) /\ ~Expiry(e)' BY <1>0 DEF Receiving, Expiry
<1>7. RunningOwned'
  <2> SUFFICES ASSUME NEW l \in Clients, mTimer[l] # None, NEW e, e = mTimer[l]
               PROVE  /\ delegate[e].live /\ delegate[e].mClient = l /\ delegate[e].mContainer \in Containers
                      /\ Held(e)' \/ Asks("push", e)' \/ Expiry(e)'
    BY <1>0 DEF RunningOwned, Held, Asks, Expiry
  <2>1. /\ delegate[e].live /\ delegate[e].mClient = l /\ delegate[e].mContainer \in Containers
        /\ Held(e) \/ Asks("push", e) \/ Expiry(e)
    BY DEF AllOwned, RunningOwned
  <2> QED BY <2>1, <1>1, <1>5, <1>6
<1>8. LiveOwned' BY <1>0, <1>1 DEF AllOwned, LiveOwned
<1>9. RemoveOwned'
  <2> SUFFICES ASSUME NEW i \in 1..Len(mQ'), mQ'[i].what = "remove", NEW e, e = mQ'[i].timer
               PROVE  /\ delegate[e].live /\ delegate[e].mClient = None /\ delegate[e].mContainer = None
                      /\ \A j \in 1..Len(mQ') : j # i /\ mQ'[j].what = "remove" => mQ'[j].timer # e
    BY <1>0 DEF RemoveOwned
  <2>1. i + 1 \in 1..Len(mQ) /\ mQ'[i] = mQ[i + 1] BY <1>2
  <2>2. /\ delegate[e].live /\ delegate[e].mClient = None /\ delegate[e].mContainer = None
        /\ \A j \in 1..Len(mQ) : j # i + 1 /\ mQ[j].what = "remove" => mQ[j].timer # e
    BY <2>1 DEF AllOwned, RemoveOwned
  <2>3. ASSUME NEW j \in 1..Len(mQ'), j # i, mQ'[j].what = "remove" PROVE mQ'[j].timer # e
    <3>1. j + 1 \in 1..Len(mQ) /\ mQ'[j] = mQ[j + 1] /\ j + 1 # i + 1 BY <2>3, <1>2
    <3> QED BY <3>1, <2>2, <2>3
  <2> QED BY <2>2, <2>3
<1>10. PushOwned'
  <2> SUFFICES ASSUME NEW i \in 1..Len(mQ'), mQ'[i].what = "push", NEW e, e = mQ'[i].timer
               PROVE  /\ delegate[e].live
                      /\ delegate[e].mClient # None => delegate[e].mContainer = mQ'[i].c
                      /\ ~Held(e)' /\ ~Expiry(e)'
                      /\ \A j \in 1..Len(mQ') : j # i /\ mQ'[j].timer = e =>
                           mQ'[j].what = "remove" /\ j > i /\ mQ'[j].c = mQ'[i].c
    BY <1>0 DEF PushOwned, Held, Expiry
  <2>1. i + 1 \in 1..Len(mQ) /\ mQ'[i] = mQ[i + 1] /\ i + 1 # 1 BY <1>2
  <2>2. /\ delegate[e].live
        /\ delegate[e].mClient # None => delegate[e].mContainer = mQ'[i].c
        /\ ~Held(e) /\ ~Expiry(e)
    BY <2>1 DEF AllOwned, PushOwned
  <2>3. e # d
    <3>1. e = d => mQ[i + 1].what = "remove" BY <2>1, <1>3
    <3> QED BY <3>1, <2>1
  <2>4. ASSUME NEW j \in 1..Len(mQ'), j # i, mQ'[j].timer = e
        PROVE  mQ'[j].what = "remove" /\ j > i /\ mQ'[j].c = mQ'[i].c
    <3>1. j + 1 \in 1..Len(mQ) /\ mQ'[j] = mQ[j + 1] /\ j + 1 # i + 1 BY <2>4, <1>2
    <3>2. mQ[j + 1].what = "remove" /\ j + 1 > i + 1 /\ mQ[j + 1].c = mQ[i + 1].c
      BY <3>1, <2>1, <2>4 DEF AllOwned, PushOwned
    <3> QED BY <3>1, <3>2, <2>1
  <2> QED BY <2>2, <2>3, <2>4, <1>5, <1>6
<1>11. HeapOwned'
  <2> SUFFICES ASSUME NEW k \in Containers, NEW x \in Contents(mTree'[k])
               PROVE  /\ x = Ranked(x.timer) /\ delegate[x.timer].live
                      /\ delegate[x.timer].mClient # None => delegate[x.timer].mContainer = k
                      /\ ~Expiry(x.timer)'
                      /\ \A j \in 1..Len(mQ') : mQ'[j].what = "remove" /\ mQ'[j].timer = x.timer => mQ'[j].c = k
                      /\ \A m \in Containers : \A y \in Contents(mTree'[m]) : y.timer = x.timer => m = k
    BY <1>0 DEF HeapOwned, Ranked, Expiry
  <2>1. CASE x \in Contents(mTree[k])
    <3>1. x.timer # d BY <2>1, <1>3 DEF Held
    <3>2. /\ x = Ranked(x.timer) /\ delegate[x.timer].live
          /\ delegate[x.timer].mClient # None => delegate[x.timer].mContainer = k
          /\ \A j \in 1..Len(mQ) : mQ[j].what = "remove" /\ mQ[j].timer = x.timer => mQ[j].c = k
      BY <2>1 DEF AllOwned, HeapOwned
    <3>3. \A m \in Containers : \A y \in Contents(mTree[m]) : y.timer = x.timer => m = k
      BY <2>1 DEF AllOwned, HeapOwned
    <3>4. \A m \in Containers : \A y \in Contents(mTree'[m]) : y.timer = x.timer => m = k
      BY <3>1, <3>3, <1>0, <1>4
    <3>5. \A j \in 1..Len(mQ') : mQ'[j].what = "remove" /\ mQ'[j].timer = x.timer => mQ'[j].c = k
      BY <3>2, <1>2
    <3> QED BY <3>2, <3>4, <3>5, <1>6
  <2>2. CASE x \notin Contents(mTree[k])
    <3>1. x = Ranked(d) /\ k = c BY <2>2, <1>0
    <3>2. \A m \in Containers : \A y \in Contents(mTree[m]) : y.timer # d BY <1>3 DEF Held
    <3>3. \A m \in Containers : \A y \in Contents(mTree'[m]) : y.timer = d => m = c
      BY <3>2, <1>0
    <3>4. \A j \in 1..Len(mQ') : mQ'[j].what = "remove" /\ mQ'[j].timer = d => mQ'[j].c = c
      BY <1>2, <1>3
    <3> QED BY <3>1, <3>3, <3>4, <1>3, <1>4, <1>6
  <2> QED BY <2>1, <2>2
<1>12. ExpiringOwned' BY <1>0, <1>6 DEF ExpiringOwned, Receiving
<1> QED BY <1>7, <1>8, <1>9, <1>10, <1>11, <1>12 DEF AllOwned

LEMMA OwnedRemove ==
  ASSUME Typed, Typed', AllOwned, NEW c, NEW d, TimerRemoved(c, d)
  PROVE  AllOwned'
<1>0. /\ Received("remove", c, d) /\ c \in Containers /\ d \in Delegates
      /\ \A k \in Containers :
           Contents(mTree'[k]) = IF k = c THEN Contents(mTree[c]) \ {Ranked(d)} ELSE Contents(mTree[k])
      /\ UNCHANGED mTimer /\ delegate' = [delegate EXCEPT ![d] = Freed] /\ Receiving /\ Receiving'
  BY DEF TimerRemoved
<1>1. \A what : \A e : Asks(what, e) <=> Asks(what, e)' \/ (what = "remove" /\ e = d)
  BY <1>0, ReceivedAsks DEF Typed
<1>2. /\ 1 \in 1..Len(mQ) /\ mQ[1].what = "remove" /\ mQ[1].c = c /\ mQ[1].timer = d
      /\ \A i \in 1..Len(mQ') : i + 1 \in 1..Len(mQ) /\ mQ'[i] = mQ[i + 1] /\ i + 1 # 1
  BY <1>0, ReceivedAsks DEF Typed
<1>3. /\ delegate[d].live /\ delegate[d].mClient = None /\ delegate[d].mContainer = None
      /\ \A j \in 1..Len(mQ) : j # 1 /\ mQ[j].what = "remove" => mQ[j].timer # d
  BY <1>2 DEF AllOwned, RemoveOwned
<1>4. /\ delegate \in [Delegates -> Memory] /\ mTimer \in [Clients -> Delegates \cup {None}]
      /\ delegate'[d] = Freed /\ ~Freed.live
      /\ \A e \in Delegates : e # d => delegate'[e] = delegate[e]
  BY <1>0 DEF Typed, ClientsTyped, Freed
<1>5. ASSUME NEW k \in Containers, NEW x \in Contents(mTree'[k])
      PROVE  x \in Contents(mTree[k]) /\ x.timer # d /\ x.timer \in Delegates
  <2>1. x \in Contents(mTree[k]) BY <1>0
  <2>2. x = Ranked(x.timer) BY <2>1 DEF AllOwned, HeapOwned
  <2>3. x.timer = d => k = c
    <3>1. \A j \in 1..Len(mQ) : mQ[j].what = "remove" /\ mQ[j].timer = x.timer => mQ[j].c = k
      BY <2>1 DEF AllOwned, HeapOwned
    <3> QED BY <3>1, <1>2
  <2>4. x.timer \in Delegates
    <3>1. Tree(Timers, mTree[k]) BY DEF Typed, Heaps
    <3>2. x \in Timers BY <2>1, <3>1, TimersTimed, PeekIs
    <3> QED BY <3>2 DEF Timers
  <2> QED BY <2>1, <2>2, <2>3, <2>4, <1>0
<1>6. \A e : e # d => (Held(e)' <=> Held(e))
  <2> SUFFICES ASSUME NEW e, e # d PROVE Held(e)' <=> Held(e) OBVIOUS
  <2>1. ASSUME Held(e)' PROVE Held(e) BY <2>1, <1>5 DEF Held
  <2>2. ASSUME Held(e) PROVE Held(e)'
    <3>1. PICK k \in Containers : \E x \in Contents(mTree[k]) : x.timer = e BY <2>2 DEF Held
    <3>2. PICK x \in Contents(mTree[k]) : x.timer = e BY <3>1
    <3>3. Ranked(d).timer = d BY DEF Ranked
    <3>4. x \in Contents(mTree'[k]) BY <3>2, <3>3, <1>0
    <3> QED BY <3>2, <3>4 DEF Held
  <2> QED BY <2>1, <2>2
<1>7. \A e : ~Expiry(e) /\ ~Expiry(e)' BY <1>0 DEF Receiving, Expiry
\* the rest of the queue is about other delegates
<1>8. ASSUME NEW i \in 1..Len(mQ'), mQ'[i].what \in {"push", "remove"}
      PROVE  mQ'[i].timer \in Delegates /\ mQ'[i].timer # d
  <2>1. i + 1 \in 1..Len(mQ) /\ mQ'[i] = mQ[i + 1] /\ i + 1 # 1 /\ ~(1 > i + 1) BY <1>2
  <2>2. mQ'[i].timer \in Delegates BY <1>8, <2>1, AskedIs DEF Typed
  <2>3. mQ[i + 1].what = "remove" => mQ[i + 1].timer # d BY <2>1, <1>3
  <2>4. mQ[i + 1].what = "push" => mQ[i + 1].timer # d
    BY <2>1, <1>2 DEF AllOwned, PushOwned
  <2> QED BY <2>1, <2>2, <2>3, <2>4, <1>8
<1>9. RunningOwned'
  <2> SUFFICES ASSUME NEW l \in Clients, mTimer[l] # None, NEW e, e = mTimer[l]
               PROVE  /\ delegate'[e].live /\ delegate'[e].mClient = l /\ delegate'[e].mContainer \in Containers
                      /\ Held(e)' \/ Asks("push", e)' \/ Expiry(e)'
    BY <1>0 DEF RunningOwned, Held, Asks, Expiry
  <2>1. /\ delegate[e].live /\ delegate[e].mClient = l /\ delegate[e].mContainer \in Containers
        /\ Held(e) \/ Asks("push", e) \/ Expiry(e)
    BY DEF AllOwned, RunningOwned
  <2>2. e \in Delegates BY <1>4
  <2>3. e # d BY <2>1, <1>3, NoneIsNobody DEF None
  <2> QED BY <2>1, <2>2, <2>3, <1>1, <1>4, <1>6, <1>7
<1>10. LiveOwned'
  <2> SUFFICES ASSUME NEW e \in Delegates, delegate'[e].live
               PROVE  IF delegate'[e].mClient = None THEN Asks("remove", e)'
                      ELSE mTimer[delegate'[e].mClient] = e
    BY <1>0 DEF LiveOwned, Asks
  <2>1. e # d /\ delegate'[e] = delegate[e] BY <1>4
  <2> QED BY <2>1, <1>1 DEF AllOwned, LiveOwned
<1>11. RemoveOwned'
  <2> SUFFICES ASSUME NEW i \in 1..Len(mQ'), mQ'[i].what = "remove", NEW e, e = mQ'[i].timer
               PROVE  /\ delegate'[e].live /\ delegate'[e].mClient = None /\ delegate'[e].mContainer = None
                      /\ \A j \in 1..Len(mQ') : j # i /\ mQ'[j].what = "remove" => mQ'[j].timer # e
    BY DEF RemoveOwned
  <2>1. i + 1 \in 1..Len(mQ) /\ mQ'[i] = mQ[i + 1] BY <1>2
  <2>2. /\ delegate[e].live /\ delegate[e].mClient = None /\ delegate[e].mContainer = None
        /\ \A j \in 1..Len(mQ) : j # i + 1 /\ mQ[j].what = "remove" => mQ[j].timer # e
    BY <2>1 DEF AllOwned, RemoveOwned
  <2>3. ASSUME NEW j \in 1..Len(mQ'), j # i, mQ'[j].what = "remove" PROVE mQ'[j].timer # e
    <3>1. j + 1 \in 1..Len(mQ) /\ mQ'[j] = mQ[j + 1] /\ j + 1 # i + 1 BY <2>3, <1>2
    <3> QED BY <3>1, <2>2, <2>3
  <2>4. delegate'[e] = delegate[e] BY <1>4, <1>8
  <2> QED BY <2>2, <2>3, <2>4
<1>12. PushOwned'
  <2> SUFFICES ASSUME NEW i \in 1..Len(mQ'), mQ'[i].what = "push", NEW e, e = mQ'[i].timer
               PROVE  /\ delegate'[e].live
                      /\ delegate'[e].mClient # None => delegate'[e].mContainer = mQ'[i].c
                      /\ ~Held(e)' /\ ~Expiry(e)'
                      /\ \A j \in 1..Len(mQ') : j # i /\ mQ'[j].timer = e =>
                           mQ'[j].what = "remove" /\ j > i /\ mQ'[j].c = mQ'[i].c
    BY DEF PushOwned, Held, Expiry
  <2>1. i + 1 \in 1..Len(mQ) /\ mQ'[i] = mQ[i + 1] BY <1>2
  <2>2. /\ delegate[e].live
        /\ delegate[e].mClient # None => delegate[e].mContainer = mQ'[i].c
        /\ ~Held(e)
    BY <2>1 DEF AllOwned, PushOwned
  <2>3. e # d /\ delegate'[e] = delegate[e] BY <1>4, <1>8
  <2>4. ASSUME NEW j \in 1..Len(mQ'), j # i, mQ'[j].timer = e
        PROVE  mQ'[j].what = "remove" /\ j > i /\ mQ'[j].c = mQ'[i].c
    <3>1. j + 1 \in 1..Len(mQ) /\ mQ'[j] = mQ[j + 1] /\ j + 1 # i + 1 BY <2>4, <1>2
    <3>2. mQ[j + 1].what = "remove" /\ j + 1 > i + 1 /\ mQ[j + 1].c = mQ[i + 1].c
      BY <3>1, <2>1, <2>4 DEF AllOwned, PushOwned
    <3> QED BY <3>1, <3>2, <2>1
  <2> QED BY <2>2, <2>3, <2>4, <1>6, <1>7
<1>13. HeapOwned'
  <2> SUFFICES ASSUME NEW k \in Containers, NEW x \in Contents(mTree'[k]), NEW e, e = x.timer
               PROVE  /\ x = Ranked(e)' /\ delegate'[e].live
                      /\ delegate'[e].mClient # None => delegate'[e].mContainer = k
                      /\ ~Expiry(e)'
                      /\ \A j \in 1..Len(mQ') : mQ'[j].what = "remove" /\ mQ'[j].timer = e => mQ'[j].c = k
                      /\ \A m \in Containers : \A y \in Contents(mTree'[m]) : y.timer = e => m = k
    BY DEF HeapOwned, Ranked, Expiry
  <2>1. x \in Contents(mTree[k]) /\ e # d /\ e \in Delegates BY <1>5
  <2>2. delegate'[e] = delegate[e] BY <2>1, <1>4
  <2>3. Ranked(e)' = Ranked(e) BY <2>2 DEF Ranked
  <2>4. /\ x = Ranked(e) /\ delegate[e].live
        /\ delegate[e].mClient # None => delegate[e].mContainer = k
        /\ \A j \in 1..Len(mQ) : mQ[j].what = "remove" /\ mQ[j].timer = e => mQ[j].c = k
    BY <2>1 DEF AllOwned, HeapOwned
  <2>5. \A m \in Containers : \A y \in Contents(mTree[m]) : y.timer = e => m = k
    BY <2>1 DEF AllOwned, HeapOwned
  <2>6. \A m \in Containers : \A y \in Contents(mTree'[m]) : y.timer = e => m = k
    BY <2>5, <1>5
  <2>7. \A j \in 1..Len(mQ') : mQ'[j].what = "remove" /\ mQ'[j].timer = e => mQ'[j].c = k
    BY <2>4, <1>2
  <2> QED BY <2>2, <2>3, <2>4, <2>6, <2>7, <1>7
<1>14. ExpiringOwned' BY <1>0, <1>7 DEF ExpiringOwned, Receiving
<1> QED BY <1>9, <1>10, <1>11, <1>12, <1>13, <1>14 DEF AllOwned

LEMMA OwnedStart ==
  ASSUME Typed, Typed', AllOwned, NEW l \in Clients, mTimer[l] = None, NEW c \in Containers,
         NEW d \in Delegates, ~delegate[d].live, mTimer' = [mTimer EXCEPT ![l] = d], NEW time,
         delegate' = [delegate EXCEPT ![d] =
           [mClient |-> l, mFutureTime |-> time, mContainer |-> c, live |-> TRUE]],
         Sent(Message("push", c, d)), UNCHANGED <<mTree, task>>
  PROVE  AllOwned'
<1> DEFINE n == Len(mQ) + 1
<1>1. \A what : \A e : Asks(what, e)' <=> Asks(what, e) \/ (what = "push" /\ e = d)
  BY SentAsks DEF Typed
<1>2. /\ mQ'[n].what = "push" /\ mQ'[n].timer = d /\ mQ'[n].c = c
      /\ \A i \in 1..Len(mQ') : i = n \/ (i \in 1..Len(mQ) /\ mQ'[i] = mQ[i])
  BY SentAsks DEF Typed
<1>3. \A e : (Held(e)' <=> Held(e)) /\ (Expiry(e)' <=> Expiry(e)) BY DEF Held, Expiry
<1>4. /\ ~Held(d) /\ ~Asks("push", d) /\ ~Asks("remove", d) /\ ~Expiry(d)
      /\ \A k \in Clients : mTimer[k] # None => mTimer[k] # d
  BY FreedUnknown
<1>5. /\ delegate'[d].mClient = l /\ delegate'[d].mContainer = c /\ delegate'[d].live
      /\ \A e \in Delegates : e # d => delegate'[e] = delegate[e]
      /\ mTimer'[l] = d /\ \A k \in Clients : k # l => mTimer'[k] = mTimer[k]
      /\ \A k \in Clients : mTimer[k] \in Delegates \cup {None}
      /\ \A e \in Delegates : delegate[e].mClient \in Clients \cup {None}
  BY DEF Typed, ClientsTyped, Memory
<1>6. ASSUME NEW i \in 1..Len(mQ), mQ[i].what \in {"push", "remove"}
      PROVE  mQ[i].timer \in Delegates /\ mQ[i].timer # d
  BY <1>4, <1>6, AskedIs DEF Typed, Asks
<1>7. d # None /\ l # None BY NoneIsNobody DEF None
<1> HIDE DEF n
<1>8. RunningOwned'
  <2> SUFFICES ASSUME NEW k \in Clients, mTimer'[k] # None, NEW e, e = mTimer'[k]
               PROVE  /\ delegate'[e].live /\ delegate'[e].mClient = k /\ delegate'[e].mContainer \in Containers
                      /\ Held(e)' \/ Asks("push", e)' \/ Expiry(e)'
    BY DEF RunningOwned, Held, Asks, Expiry
  <2>1. CASE k = l BY <2>1, <1>1, <1>5
  <2>2. CASE k # l
    <3>1. e = mTimer[k] /\ e # None /\ e \in Delegates /\ e # d BY <2>2, <1>4, <1>5
    <3>2. /\ delegate[e].live /\ delegate[e].mClient = k /\ delegate[e].mContainer \in Containers
          /\ Held(e) \/ Asks("push", e) \/ Expiry(e)
      BY <3>1 DEF AllOwned, RunningOwned
    <3> QED BY <3>1, <3>2, <1>1, <1>3, <1>5
  <2> QED BY <2>1, <2>2
<1>9. LiveOwned'
  <2> SUFFICES ASSUME NEW e \in Delegates, delegate'[e].live
               PROVE  IF delegate'[e].mClient = None THEN Asks("remove", e)'
                      ELSE mTimer'[delegate'[e].mClient] = e
    BY DEF LiveOwned, Asks
  <2>1. CASE e = d BY <2>1, <1>5, <1>7
  <2>2. CASE e # d
    <3>1. delegate'[e] = delegate[e] /\ delegate[e].live BY <2>2, <1>5
    <3>2. IF delegate[e].mClient = None THEN Asks("remove", e) ELSE mTimer[delegate[e].mClient] = e
      BY <3>1 DEF AllOwned, LiveOwned
    <3>3. delegate[e].mClient # None => delegate[e].mClient \in Clients /\ delegate[e].mClient # l
      BY <3>2, <1>5, NoneIsNobody DEF None
    <3> QED BY <3>1, <3>2, <3>3, <1>1, <1>5
  <2> QED BY <2>1, <2>2
<1>10. RemoveOwned'
  <2> SUFFICES ASSUME NEW i \in 1..Len(mQ'), mQ'[i].what = "remove", NEW e, e = mQ'[i].timer
               PROVE  /\ delegate'[e].live /\ delegate'[e].mClient = None /\ delegate'[e].mContainer = None
                      /\ \A j \in 1..Len(mQ') : j # i /\ mQ'[j].what = "remove" => mQ'[j].timer # e
    BY DEF RemoveOwned
  <2>1. i \in 1..Len(mQ) /\ mQ'[i] = mQ[i] BY <1>2
  <2>2. e # d /\ delegate'[e] = delegate[e] BY <2>1, <1>5, <1>6
  <2>3. /\ delegate[e].live /\ delegate[e].mClient = None /\ delegate[e].mContainer = None
        /\ \A j \in 1..Len(mQ) : j # i /\ mQ[j].what = "remove" => mQ[j].timer # e
    BY <2>1 DEF AllOwned, RemoveOwned
  <2> QED BY <2>2, <2>3, <1>2
<1>11. PushOwned'
  <2> SUFFICES ASSUME NEW i \in 1..Len(mQ'), mQ'[i].what = "push", NEW e, e = mQ'[i].timer
               PROVE  /\ delegate'[e].live
                      /\ delegate'[e].mClient # None => delegate'[e].mContainer = mQ'[i].c
                      /\ ~Held(e)' /\ ~Expiry(e)'
                      /\ \A j \in 1..Len(mQ') : j # i /\ mQ'[j].timer = e =>
                           mQ'[j].what = "remove" /\ j > i /\ mQ'[j].c = mQ'[i].c
    BY DEF PushOwned, Held, Expiry
  <2>1. CASE i = n
    <3>1. e = d /\ mQ'[i].c = c BY <2>1, <1>2
    <3>2. ASSUME NEW j \in 1..Len(mQ'), j # i PROVE mQ'[j].timer # d
      <4>1. j \in 1..Len(mQ) /\ mQ'[j] = mQ[j] BY <3>2, <2>1, <1>2
      <4>2. mQ[j].what = "expire" => mQ[j].timer # d BY <4>1, <1>7, AskedIs DEF Typed
      <4>3. mQ[j].what \in {"push", "remove", "expire"} BY <4>1, AskedIs DEF Typed
      <4> QED BY <4>1, <4>2, <4>3, <1>6
    <3> QED BY <3>1, <3>2, <1>3, <1>4, <1>5
  <2>2. CASE i # n
    <3>1. i \in 1..Len(mQ) /\ mQ'[i] = mQ[i] BY <2>2, <1>2
    <3>2. e # d /\ e \in Delegates /\ delegate'[e] = delegate[e] BY <3>1, <1>5, <1>6
    <3>3. /\ delegate[e].live
          /\ delegate[e].mClient # None => delegate[e].mContainer = mQ[i].c
          /\ ~Held(e) /\ ~Expiry(e)
          /\ \A j \in 1..Len(mQ) : j # i /\ mQ[j].timer = e =>
               mQ[j].what = "remove" /\ j > i /\ mQ[j].c = mQ[i].c
      BY <3>1 DEF AllOwned, PushOwned
    <3>4. \A j \in 1..Len(mQ') : j # i /\ mQ'[j].timer = e =>
            mQ'[j].what = "remove" /\ j > i /\ mQ'[j].c = mQ'[i].c
      BY <3>1, <3>2, <3>3, <1>2
    <3> QED BY <3>1, <3>2, <3>3, <3>4, <1>3
  <2> QED BY <2>1, <2>2
<1>12. HeapOwned'
  <2> SUFFICES ASSUME NEW k \in Containers, NEW x \in Contents(mTree[k]), NEW e, e = x.timer
               PROVE  /\ x = Ranked(e)' /\ delegate'[e].live
                      /\ delegate'[e].mClient # None => delegate'[e].mContainer = k
                      /\ ~Expiry(e)'
                      /\ \A j \in 1..Len(mQ') : mQ'[j].what = "remove" /\ mQ'[j].timer = e => mQ'[j].c = k
                      /\ \A m \in Containers : \A y \in Contents(mTree[m]) : y.timer = e => m = k
    BY DEF HeapOwned, Ranked, Expiry
  <2>1. e # d BY <1>4 DEF Held
  <2>2. e \in Delegates
    <3>1. Tree(Timers, mTree[k]) BY DEF Typed, Heaps
    <3>2. x \in Timers BY <3>1, TimersTimed, PeekIs
    <3> QED BY <3>2 DEF Timers
  <2>3. delegate'[e] = delegate[e] BY <2>1, <2>2, <1>5
  <2>4. Ranked(e)' = Ranked(e) BY <2>3 DEF Ranked
  <2>5. /\ x = Ranked(e) /\ delegate[e].live /\ ~Expiry(e)
        /\ delegate[e].mClient # None => delegate[e].mContainer = k
        /\ \A j \in 1..Len(mQ) : mQ[j].what = "remove" /\ mQ[j].timer = e => mQ[j].c = k
    BY DEF AllOwned, HeapOwned
  <2>6. \A m \in Containers : \A y \in Contents(mTree[m]) : y.timer = e => m = k
    BY DEF AllOwned, HeapOwned
  <2>7. \A j \in 1..Len(mQ') : mQ'[j].what = "remove" /\ mQ'[j].timer = e => mQ'[j].c = k
    BY <2>5, <1>2
  <2> QED BY <2>3, <2>4, <2>5, <2>6, <2>7, <1>3
<1>13. ExpiringOwned'
  <2>1. \A e \in Delegates : Expiry(e) => delegate'[e].live BY <1>4, <1>5 DEF AllOwned, ExpiringOwned
  <2>2. task.at = "stop" => delegate'[task.timer].mClient \in {None, task.client}
    <3>1. task.at = "stop" => task.timer \in Delegates /\ Expiry(task.timer)
      BY DEF Typed, TaskTyped, Expiry
    <3> QED BY <3>1, <1>4, <1>5 DEF AllOwned, ExpiringOwned
  <2> QED BY <2>1, <2>2, <1>3 DEF ExpiringOwned
<1> QED BY <1>8, <1>9, <1>10, <1>11, <1>12, <1>13 DEF AllOwned

\* a client stops its timer, or the message task does for the client whose
\* timer expired
LEMMA OwnedStop ==
  ASSUME Typed, Typed', AllOwned, NEW l \in Clients, mTimer[l] # None, Stopped(l), UNCHANGED mTree,
         \/ UNCHANGED task
         \/ task.at = "stop" /\ task.client = l /\ task'.at = "timeOutCallback"
  PROVE  AllOwned'
<1> DEFINE n == Len(mQ) + 1
           d == mTimer[l]
           c == delegate[d].mContainer
<1>a. /\ d \in Delegates /\ mTimer' = [mTimer EXCEPT ![l] = None]
      /\ \A e \in Delegates : e # d => delegate'[e] = delegate[e]
      /\ \A e \in Delegates : delegate'[e].live = delegate[e].live
      /\ \A e \in Delegates : delegate'[e].mFutureTime = delegate[e].mFutureTime
      /\ delegate'[d].mClient = None /\ delegate'[d].mContainer = None
      /\ Sent(Message("remove", c, d))
  BY DEF Stopped
<1>b. delegate[d].live /\ delegate[d].mClient = l /\ c \in Containers
  BY DEF AllOwned, RunningOwned
<1> HIDE DEF c
<1>1. \A what : \A e : Asks(what, e)' <=> Asks(what, e) \/ (what = "remove" /\ e = d)
  BY <1>a, SentAsks DEF Typed
<1>2. /\ mQ'[n].what = "remove" /\ mQ'[n].timer = d /\ mQ'[n].c = c
      /\ \A i \in 1..Len(mQ') : i = n \/ (i \in 1..Len(mQ) /\ mQ'[i] = mQ[i])
      /\ \A i \in 1..Len(mQ) : n > i
  BY <1>a, SentAsks DEF Typed
<1>3. \A e : Held(e)' <=> Held(e) BY DEF Held
<1>4. \A e : Expiry(e)' => Expiry(e) BY DEF Expiry
<1>5. /\ mTimer'[l] = None /\ \A k \in Clients : k # l => mTimer'[k] = mTimer[k]
      /\ \A k \in Clients : mTimer[k] \in Delegates \cup {None}
      /\ \A e \in Delegates : delegate[e].mClient \in Clients \cup {None}
  BY <1>a DEF Typed, ClientsTyped, Memory
<1>6. d # None /\ l # None BY <1>a, NoneIsNobody DEF None
<1>7. \A e \in Delegates : Ranked(e)' = Ranked(e) BY <1>a DEF Ranked
<1>8. ASSUME NEW i \in 1..Len(mQ), mQ[i].what = "remove"
      PROVE  mQ[i].timer \in Delegates /\ mQ[i].timer # d
  <2>1. delegate[mQ[i].timer].mClient = None BY <1>8 DEF AllOwned, RemoveOwned
  <2> QED BY <2>1, <1>b, <1>6, <1>8, AskedIs DEF Typed
<1>c. d = mTimer[l] OBVIOUS
<1> HIDE DEF n, d
<1>9. RunningOwned'
  <2> SUFFICES ASSUME NEW k \in Clients, mTimer'[k] # None, NEW e, e = mTimer'[k]
               PROVE  /\ delegate'[e].live /\ delegate'[e].mClient = k /\ delegate'[e].mContainer \in Containers
                      /\ Held(e)' \/ Asks("push", e)' \/ Expiry(e)'
    BY DEF RunningOwned, Held, Asks, Expiry
  <2>1. k # l /\ e = mTimer[k] /\ e \in Delegates BY <1>5
  <2>2. /\ delegate[e].live /\ delegate[e].mClient = k /\ delegate[e].mContainer \in Containers
        /\ Held(e) \/ Asks("push", e) \/ Expiry(e)
    BY <2>1, <1>6 DEF AllOwned, RunningOwned
  <2>3. e # d /\ delegate'[e] = delegate[e] BY <2>1, <2>2, <1>a, <1>b
  <2>4. Expiry(e) => Expiry(e)'
    <3>1. CASE UNCHANGED task BY <3>1 DEF Expiry
    <3>2. CASE task.at = "stop" /\ task.client = l
      <4>1. Expiry(e) => delegate[e].mClient \in {None, l}
        BY <3>2 DEF AllOwned, ExpiringOwned, Expiry
      <4>2. k # None BY NoneIsNobody DEF None
      <4> QED BY <4>1, <4>2, <2>1, <2>2
    <3> QED BY <3>1, <3>2
  <2> QED BY <2>2, <2>3, <2>4, <1>1, <1>3
<1>10. LiveOwned'
  <2> SUFFICES ASSUME NEW e \in Delegates, delegate'[e].live
               PROVE  IF delegate'[e].mClient = None THEN Asks("remove", e)'
                      ELSE mTimer'[delegate'[e].mClient] = e
    BY DEF LiveOwned, Asks
  <2>1. CASE e = d BY <2>1, <1>a, <1>1
  <2>2. CASE e # d
    <3>1. delegate'[e] = delegate[e] /\ delegate[e].live BY <2>2, <1>a
    <3>2. IF delegate[e].mClient = None THEN Asks("remove", e) ELSE mTimer[delegate[e].mClient] = e
      BY <3>1 DEF AllOwned, LiveOwned
    <3>3. delegate[e].mClient # None => delegate[e].mClient \in Clients /\ delegate[e].mClient # l
      BY <3>2, <2>2, <1>5, <1>c
    <3> QED BY <3>1, <3>2, <3>3, <1>1, <1>5
  <2> QED BY <2>1, <2>2
<1>11. RemoveOwned'
  <2> SUFFICES ASSUME NEW i \in 1..Len(mQ'), mQ'[i].what = "remove", NEW e, e = mQ'[i].timer
               PROVE  /\ delegate'[e].live /\ delegate'[e].mClient = None /\ delegate'[e].mContainer = None
                      /\ \A j \in 1..Len(mQ') : j # i /\ mQ'[j].what = "remove" => mQ'[j].timer # e
    BY DEF RemoveOwned
  <2>1. CASE i = n
    <3>1. e = d BY <2>1, <1>2
    <3>2. \A j \in 1..Len(mQ') : j # i /\ mQ'[j].what = "remove" => mQ'[j].timer # d
      BY <2>1, <1>2, <1>8
    <3> QED BY <3>1, <3>2, <1>a, <1>b
  <2>2. CASE i # n
    <3>1. i \in 1..Len(mQ) /\ mQ'[i] = mQ[i] BY <2>2, <1>2
    <3>2. e # d /\ delegate'[e] = delegate[e] BY <3>1, <1>a, <1>8
    <3>3. /\ delegate[e].live /\ delegate[e].mClient = None /\ delegate[e].mContainer = None
          /\ \A j \in 1..Len(mQ) : j # i /\ mQ[j].what = "remove" => mQ[j].timer # e
      BY <3>1 DEF AllOwned, RemoveOwned
    <3> QED BY <3>2, <3>3, <1>2
  <2> QED BY <2>1, <2>2
<1>12. PushOwned'
  <2> SUFFICES ASSUME NEW i \in 1..Len(mQ'), mQ'[i].what = "push", NEW e, e = mQ'[i].timer
               PROVE  /\ delegate'[e].live
                      /\ delegate'[e].mClient # None => delegate'[e].mContainer = mQ'[i].c
                      /\ ~Held(e)' /\ ~Expiry(e)'
                      /\ \A j \in 1..Len(mQ') : j # i /\ mQ'[j].timer = e =>
                           mQ'[j].what = "remove" /\ j > i /\ mQ'[j].c = mQ'[i].c
    BY DEF PushOwned, Held, Expiry
  <2>1. i \in 1..Len(mQ) /\ mQ'[i] = mQ[i] /\ n > i BY <1>2
  <2>2. e \in Delegates BY <2>1, AskedIs DEF Typed
  <2>3. /\ delegate[e].live
        /\ delegate[e].mClient # None => delegate[e].mContainer = mQ[i].c
        /\ ~Held(e) /\ ~Expiry(e)
        /\ \A j \in 1..Len(mQ) : j # i /\ mQ[j].timer = e =>
             mQ[j].what = "remove" /\ j > i /\ mQ[j].c = mQ[i].c
    BY <2>1 DEF AllOwned, PushOwned
  <2>4. delegate'[e].mClient # None => delegate'[e].mContainer = mQ'[i].c
    <3>1. CASE e = d BY <3>1, <1>a
    <3>2. CASE e # d BY <3>2, <2>1, <2>2, <2>3, <1>a
    <3> QED BY <3>1, <3>2
  <2>5. e = d => c = mQ[i].c BY <2>3, <1>b, <1>6 DEF c
  <2>6. ASSUME NEW j \in 1..Len(mQ'), j # i, mQ'[j].timer = e
        PROVE  mQ'[j].what = "remove" /\ j > i /\ mQ'[j].c = mQ'[i].c
    <3>1. CASE j = n BY <3>1, <2>1, <2>5, <2>6, <1>2
    <3>2. CASE j # n BY <3>2, <2>1, <2>3, <2>6, <1>2
    <3> QED BY <3>1, <3>2
  <2>7. delegate'[e].live BY <2>2, <2>3, <1>a
  <2> QED BY <2>3, <2>4, <2>6, <2>7, <1>3, <1>4
<1>13. HeapOwned'
  <2> SUFFICES ASSUME NEW k \in Containers, NEW x \in Contents(mTree[k]), NEW e, e = x.timer
               PROVE  /\ x = Ranked(e)' /\ delegate'[e].live
                      /\ delegate'[e].mClient # None => delegate'[e].mContainer = k
                      /\ ~Expiry(e)'
                      /\ \A j \in 1..Len(mQ') : mQ'[j].what = "remove" /\ mQ'[j].timer = e => mQ'[j].c = k
                      /\ \A m \in Containers : \A y \in Contents(mTree[m]) : y.timer = e => m = k
    BY DEF HeapOwned, Ranked, Expiry
  <2>1. e \in Delegates
    <3>1. Tree(Timers, mTree[k]) BY DEF Typed, Heaps
    <3>2. x \in Timers BY <3>1, TimersTimed, PeekIs
    <3> QED BY <3>2 DEF Timers
  <2>2. /\ x = Ranked(e) /\ delegate[e].live /\ ~Expiry(e)
        /\ delegate[e].mClient # None => delegate[e].mContainer = k
        /\ \A j \in 1..Len(mQ) : mQ[j].what = "remove" /\ mQ[j].timer = e => mQ[j].c = k
    BY DEF AllOwned, HeapOwned
  <2>3. \A m \in Containers : \A y \in Contents(mTree[m]) : y.timer = e => m = k
    BY DEF AllOwned, HeapOwned
  <2>4. delegate'[e].mClient # None => delegate'[e].mContainer = k
    <3>1. CASE e = d BY <3>1, <1>a
    <3>2. CASE e # d BY <3>2, <2>1, <2>2, <1>a
    <3> QED BY <3>1, <3>2
  <2>5. e = d => c = k BY <2>2, <1>b, <1>6 DEF c
  <2>6. \A j \in 1..Len(mQ') : mQ'[j].what = "remove" /\ mQ'[j].timer = e => mQ'[j].c = k
    BY <2>2, <2>5, <1>2
  <2>7. x = Ranked(e)' /\ delegate'[e].live BY <2>1, <2>2, <1>a, <1>7
  <2> QED BY <2>2, <2>3, <2>4, <2>6, <2>7, <1>4
<1>14. ExpiringOwned'
  <2>1. \A e \in Delegates : Expiry(e)' => delegate'[e].live BY <1>a, <1>4 DEF AllOwned, ExpiringOwned
  <2>2. ASSUME task'.at = "stop" PROVE delegate'[task'.timer].mClient \in {None, task'.client}
    <3>1. task' = task BY <2>2
    <3>2. task.timer \in Delegates BY <3>1, <2>2 DEF Typed, TaskTyped
    <3>3. delegate[task.timer].mClient \in {None, task.client}
      BY <3>1, <2>2 DEF AllOwned, ExpiringOwned
    <3>4. CASE task.timer = d BY <3>1, <3>4, <1>a
    <3>5. CASE task.timer # d BY <3>1, <3>2, <3>3, <3>5, <1>a
    <3> QED BY <3>4, <3>5
  <2> QED BY <2>1, <2>2 DEF ExpiringOwned
<1> QED BY <1>9, <1>10, <1>11, <1>12, <1>13, <1>14 DEF AllOwned

\* The inductive invariant.
TimerInv == Typed /\ AllOwned

LEMMA TimerInvInit == TimerInit => TimerInv
<1> SUFFICES ASSUME TimerInit PROVE TimerInv
  OBVIOUS
<1>1. Typed BY TimerTypedInit
<1>2. Len(mQ) = 0 BY DEF TimerInit
<1>3. \A i \in 1..Len(mQ) : FALSE BY <1>2
<1>4. \A c \in Containers : Contents(mTree[c]) = {} BY EmptyTree DEF TimerInit
<1>5. /\ \A l \in Clients : mTimer[l] = None
      /\ \A d \in Delegates : ~delegate[d].live
      /\ task.at = "msg_q_rcv"
  BY DEF TimerInit, Freed, TaskIdle
<1>6. AllOwned
  BY <1>3, <1>4, <1>5
     DEF AllOwned, RunningOwned, LiveOwned, RemoveOwned, PushOwned, HeapOwned, ExpiringOwned, Expiry
<1> QED BY <1>1, <1>6 DEF TimerInv

LEMMA KeptIs ==
  ASSUME Asked, Asked'
  PROVE  /\ UNCHANGED mQ => Kept(0)
         /\ \A c, d : Received("expire", c, d) => Kept(1)
<1>1. Len(mQ) \in Nat /\ Len(mQ') \in Nat BY DEF Asked
<1>2. UNCHANGED mQ => Kept(0) BY <1>1 DEF Kept
<1>3. \A c, d : Received("expire", c, d) => Kept(1) BY <1>1 DEF Kept, Received
<1> QED BY <1>2, <1>3

LEMMA TimerInvTask ==
  ASSUME TimerInv, TimerTask
  PROVE  TimerInv'
<1> USE DEF TimerInv
<1>1. CASE MsgTimerPush
  <2>1. Typed' /\ \E c, d : TimerPushed(c, d) BY <1>1, TypedPush DEF AllOwned
  <2> QED BY <2>1, OwnedPush
<1>2. CASE MsgTimerRemove
  <2>1. Typed' /\ \E c, d : TimerRemoved(c, d) BY <1>2, TypedRemove
  <2> QED BY <2>1, OwnedRemove
<1>3. CASE MsgTimerExpire
  <2>1. /\ Typed' /\ UNCHANGED <<mTimer, delegate>> /\ Receiving
        /\ \E c \in Containers : /\ Received("expire", c, Head(mQ).timer)
                                 /\ HeapsSettled \/ \E d \in Delegates : TopPopped(c, d)
    BY <1>3, TypedExpire
  <2>2. Kept(1) BY <2>1, KeptIs DEF Typed
  <2>3. /\ task.at \notin {"expire", "stop"} /\ \A d : ~Expiry(d) BY <2>1 DEF Receiving, Expiry
  <2>4. CASE HeapsSettled
    <3>1. /\ \A d : ~Expiry(d)' /\ task'.at # "stop"
          /\ \A k \in Containers : Contents(mTree'[k]) = Contents(mTree[k])
      BY <2>4 DEF HeapsSettled, Receiving, Expiry
    <3>2. AllOwned' BY <3>1, <2>1, <2>2, <2>3, OwnedFrame
    <3> QED BY <3>2, <2>1
  <2>5. CASE \E c \in Containers, d \in Delegates : TopPopped(c, d)
    <3>1. AllOwned' BY <2>5, <2>1, <2>2, <2>3, OwnedPop
    <3> QED BY <3>1, <2>1
  <2> QED BY <2>1, <2>4, <2>5
<1>4. CASE NextTimer
  <2>1. /\ Typed' /\ UNCHANGED <<mTimer, delegate, mQ>> /\ task.at = "next"
        /\ HeapsSettled \/ \E c \in Containers, d \in Delegates : TopPopped(c, d)
    BY <1>4, TypedNext
  <2>2. Kept(0) BY <2>1, KeptIs DEF Typed
  <2>3. task.at \notin {"expire", "stop"} /\ \A d : ~Expiry(d) BY <2>1 DEF Expiry
  <2>4. CASE HeapsSettled
    <3>1. /\ \A d : ~Expiry(d)' /\ task'.at # "stop"
          /\ \A k \in Containers : Contents(mTree'[k]) = Contents(mTree[k])
      BY <2>4 DEF HeapsSettled, Receiving, Expiry
    <3>2. AllOwned' BY <3>1, <2>1, <2>2, <2>3, OwnedFrame
    <3> QED BY <3>2, <2>1
  <2>5. CASE \E c \in Containers, d \in Delegates : TopPopped(c, d)
    <3>1. AllOwned' BY <2>5, <2>1, <2>2, <2>3, OwnedPop
    <3> QED BY <3>1, <2>1
  <2> QED BY <2>1, <2>4, <2>5
<1>5. CASE ReadClient
  <2>1. /\ Typed' /\ UNCHANGED <<mTimer, delegate, mQ, mTree>> /\ task.at = "expire"
        /\ \/ delegate[task.timer].mClient = None /\ task'.at = "next"
           \/ /\ task'.at = "stop" /\ task'.timer = task.timer
              /\ task'.client = delegate[task.timer].mClient
    BY <1>5, TypedRead
  <2>2. Kept(0) BY <2>1, KeptIs DEF Typed
  <2>3. /\ \A k \in Containers : Contents(mTree'[k]) = Contents(mTree[k])
        /\ \A d : Expiry(d)' => Expiry(d)
        /\ \A d \in Delegates : Expiry(d) /\ ~Expiry(d)' => delegate[d].mClient = None
        /\ task'.at = "stop" => delegate[task'.timer].mClient \in {None, task'.client}
    BY <2>1 DEF Expiry
  <2>4. AllOwned' BY <2>1, <2>2, <2>3, OwnedFrame
  <2> QED BY <2>1, <2>4
<1>6. CASE StopExpired
  <2>1. /\ Typed' /\ UNCHANGED mTree /\ task.at = "stop" /\ task.client \in Clients
        /\ \/ /\ mTimer[task.client] # None /\ Stopped(task.client)
              /\ task'.at = "timeOutCallback" /\ task'.client = task.client
           \/ /\ mTimer[task.client] = None /\ UNCHANGED <<mTimer, delegate, mQ>>
              /\ task'.at = "next"
    BY <1>6, TypedStopExpired DEF AllOwned
  <2>2. CASE mTimer[task.client] # None
    <3>1. Stopped(task.client) /\ task'.at = "timeOutCallback" BY <2>1, <2>2
    <3>2. AllOwned' BY <3>1, <2>1, <2>2, OwnedStop
    <3> QED BY <2>1, <3>2
  <2>3. CASE mTimer[task.client] = None
    <3>1. UNCHANGED <<mTimer, delegate, mQ>> /\ task'.at = "next" BY <2>1, <2>3
    <3>2. Kept(0) BY <2>1, <3>1, KeptIs DEF Typed
    <3>3. ASSUME NEW d \in Delegates, Expiry(d) PROVE delegate[d].mClient = None
      <4>1. d = task.timer /\ delegate[d].live /\ delegate[d].mClient \in {None, task.client}
        BY <2>1, <3>3 DEF AllOwned, ExpiringOwned, Expiry
      <4>2. d # None BY NoneIsNobody DEF None
      <4> QED BY <4>1, <4>2, <2>3 DEF AllOwned, LiveOwned
    <3>4. /\ \A k \in Containers : Contents(mTree'[k]) = Contents(mTree[k])
          /\ \A d : ~Expiry(d)' /\ task'.at # "stop"
      BY <2>1, <3>1 DEF Expiry
    <3>5. AllOwned' BY <2>1, <3>1, <3>2, <3>3, <3>4, OwnedFrame
    <3> QED BY <2>1, <3>5
  <2> QED BY <2>2, <2>3
<1>7. CASE timeOutCallback \/ settime
  <2>1. /\ Typed' /\ UNCHANGED <<mTimer, delegate, mQ, mTree>>
        /\ task.at \in {"timeOutCallback", "settime"} /\ task'.at \in {"next", "msg_q_rcv"}
    BY <1>7, TypedRest
  <2>2. Kept(0) BY <2>1, KeptIs DEF Typed
  <2>3. /\ \A k \in Containers : Contents(mTree'[k]) = Contents(mTree[k])
        /\ \A d : ~Expiry(d) /\ ~Expiry(d)' /\ task'.at # "stop"
    BY <2>1 DEF Expiry
  <2>4. AllOwned' BY <2>1, <2>2, <2>3, OwnedFrame
  <2> QED BY <2>1, <2>4
<1> QED BY <1>1, <1>2, <1>3, <1>4, <1>5, <1>6, <1>7 DEF TimerTask

LEMMA OwnedUnchanged ==
  ASSUME TimerInv, Typed', UNCHANGED <<mTimer, delegate, mQ, mTree, task>>
  PROVE  TimerInv'
<1>1. Kept(0) BY KeptIs DEF TimerInv, Typed
<1>2. \A d : Expiry(d)' <=> Expiry(d) BY DEF Expiry
<1>3. task'.at = "stop" => delegate[task'.timer].mClient \in {None, task'.client}
  BY DEF TimerInv, AllOwned, ExpiringOwned
<1>4. AllOwned' BY <1>1, <1>2, <1>3, OwnedFrame DEF TimerInv
<1> QED BY <1>4 DEF TimerInv

LEMMA TimerInvNext == TimerInv /\ [TimerNext]_timerVars => TimerInv'
<1> SUFFICES ASSUME TimerInv, [TimerNext]_timerVars PROVE TimerInv'
  OBVIOUS
<1>0. Typed /\ AllOwned BY DEF TimerInv
<1>1. CASE \E l \in Clients, delay \in Delays, c \in Containers : start(l, delay, c)
  <2>1. PICK l \in Clients, delay \in Delays, c \in Containers : start(l, delay, c) BY <1>1
  <2>2. /\ Typed'
        /\ \E d \in Delegates :
           /\ ~delegate[d].live /\ mTimer' = [mTimer EXCEPT ![l] = d]
           /\ delegate' = [delegate EXCEPT ![d] =
                [mClient |-> l, mFutureTime |-> now + delay, mContainer |-> c, live |-> TRUE]]
           /\ Sent(Message("push", c, d))
    BY <2>1, <1>0, TypedStart
  <2>3. mTimer[l] = None /\ UNCHANGED <<mTree, task>> BY <2>1 DEF start
  <2>4. AllOwned' BY <2>2, <2>3, <1>0, OwnedStart
  <2> QED BY <2>2, <2>4 DEF TimerInv
<1>2. CASE \E l \in Clients : stop(l)
  <2>1. PICK l \in Clients : stop(l) BY <1>2
  <2>2. /\ mTimer[l] # None /\ StopLocked(l)
        /\ UNCHANGED <<now, mTree, timerfd, polled, task, poll>>
    BY <2>1 DEF stop, fdVars
  <2>3. /\ Asked' /\ mTimer' \in [Clients -> Delegates \cup {None}]
        /\ delegate' \in [Delegates -> Memory] /\ Stopped(l)
    BY <2>2, <1>0, StopLockedIs DEF AllOwned
  <2>4. Typed'
    BY <2>2, <2>3, <1>0 DEF Typed, Heaps, TaskTyped, PollTyped, ClientsTyped
  <2>5. AllOwned' BY <2>2, <2>3, <2>4, <1>0, OwnedStop
  <2> QED BY <2>4, <2>5 DEF TimerInv
<1>3. CASE PollTask \/ Tick
  <2>1. Typed' BY <1>3, <1>0, TypedPoll
  <2>2. CASE sendExpire
    <3>1. /\ Sent(Message("expire", poll.c, None)) /\ UNCHANGED <<mTimer, delegate, mTree, task>>
      <4>1. Message("expire", poll.c, None) \in TimerMessages /\ Addressed(Message("expire", poll.c, None))
        BY <2>2, <1>0 DEF sendExpire, Typed, PollTyped, TimerMessages, Message, Addressed
      <4> QED BY <4>1, <2>2, <1>0, SendIs DEF sendExpire, Typed
    <3>2. AllOwned' BY <3>1, <2>1, <1>0, OwnedSend
    <3> QED BY <2>1, <3>2 DEF TimerInv
  <2>3. CASE epoll_wait \/ removePoll \/ Tick \/ \E c \in Containers : disarm(c)
    <3>1. UNCHANGED <<mTimer, delegate, mQ, mTree, task>>
      BY <2>3 DEF epoll_wait, removePoll, Tick, disarm
    <3> QED BY <3>1, <2>1, OwnedUnchanged
  <2> QED BY <1>3, <2>2, <2>3 DEF PollTask
<1>4. CASE TimerTask
  BY <1>4, TimerInvTask
<1>5. CASE UNCHANGED timerVars
  <2>1. UNCHANGED <<mTimer, delegate, mQ, mTree, task, now, poll, polled, timerfd>>
    BY <1>5 DEF timerVars
  <2>2. Typed'
    BY <2>1, <1>0 DEF Typed, Heaps, Asked, TaskTyped, PollTyped, ClientsTyped
  <2> QED BY <2>1, <2>2, OwnedUnchanged
<1> QED BY <1>1, <1>2, <1>3, <1>4, <1>5 DEF TimerNext

LEMMA TimerInductive == TimerSpec => []TimerInv
<1>1. TimerInv /\ [TimerNext]_timerVars => TimerInv'
  BY TimerInvNext
<1>2. QED
  BY TimerInvInit, <1>1, PTL DEF TimerSpec

LEMMA TimerInvOwned == TimerInv => DelegatesOwned
<1> SUFFICES ASSUME TimerInv PROVE DelegatesOwned
  OBVIOUS
<1>1. Typed /\ AllOwned BY DEF TimerInv
<1>2. TimerTypeOK
  <2>1. mQ \in Seq(TimerMessages) BY <1>1 DEF Typed, Asked
  <2>2. \A c \in Containers : checkTree(mTree[c]) BY <1>1 DEF Typed, Heaps, Tree
  <2> QED BY <1>1, <2>1, <2>2 DEF TimerTypeOK, Typed, PollTyped, ClientsTyped, Memory
<1>3. DOMAIN mQ = 1..Len(mQ) BY <1>1 DEF Typed, Asked
<1>4. \A what : \A d : d \in Queued(what) <=> Asks(what, d) BY <1>3 DEF Queued, Asks
<1>5. \A d : d \in InHeap <=> Held(d)
  <2>1. ASSUME NEW d \in InHeap PROVE Held(d) BY DEF InHeap, Held
  <2>2. ASSUME NEW d, Held(d) PROVE d \in InHeap BY <2>2 DEF InHeap, Held
  <2> QED BY <2>1, <2>2
<1>6. \A d : d \in Expiring <=> Expiry(d) BY DEF Expiring, Expiry
<1>7. \A d : d \in Running <=> d # None /\ \E l \in Clients : d = mTimer[l] BY DEF Running
<1>8. ASSUME NEW d \in Running \cup InHeap \cup Queued("push") \cup Queued("remove") \cup Expiring
      PROVE  delegate[d].live
  <2>1. CASE d \in Running BY <2>1, <1>1, <1>7 DEF AllOwned, RunningOwned
  <2>2. CASE Held(d) BY <2>2, <1>1 DEF Held, AllOwned, HeapOwned
  <2>3. CASE Asks("push", d) BY <2>3, <1>1 DEF Asks, AllOwned, PushOwned
  <2>4. CASE Asks("remove", d) BY <2>4, <1>1 DEF Asks, AllOwned, RemoveOwned
  <2>5. CASE Expiry(d)
    <3>1. d \in Delegates BY <2>5, <1>1 DEF Expiry, Typed, TaskTyped
    <3> QED BY <3>1, <2>5, <1>1 DEF AllOwned, ExpiringOwned
  <2> QED BY <2>1, <2>2, <2>3, <2>4, <2>5, <1>4, <1>5, <1>6
<1>9. ASSUME NEW d \in Delegates, delegate[d].live PROVE d \in Running \cup Queued("remove")
  <2>1. CASE delegate[d].mClient = None
    <3>1. Asks("remove", d) BY <2>1, <1>1, <1>9 DEF AllOwned, LiveOwned
    <3> QED BY <3>1, <1>4
  <2>2. CASE delegate[d].mClient # None
    <3>1. mTimer[delegate[d].mClient] = d BY <2>2, <1>1, <1>9 DEF AllOwned, LiveOwned
    <3>2. delegate[d].mClient \in Clients BY <2>2, <1>1 DEF Typed, ClientsTyped, Memory
    <3>3. d # None BY NoneIsNobody DEF None
    <3> QED BY <3>1, <3>2, <3>3, <1>7
  <2> QED BY <2>1, <2>2
<1>10. Running \cap Queued("remove") = {}
  <2> SUFFICES ASSUME NEW d \in Running, Asks("remove", d) PROVE FALSE
    BY <1>4
  <2>1. PICK l \in Clients : d = mTimer[l] /\ d # None BY <1>7
  <2>2. delegate[d].mClient = l BY <2>1, <1>1 DEF AllOwned, RunningOwned
  <2>3. delegate[d].mClient = None BY <1>1 DEF Asks, AllOwned, RemoveOwned
  <2> QED BY <2>2, <2>3, NoneIsNobody DEF None
<1>11. ASSUME NEW i \in DOMAIN mQ, NEW j \in DOMAIN mQ,
              i # j, mQ[i].timer = mQ[j].timer, mQ[i].what = mQ[j].what
       PROVE  mQ[i].what = "expire"
  <2>1. i \in 1..Len(mQ) /\ j \in 1..Len(mQ) BY <1>3
  <2>2. mQ[i].what \in {"push", "remove", "expire"} BY <2>1, <1>1, AskedIs DEF Typed
  <2>3. mQ[i].what # "remove" BY <2>1, <1>1, <1>11 DEF AllOwned, RemoveOwned
  <2>4. mQ[i].what # "push" BY <2>1, <1>1, <1>11 DEF AllOwned, PushOwned
  <2> QED BY <2>2, <2>3, <2>4
<1>12. Running \subseteq InHeap \cup Queued("push") \cup Expiring
  <2> SUFFICES ASSUME NEW d \in Running PROVE Held(d) \/ Asks("push", d) \/ Expiry(d)
    BY <1>4, <1>5, <1>6
  <2> QED BY <1>1, <1>7 DEF AllOwned, RunningOwned
<1> QED BY <1>2, <1>8, <1>9, <1>10, <1>11, <1>12 DEF DelegatesOwned

(***************************************************************************)
(* The poll thread, the message task and the clients' threads never touch  *)
(* a LocTimerDelegate that has been deleted, and none leaks: whoever still *)
(* points at a delegate - its timer, a heap, a queued message, the expiry  *)
(* being carried out - finds it alive; each that is alive is still run by  *)
(* its timer or about to be removed, never both; a timer that runs is in a *)
(* heap, on its way into it or expiring; no push or removal is asked for   *)
(* twice.  Whoever wins the race between stop() and expire()               *)
(* (LocTimer.cpp), for any clients, containers, delegates and bounds, and  *)
(* heaps of any size.                                                      *)
(***************************************************************************)
THEOREM DelegatesAlwaysOwned == TimerSpec => []DelegatesOwned
<1>1. TimerInv => DelegatesOwned
  BY TimerInvOwned
<1>2. QED
  BY <1>1, TimerInductive, PTL

\* a timer that runs, and a callback that is about to be made, are still to end
Runs(l) == IF mTimer[l] # None THEN 1 ELSE 0
Calls(l) == IF task.at = "timeOutCallback" /\ task.client = l THEN 1 ELSE 0

LEMMA TimersBegin == TimerInit => Counted /\ EndsOnce
<1> SUFFICES ASSUME TimerInit PROVE Counted /\ EndsOnce
  OBVIOUS
<1>1. Counted BY TimerTypedInit
<1>2. ASSUME NEW l \in Clients
      PROVE  starts[l] = 0 /\ stops[l] = 0 /\ callbacks[l] = 0 /\ mTimer[l] = None
             /\ task.at # "timeOutCallback"
  BY DEF TimerInit, TaskIdle
<1> QED BY <1>1, <1>2 DEF EndsOnce

LEMMA EndsOnceNext ==
  ASSUME TimerInv, TimerInv', Counted, EndsOnce, [TimerNext]_timerVars
  PROVE  Counted' /\ EndsOnce'
<1>1. Typed /\ Typed' /\ AllOwned BY DEF TimerInv
<1>2. \A l \in Clients : /\ starts[l] = stops[l] + callbacks[l] + Runs(l) + Calls(l)
                         /\ starts[l] \in Nat /\ stops[l] \in Nat /\ callbacks[l] \in Nat
  BY DEF EndsOnce, Runs, Calls, Counted
<1>3. (\A l \in Clients : starts'[l] = stops'[l] + callbacks'[l] + Runs(l)' + Calls(l)')
      => EndsOnce'
  BY DEF EndsOnce, Runs, Calls
<1>4. \A l \in Clients : Runs(l) \in Nat /\ Calls(l) \in Nat BY DEF Runs, Calls
\* whatever leaves the timers and the callbacks alone
<1>5. ASSUME UNCHANGED <<starts, stops, callbacks, mTimer>>,
             task' = task \/ (task.at # "timeOutCallback" /\ task'.at # "timeOutCallback")
      PROVE  Counted' /\ EndsOnce'
  <2>1. \A l \in Clients : Runs(l)' = Runs(l) /\ Calls(l)' = Calls(l) BY <1>5 DEF Runs, Calls
  <2> QED BY <1>2, <1>3, <1>5, <2>1 DEF Counted
<1>6. CASE \E l \in Clients, delay \in Delays, c \in Containers : start(l, delay, c)
  <2>1. PICK l \in Clients, delay \in Delays, c \in Containers : start(l, delay, c) BY <1>6
  <2>2. PICK d \in Delegates : mTimer' = [mTimer EXCEPT ![l] = d] BY <2>1, <1>1, TypedStart
  <2>3. /\ mTimer[l] = None /\ starts' = [starts EXCEPT ![l] = starts[l] + 1]
        /\ UNCHANGED <<task, stops, callbacks>>
    BY <2>1 DEF start
  <2>4. d # None BY NoneIsNobody DEF None
  <2>5. /\ Runs(l) = 0 /\ Runs(l)' = 1
        /\ \A k \in Clients : k # l => Runs(k)' = Runs(k)
        /\ \A k \in Clients : Calls(k)' = Calls(k)
    BY <2>2, <2>3, <2>4, <1>1 DEF Runs, Calls, Typed, ClientsTyped
  <2>6. starts'[l] = starts[l] + 1 /\ \A k \in Clients : k # l => starts'[k] = starts[k]
    BY <2>3 DEF Counted
  <2>7. Counted' BY <2>3, <2>6 DEF Counted
  <2> QED BY <1>2, <1>3, <1>4, <2>3, <2>5, <2>6, <2>7
<1>7. ASSUME NEW l \in Clients, mTimer[l] # None, Stopped(l)
      PROVE  /\ Runs(l) = 1 /\ Runs(l)' = 0 /\ \A k \in Clients : k # l => Runs(k)' = Runs(k)
  <2>1. mTimer' = [mTimer EXCEPT ![l] = None] BY <1>7 DEF Stopped
  <2> QED BY <2>1, <1>1, <1>7 DEF Runs, Typed, ClientsTyped
<1>8. CASE \E l \in Clients : stop(l)
  <2>1. PICK l \in Clients : stop(l) BY <1>8
  <2>2. /\ mTimer[l] # None /\ StopLocked(l) /\ stops' = [stops EXCEPT ![l] = stops[l] + 1]
        /\ UNCHANGED <<task, starts, callbacks>>
    BY <2>1 DEF stop
  <2>3. Stopped(l) BY <2>2, <1>1, StopLockedIs DEF AllOwned
  <2>4. \A k \in Clients : Calls(k)' = Calls(k) BY <2>2 DEF Calls
  <2>5. stops'[l] = stops[l] + 1 /\ \A k \in Clients : k # l => stops'[k] = stops[k]
    BY <2>2 DEF Counted
  <2>6. Counted' BY <2>2, <2>5 DEF Counted
  <2> QED BY <1>2, <1>3, <1>4, <1>7, <2>2, <2>3, <2>4, <2>5, <2>6
<1>9. CASE PollTask \/ Tick
  BY <1>5, <1>9 DEF PollTask, epoll_wait, removePoll, sendExpire, disarm, Tick, counts
<1>10. CASE StopExpired
  <2> DEFINE l == task.client
  <2>1. /\ task.at = "stop" /\ l \in Clients
        /\ \/ /\ mTimer[l] # None /\ Stopped(l)
              /\ task'.at = "timeOutCallback" /\ task'.client = l
           \/ /\ mTimer[l] = None /\ UNCHANGED <<mTimer, delegate, mQ>>
              /\ task'.at = "next"
    BY <1>10, <1>1, TypedStopExpired DEF AllOwned
  <2>2. UNCHANGED <<starts, stops, callbacks>> BY <1>10 DEF StopExpired, counts
  <2>3. CASE mTimer[l] # None
    <3>1. Stopped(l) /\ task'.at = "timeOutCallback" /\ task'.client = l BY <2>1, <2>3
    <3>2. \A k \in Clients : Calls(k) = 0 /\ Calls(k)' = (IF k = l THEN 1 ELSE 0)
      BY <2>1, <3>1 DEF Calls
    <3>3. \A k \in Clients : IF k = l THEN Runs(k) = 1 /\ Runs(k)' = 0 ELSE Runs(k)' = Runs(k)
      <4>1. mTimer' = [mTimer EXCEPT ![l] = None] BY <3>1 DEF Stopped
      <4> QED BY <4>1, <2>1, <2>3, <1>1 DEF Runs, Typed, ClientsTyped
    <3> HIDE DEF l
    <3>4. ASSUME NEW k \in Clients
          PROVE  starts'[k] = stops'[k] + callbacks'[k] + Runs(k)' + Calls(k)'
      <4>1. CASE k = l BY <4>1, <1>2, <2>2, <3>2, <3>3
      <4>2. CASE k # l
        <5>1. Runs(k)' = Runs(k) /\ Calls(k)' = Calls(k) BY <4>2, <3>2, <3>3
        <5>2. starts'[k] = starts[k] /\ stops'[k] = stops[k] /\ callbacks'[k] = callbacks[k]
          BY <2>2
        <5> QED BY <5>1, <5>2, <1>2
      <4> QED BY <4>1, <4>2
    <3> QED BY <1>3, <2>2, <3>4 DEF Counted
  <2>4. CASE mTimer[l] = None BY <2>1, <2>2, <2>4, <1>5
  <2> QED BY <2>3, <2>4
<1>11. CASE timeOutCallback
  <2> DEFINE l == task.client
  <2>1. l \in Clients /\ task.at = "timeOutCallback" BY <1>11, <1>1 DEF timeOutCallback, Typed, TaskTyped
  <2>2. /\ callbacks' = [callbacks EXCEPT ![l] = callbacks[l] + 1]
        /\ UNCHANGED <<mTimer, starts, stops>> /\ task'.at \in {"next", "msg_q_rcv"}
    BY <1>11, <1>1, TypedRest DEF timeOutCallback
  <2>3. \A k \in Clients : Calls(k) = (IF k = l THEN 1 ELSE 0) /\ Calls(k)' = 0
    BY <2>1, <2>2 DEF Calls
  <2>4. \A k \in Clients : Runs(k)' = Runs(k) BY <2>2 DEF Runs
  <2> HIDE DEF l
  <2>5. callbacks'[l] = callbacks[l] + 1 /\ \A k \in Clients : k # l => callbacks'[k] = callbacks[k]
    BY <2>1, <2>2 DEF Counted
  <2>6. Counted' BY <2>1, <2>2, <2>5 DEF Counted
  <2>7. ASSUME NEW k \in Clients
        PROVE  starts'[k] = stops'[k] + callbacks'[k] + Runs(k)' + Calls(k)'
    <3>1. CASE k = l BY <3>1, <1>2, <1>4, <2>2, <2>3, <2>4, <2>5
    <3>2. CASE k # l BY <3>2, <1>2, <1>4, <2>2, <2>3, <2>4, <2>5
    <3> QED BY <3>1, <3>2
  <2> QED BY <1>3, <2>6, <2>7
<1>12. CASE MsgTimerPush
  <2>1. \E c, d : TimerPushed(c, d) BY <1>12, <1>1, TypedPush DEF AllOwned
  <2> QED BY <2>1, <1>5, <1>12 DEF TimerPushed, Receiving, MsgTimerPush, counts
<1>13. CASE MsgTimerRemove
  <2>1. \E c, d : TimerRemoved(c, d) BY <1>13, <1>1, TypedRemove
  <2> QED BY <2>1, <1>5, <1>13 DEF TimerRemoved, Receiving, MsgTimerRemove, counts
<1>14. CASE MsgTimerExpire
  <2>1. Receiving /\ task'.at # "timeOutCallback" BY <1>14, <1>1, TypedExpire DEF HeapsSettled, Receiving, TopPopped
  <2> QED BY <2>1, <1>5, <1>14 DEF Receiving, MsgTimerExpire, counts
<1>15. CASE NextTimer
  <2>1. task.at = "next" /\ task'.at # "timeOutCallback"
    BY <1>15, <1>1, TypedNext DEF HeapsSettled, Receiving, TopPopped
  <2> QED BY <2>1, <1>5, <1>15 DEF NextTimer, counts
<1>16. CASE ReadClient
  <2>1. task.at = "expire" /\ task'.at # "timeOutCallback" BY <1>16, <1>1, TypedRead
  <2> QED BY <2>1, <1>5, <1>16 DEF ReadClient, counts
<1>17. CASE settime
  BY <1>5, <1>17 DEF settime, TaskIdle, counts
<1>18. CASE UNCHANGED timerVars
  BY <1>5, <1>18 DEF timerVars
<1> QED
  BY <1>6, <1>8, <1>9, <1>10, <1>11, <1>12, <1>13, <1>14, <1>15, <1>16, <1>17, <1>18
  DEF TimerNext, TimerTask

(***************************************************************************)
(* A timer that was started ends exactly once: by the stop() that returned *)
(* success or by its timeOutCallback, never by both, however the client's  *)
(* stop() races the expiry that the message task carries out               *)
(* (LocTimer.cpp, LocTimerDelegate::expire).                               *)
(***************************************************************************)
THEOREM TimersEndOnce == TimerSpec => []EndsOnce
<1>1. TimerInv /\ TimerInv' /\ Counted /\ EndsOnce /\ [TimerNext]_timerVars
      => Counted' /\ EndsOnce'
  BY EndsOnceNext
<1>2. QED
  BY TimersBegin, TimerInductive, <1>1, PTL DEF TimerSpec
==============================================================================
