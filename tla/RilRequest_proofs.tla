-------------------------- MODULE RilRequest_proofs --------------------------
(***************************************************************************)
(* Proofs about RilRequest, for any sets of threads, requests and blocks.  *)
(***************************************************************************)
EXTENDS RilRequest, TLAPS

Blocks == [live : BOOLEAN, serial : Serials, ackSent : BOOLEAN]
Items == [token : Tokens, serial : Serials, acked : BOOLEAN]

\* the places of a thread that answers for a block, and of one that has a pointer
Owning == {"dispatch", "fake", "card", "activate", "respond", "free"}
Busy == Owning \cup AckPlaces

\* What a thread has, and whether the list still has it too.
HeldInv ==
  /\ \A t \in Threads : pc[t] \in Busy <=> cur[t] # NoToken
  /\ \A t \in Threads : pc[t] \notin Busy => job[t] = NoResult
  /\ \A t \in Threads : pc[t] \in Owning => req[cur[t]].live /\ req[cur[t]].serial = job[t]
  /\ \A t \in Threads : pc[t] \in {"dispatch", "fake"} => cur[t] \in pending
  /\ \A t \in Threads : pc[t] \in {"card", "activate", "respond", "free"} => cur[t] \notin pending
  /\ \A k \in pending : req[k].live

\* A token of the vendor's is in the list, with its request.
VendorInv == \A i \in vendor : i.token \in pending /\ req[i.token].serial = i.serial

\* A block has one owner: the vendor, or a thread.
OwnerInv ==
  /\ \A i, j \in vendor : i.token = j.token => i = j
  /\ \A t, u \in Threads : pc[t] \in Owning /\ pc[u] \in Owning /\ cur[t] = cur[u] => t = u
  /\ \A t \in Threads, i \in vendor : pc[t] \in Owning => cur[t] # i.token

\* the disjunction of NoLostRequest
Found(s) ==
  \/ \E t \in Threads : job[t] = s /\ pc[t] \notin AckPlaces
  \/ \E i \in vendor : i.serial = s /\ i.token \in pending /\ req[i.token].serial = s

\* An answer comes before its block is freed.
FreedInv == \A t \in Threads : pc[t] = "free" => answers[job[t]] # 0

\* The inductive invariant.
IInv == TypeOK /\ HeldInv /\ VendorInv /\ OwnerInv /\ FreedInv /\ NoLostRequest

-----------------------------------------------------------------------------
(***************************************************************************)
(* A thread moves, the others stay.                                        *)
(***************************************************************************)
LEMMA ThreadMoves ==
  ASSUME TypeOK, NEW t \in Threads, NEW place, NEW k, NEW s, Step(t, place, k, s)
  PROVE  \A u \in Threads :
           /\ pc'[u] = IF u = t THEN place ELSE pc[u]
           /\ cur'[u] = IF u = t THEN k ELSE cur[u]
           /\ job'[u] = IF u = t THEN s ELSE job[u]
BY DEF Step, TypeOK

LEMMA ThreadReturns ==
  ASSUME TypeOK, NEW t \in Threads, Return(t)
  PROVE  \A u \in Threads :
           /\ u # t => pc'[u] = pc[u] /\ cur'[u] = cur[u] /\ job'[u] = job[u]
           /\ u = t => pc'[u] \in {"idle", "done"} /\ cur'[u] = NoToken /\ job'[u] = NoResult
BY DEF Return, Step, TypeOK

LEMMA FieldTypes ==
  /\ \A b \in Blocks : [b EXCEPT !.live = FALSE] \in Blocks /\ [b EXCEPT !.ackSent = TRUE] \in Blocks
  /\ \A i \in Items : [i EXCEPT !.acked = TRUE] \in Items
BY DEF Blocks, Items

LEMMA StepTypes ==
  ASSUME TypeOK, NEW t \in Threads, NEW place \in Places, NEW k \in Tokens \cup {NoToken},
         NEW s \in Serials \cup {NoResult}, Step(t, place, k, s)
  PROVE  /\ pc' \in [Threads -> Places] /\ cur' \in [Threads -> Tokens \cup {NoToken}]
         /\ job' \in [Threads -> Serials \cup {NoResult}]
BY DEF Step, TypeOK

LEMMA ReturnTypes ==
  ASSUME TypeOK, NEW t \in Threads, Return(t)
  PROVE  /\ pc' \in [Threads -> Places] /\ cur' \in [Threads -> Tokens \cup {NoToken}]
         /\ job' \in [Threads -> Serials \cup {NoResult}]
BY DEF Return, Step, TypeOK, Places

(***************************************************************************)
(* Every step of the model keeps the types.                                *)
(***************************************************************************)
LEMMA TypeStep == ASSUME IInv, [Next]_vars PROVE TypeOK'
<1> USE Shape DEF Threads, Dispatchers, Serials, clientVars
<1>0. TypeOK /\ HeldInv /\ VendorInv
  BY DEF IInv
<1>1. ASSUME NEW d \in Dispatchers, NEW s \in Serials, NEW k \in Tokens, addRequestToList(d, s, k) PROVE TypeOK'
  BY <1>0, <1>1, StepTypes, ReturnTypes DEF addRequestToList, TypeOK, Places, HeldInv, VendorInv, Busy, Owning, AckPlaces
<1>2. ASSUME NEW d \in Dispatchers, NEW s \in Serials, RequestRefused(d, s) PROVE TypeOK'
  BY <1>0, <1>2, StepTypes, ReturnTypes DEF RequestRefused, TypeOK, Places, HeldInv, VendorInv, Busy, Owning, AckPlaces
<1>3. ASSUME NEW d \in Dispatchers, sendErrorResponse(d) PROVE TypeOK'
  BY <1>0, <1>3, StepTypes, ReturnTypes DEF sendErrorResponse, TypeOK, Places, HeldInv, VendorInv, Busy, Owning, AckPlaces
<1>4. ASSUME NEW d \in Dispatchers, CALL_ONREQUEST(d) PROVE TypeOK'
  <2>1. cur[d] \in Tokens /\ job[d] \in Serials /\ d \in Threads
    BY <1>0, <1>4 DEF CALL_ONREQUEST, TypeOK, HeldInv, Busy, Owning, AckPlaces
  <2>2. /\ pc' \in [Threads -> Places] /\ cur' \in [Threads -> Tokens \cup {NoToken}]
        /\ job' \in [Threads -> Serials \cup {NoResult}]
    BY <1>0, <1>4, <2>1, StepTypes, ReturnTypes DEF CALL_ONREQUEST, Places
  <2>3. vendor' \subseteq [token : Tokens, serial : Serials, acked : BOOLEAN]
    <3>1. vendor' = vendor \/ vendor' = vendor \cup {[token |-> cur[d], serial |-> job[d], acked |-> FALSE]}
      BY <1>4 DEF CALL_ONREQUEST
    <3>2. [token |-> cur[d], serial |-> job[d], acked |-> FALSE] \in [token : Tokens, serial : Serials, acked : BOOLEAN]
      BY <2>1
    <3>3. QED
      BY <1>0, <3>1, <3>2 DEF TypeOK
  <2>4. UNCHANGED <<v13, refused, accepted, req, pending, activated, crossed, clientVars>>
    BY <1>4 DEF CALL_ONREQUEST
  <2>5. QED
    BY <1>0, <2>2, <2>3, <2>4 DEF TypeOK
<1>5. ASSUME NEW d \in Dispatchers, CompleteManual(d) PROVE TypeOK'
  BY <1>0, <1>5, StepTypes, ReturnTypes DEF CompleteManual, TypeOK, Places, HeldInv, VendorInv, Busy, Owning, AckPlaces, Dequeue
<1>6. ASSUME NEW v \in Vendors, NEW i \in vendor, RIL_onRequestAck(v, i) PROVE TypeOK'
  <2>1. i \in Items /\ v \in Threads
    BY <1>0 DEF TypeOK, Items
  <2>2. [i EXCEPT !.acked = TRUE] \in Items /\ i.token \in Tokens /\ i.serial \in Serials
    BY <2>1, FieldTypes DEF Items
  <2>3. QED
    BY <1>0, <1>6, <2>1, <2>2, StepTypes DEF RIL_onRequestAck, TypeOK, Places, Items
<1>16. ASSUME NEW v \in Vendors, checkRequestInfoIfAck(v) PROVE TypeOK'
  <2>1. cur[v] \in Tokens /\ job[v] \in Serials \cup {NoResult} /\ v \in Threads
    BY <1>0, <1>16 DEF checkRequestInfoIfAck, TypeOK, HeldInv, Busy, AckPlaces
  <2>2. [req[cur[v]] EXCEPT !.ackSent = TRUE] \in Blocks
    <3>1. req[cur[v]] \in Blocks
      BY <1>0, <2>1 DEF TypeOK, Blocks
    <3>2. QED
      BY <3>1, FieldTypes
  <2>3. req' = req \/ req' = [req EXCEPT ![cur[v]] = [req[cur[v]] EXCEPT !.ackSent = TRUE]]
    BY <1>16 DEF checkRequestInfoIfAck
  <2>4. /\ pc' \in [Threads -> Places] /\ cur' \in [Threads -> Tokens \cup {NoToken}]
        /\ job' \in [Threads -> Serials \cup {NoResult}]
    BY <1>0, <1>16, <2>1, StepTypes, ReturnTypes DEF checkRequestInfoIfAck, Places
  <2>5. req' \in [Tokens -> [live : BOOLEAN, serial : Serials, ackSent : BOOLEAN]]
    BY <1>0, <2>2, <2>3 DEF TypeOK, Blocks
  <2>6. UNCHANGED <<v13, refused, accepted, pending, vendor, activated, crossed, clientVars>>
    BY <1>16 DEF checkRequestInfoIfAck
  <2>7. QED
    BY <1>0, <2>4, <2>5, <2>6 DEF TypeOK
<1>7. ASSUME NEW v \in Vendors, NEW i \in vendor, RIL_onRequestComplete(v, i) PROVE TypeOK'
  BY <1>0, <1>7, StepTypes, ReturnTypes DEF RIL_onRequestComplete, TypeOK, Places, HeldInv, VendorInv, Busy, Owning, AckPlaces, Dequeue
<1>8. ASSUME NEW v \in Vendors, acknowledgeRequest(v) PROVE TypeOK'
  BY <1>0, <1>8, ReturnTypes DEF acknowledgeRequest, TypeOK
<1>9. ASSUME NEW t \in Threads, CardSeen(t) PROVE TypeOK'
  BY <1>0, <1>9, StepTypes, ReturnTypes DEF CardSeen, TypeOK, Places, HeldInv, VendorInv, Busy, Owning, AckPlaces
<1>10. ASSUME NEW t \in Threads, NEW a \in Activators, StartSubActivate(t, a) PROVE TypeOK'
  BY <1>0, <1>10, StepTypes, ReturnTypes DEF StartSubActivate, TypeOK, Places, HeldInv, VendorInv, Busy, Owning, AckPlaces
<1>11. ASSUME NEW t \in Threads, SubActivateFails(t) PROVE TypeOK'
  BY <1>0, <1>11, StepTypes, ReturnTypes DEF SubActivateFails, TypeOK, Places, HeldInv, VendorInv, Busy, Owning, AckPlaces
<1>12. ASSUME NEW t \in Threads, responseFunction(t) PROVE TypeOK'
  BY <1>0, <1>12, StepTypes, ReturnTypes DEF responseFunction, TypeOK, Places, HeldInv, VendorInv, Busy, Owning, AckPlaces
<1>13. ASSUME NEW t \in Threads, FreeRequest(t) PROVE TypeOK'
  <2>1. cur[t] \in Tokens
    BY <1>0, <1>13 DEF FreeRequest, TypeOK, HeldInv, Busy, Owning, AckPlaces
  <2>2. req' = [req EXCEPT ![cur[t]] = [req[cur[t]] EXCEPT !.live = FALSE]]
    BY <1>13 DEF FreeRequest
  <2>3. [req[cur[t]] EXCEPT !.live = FALSE] \in Blocks
    <3>1. req[cur[t]] \in Blocks
      BY <1>0, <2>1 DEF TypeOK, Blocks
    <3>2. QED
      BY <3>1, FieldTypes
  <2>4. Return(t) /\ UNCHANGED <<v13, refused, accepted, pending, vendor, activated, crossed, clientVars>>
    BY <1>13 DEF FreeRequest
  <2>5. req' \in [Tokens -> [live : BOOLEAN, serial : Serials, ackSent : BOOLEAN]]
    BY <1>0, <2>2, <2>3 DEF TypeOK, Blocks
  <2>6. QED
    BY <1>0, <2>4, <2>5, ReturnTypes DEF TypeOK
<1>14. CASE UNCHANGED vars
  BY <1>0, <1>14 DEF vars, TypeOK
<1>15. QED
  BY <1>1, <1>2, <1>3, <1>4, <1>5, <1>6, <1>7, <1>8, <1>9, <1>10, <1>11, <1>12,
     <1>13, <1>14, <1>16, Zenon
  DEF Next, NewRequest, DispatchStep, AckStep, VendorCall, CompletionStep, Quiet

-----------------------------------------------------------------------------
(***************************************************************************)
(* Every step of the model keeps the blocks where they belong.             *)
(***************************************************************************)
LEMMA OwnerStep ==
  ASSUME IInv, TypeOK', [Next]_vars
  PROVE  HeldInv' /\ VendorInv' /\ OwnerInv' /\ FreedInv' /\ NoLostRequest'
<1> DEFINE Goal == HeldInv /\ VendorInv /\ OwnerInv /\ FreedInv /\ NoLostRequest
<1> USE Shape DEF Threads, Dispatchers, Serials, clientVars, Busy, Owning, AckPlaces
<1>0. TypeOK /\ HeldInv /\ VendorInv /\ OwnerInv /\ FreedInv /\ NoLostRequest
  BY DEF IInv
<1>1. ASSUME NEW d \in Dispatchers, NEW s \in Serials, NEW k \in Tokens, addRequestToList(d, s, k) PROVE Goal'
  <2>1. HeldInv'
    BY <1>0, <1>1, ThreadMoves, ThreadReturns DEF addRequestToList, HeldInv, TypeOK, VendorInv, OwnerInv
  <2>2. VendorInv'
    BY <1>0, <1>1, ThreadMoves, ThreadReturns DEF addRequestToList, VendorInv, TypeOK, HeldInv, OwnerInv
  <2>3. OwnerInv'
    BY <1>0, <1>1, ThreadMoves, ThreadReturns DEF addRequestToList, OwnerInv, TypeOK, HeldInv, VendorInv
  <2>4. FreedInv'
    BY <1>0, <1>1, ThreadMoves, ThreadReturns DEF addRequestToList, FreedInv, TypeOK, HeldInv, VendorInv, OwnerInv
  <2>5. NoLostRequest'
    <3> SUFFICES ASSUME NEW r \in accepted', answers'[r] = 0 PROVE Found(r)'
      BY DEF Found, NoLostRequest
    <3>1. Step(d, "dispatch", k, s) /\ accepted' = accepted \cup {s} /\ answers' = answers
      BY <1>1 DEF addRequestToList
    <3>2. pc[d] = "idle" /\ ~req[k].live /\ vendor' = vendor /\ pending' = pending \cup {k}
      BY <1>1 DEF addRequestToList, Issues
    <3>3. \A c \in Tokens : c # k => req'[c] = req[c]
      BY <1>0, <1>1 DEF addRequestToList, TypeOK
    <3>4. /\ d \in Threads /\ job'[d] = s /\ pc'[d] = "dispatch"
          /\ \A t \in Threads : t # d => job'[t] = job[t] /\ pc'[t] = pc[t]
      BY <1>0, <3>1, ThreadMoves
    <3>5. CASE r = s
      BY <3>4, <3>5 DEF Found
    <3>6. CASE r # s
      <4>1. r \in accepted /\ Found(r)
        BY <1>0, <3>1, <3>6 DEF NoLostRequest, Found
      <4>2. job[d] = NoResult /\ r # NoResult
        BY <1>0, <3>2, <3>4, <4>1 DEF HeldInv, TypeOK
      <4>3. CASE \E t \in Threads : job[t] = r /\ pc[t] \notin AckPlaces
        BY <3>4, <4>2, <4>3 DEF Found
      <4>4. ASSUME NEW i \in vendor, i.serial = r, i.token \in pending, req[i.token].serial = r
            PROVE  Found(r)'
        BY <1>0, <3>2, <3>3, <4>4 DEF Found, HeldInv, TypeOK
      <4>5. QED
        BY <4>1, <4>3, <4>4 DEF Found
    <3>7. QED
      BY <3>5, <3>6
  <2>6. QED
    BY <2>1, <2>2, <2>3, <2>4, <2>5
<1>2. ASSUME NEW d \in Dispatchers, NEW s \in Serials, RequestRefused(d, s) PROVE Goal'
  <2>1. HeldInv'
    BY <1>0, <1>2, ThreadMoves, ThreadReturns DEF RequestRefused, HeldInv, TypeOK, VendorInv, OwnerInv
  <2>2. VendorInv'
    BY <1>0, <1>2, ThreadMoves, ThreadReturns DEF RequestRefused, VendorInv, TypeOK, HeldInv, OwnerInv
  <2>3. OwnerInv'
    BY <1>0, <1>2, ThreadMoves, ThreadReturns DEF RequestRefused, OwnerInv, TypeOK, HeldInv, VendorInv
  <2>4. FreedInv'
    BY <1>0, <1>2, ThreadMoves, ThreadReturns DEF RequestRefused, FreedInv, TypeOK, HeldInv, VendorInv, OwnerInv
  <2>5. NoLostRequest'
    <3> SUFFICES ASSUME NEW r \in accepted', answers'[r] = 0 PROVE Found(r)'
      BY DEF Found, NoLostRequest
    <3>1. /\ Return(d) /\ pc[d] = "idle"
          /\ UNCHANGED <<accepted, answers, vendor, pending, req>>
      BY <1>2 DEF RequestRefused, Issues
    <3>2. Found(r) /\ d \in Threads /\ job[d] = NoResult /\ r # NoResult
      BY <1>0, <3>1 DEF NoLostRequest, Found, HeldInv, TypeOK
    <3>3. \A t \in Threads : t # d => job'[t] = job[t] /\ pc'[t] = pc[t]
      BY <1>0, <3>1, <3>2, ThreadReturns
    <3>4. QED
      BY <3>1, <3>2, <3>3 DEF Found
  <2>6. QED
    BY <2>1, <2>2, <2>3, <2>4, <2>5
<1>3. ASSUME NEW d \in Dispatchers, sendErrorResponse(d) PROVE Goal'
  <2>1. HeldInv'
    BY <1>0, <1>3, ThreadMoves, ThreadReturns DEF sendErrorResponse, HeldInv, TypeOK, VendorInv, OwnerInv
  <2>2. VendorInv'
    BY <1>0, <1>3, ThreadMoves, ThreadReturns DEF sendErrorResponse, VendorInv, TypeOK, HeldInv, OwnerInv
  <2>3. OwnerInv'
    BY <1>0, <1>3, ThreadMoves, ThreadReturns DEF sendErrorResponse, OwnerInv, TypeOK, HeldInv, VendorInv
  <2>4. FreedInv'
    BY <1>0, <1>3, ThreadMoves, ThreadReturns DEF sendErrorResponse, FreedInv, TypeOK, HeldInv, VendorInv, OwnerInv
  <2>5. NoLostRequest'
    BY <1>0, <1>3, ThreadMoves, ThreadReturns DEF sendErrorResponse, NoLostRequest, TypeOK, HeldInv, VendorInv, OwnerInv
  <2>6. QED
    BY <2>1, <2>2, <2>3, <2>4, <2>5
<1>4. ASSUME NEW d \in Dispatchers, CALL_ONREQUEST(d) PROVE Goal'
  <2>1. HeldInv'
    BY <1>0, <1>4, ThreadMoves, ThreadReturns DEF CALL_ONREQUEST, HeldInv, TypeOK, VendorInv, OwnerInv
  <2>2. VendorInv'
    BY <1>0, <1>4, ThreadMoves, ThreadReturns DEF CALL_ONREQUEST, VendorInv, TypeOK, HeldInv, OwnerInv
  <2>3. OwnerInv'
    BY <1>0, <1>4, ThreadMoves, ThreadReturns DEF CALL_ONREQUEST, OwnerInv, TypeOK, HeldInv, VendorInv
  <2>4. FreedInv'
    BY <1>0, <1>4, ThreadMoves, ThreadReturns DEF CALL_ONREQUEST, FreedInv, TypeOK, HeldInv, VendorInv, OwnerInv
  <2>5. NoLostRequest'
    <3> SUFFICES ASSUME NEW r \in accepted', answers'[r] = 0 PROVE Found(r)'
      BY DEF Found, NoLostRequest
    <3>1. UNCHANGED <<accepted, answers, pending, req>> /\ vendor \subseteq vendor' /\ d \in Threads
      BY <1>4 DEF CALL_ONREQUEST
    <3>2. Found(r)
      BY <1>0, <3>1 DEF NoLostRequest, Found
    <3>3. \A t \in Threads : t # d => job'[t] = job[t] /\ pc'[t] = pc[t]
      BY <1>0, <1>4, <3>1, ThreadMoves, ThreadReturns DEF CALL_ONREQUEST
    <3>4. CASE job[d] # r
      BY <3>1, <3>2, <3>3, <3>4 DEF Found
    <3>5. CASE job[d] = r
      <4>1. cur[d] \in pending /\ req[cur[d]].serial = r
        BY <1>0, <1>4, <3>1, <3>5 DEF CALL_ONREQUEST, HeldInv
      <4>2. CASE r \in Manual
        BY <1>0, <1>4, <3>1, <3>5, <4>2, ThreadMoves DEF CALL_ONREQUEST, Found
      <4>3. CASE r \notin Manual
        <5>1. [token |-> cur[d], serial |-> r, acked |-> FALSE] \in vendor'
          BY <1>4, <3>5, <4>3 DEF CALL_ONREQUEST
        <5>2. QED
          BY <3>1, <4>1, <5>1 DEF Found
      <4>4. QED
        BY <4>2, <4>3
    <3>6. QED
      BY <3>4, <3>5
  <2>6. QED
    BY <2>1, <2>2, <2>3, <2>4, <2>5
<1>5. ASSUME NEW d \in Dispatchers, CompleteManual(d) PROVE Goal'
  <2>1. HeldInv'
    BY <1>0, <1>5, ThreadMoves, ThreadReturns DEF CompleteManual, HeldInv, TypeOK, Dequeue, VendorInv, OwnerInv
  <2>2. VendorInv'
    BY <1>0, <1>5, ThreadMoves, ThreadReturns DEF CompleteManual, VendorInv, TypeOK, Dequeue, HeldInv, OwnerInv
  <2>3. OwnerInv'
    BY <1>0, <1>5, ThreadMoves, ThreadReturns DEF CompleteManual, OwnerInv, TypeOK, Dequeue, HeldInv, VendorInv
  <2>4. FreedInv'
    BY <1>0, <1>5, ThreadMoves, ThreadReturns DEF CompleteManual, FreedInv, TypeOK, Dequeue, HeldInv, VendorInv, OwnerInv
  <2>5. NoLostRequest'
    BY <1>0, <1>5, ThreadMoves, ThreadReturns DEF CompleteManual, NoLostRequest, TypeOK, Dequeue, HeldInv, VendorInv, OwnerInv
  <2>6. QED
    BY <2>1, <2>2, <2>3, <2>4, <2>5
<1>6. ASSUME NEW v \in Vendors, NEW i \in vendor, RIL_onRequestAck(v, i) PROVE Goal'
  <2> DEFINE j == [i EXCEPT !.acked = TRUE]
  <2>1. j.token = i.token /\ j.serial = i.serial /\ i.token \in Tokens /\ v \in Threads
    BY <1>0 DEF TypeOK
  <2>2. /\ pc[v] = "idle" /\ vendor' = (vendor \ {i}) \cup {j} /\ Step(v, "ack", i.token, i.serial)
        /\ UNCHANGED <<accepted, req, pending, answers>>
    BY <1>6 DEF RIL_onRequestAck
  <2> HIDE DEF j
  <2>3. \A t \in Threads :
          /\ t # v => pc'[t] = pc[t] /\ cur'[t] = cur[t] /\ job'[t] = job[t]
          /\ t = v => pc'[t] = "ack" /\ cur'[t] = i.token /\ job'[t] = i.serial
    BY <1>0, <2>1, <2>2, ThreadMoves
  <2>4. HeldInv'
    BY <1>0, <2>1, <2>2, <2>3 DEF HeldInv, TypeOK
  <2>5. VendorInv'
    BY <1>0, <2>1, <2>2 DEF VendorInv
  <2>6. OwnerInv'
    BY <1>0, <2>1, <2>2, <2>3 DEF OwnerInv
  <2>7. FreedInv'
    BY <1>0, <2>2, <2>3 DEF FreedInv
  <2>8. NoLostRequest'
    <3> SUFFICES ASSUME NEW r \in accepted', answers'[r] = 0 PROVE Found(r)'
      BY DEF Found, NoLostRequest
    <3>1. Found(r) /\ job[v] = NoResult /\ r # NoResult
      BY <1>0, <2>1, <2>2 DEF NoLostRequest, Found, HeldInv, TypeOK
    <3>2. CASE \E t \in Threads : job[t] = r /\ pc[t] \notin AckPlaces
      BY <2>3, <3>1, <3>2 DEF Found
    <3>3. ASSUME NEW h \in vendor, h.serial = r, h.token \in pending, req[h.token].serial = r
          PROVE  Found(r)'
      <4>1. \E g \in vendor' : g.serial = h.serial /\ g.token = h.token
        BY <2>1, <2>2
      <4>2. QED
        BY <2>2, <3>3, <4>1 DEF Found
    <3>4. QED
      BY <3>1, <3>2, <3>3 DEF Found
  <2>9. QED
    BY <2>4, <2>5, <2>6, <2>7, <2>8
<1>16. ASSUME NEW v \in Vendors, checkRequestInfoIfAck(v) PROVE Goal'
  <2>1. /\ pc[v] = "ack" /\ v \in Threads /\ UNCHANGED <<accepted, pending, vendor, answers>>
        /\ \/ Step(v, "acknowledge", cur[v], job[v]) /\ req' = [req EXCEPT ![cur[v]].ackSent = TRUE]
           \/ Return(v) /\ req' = req
    BY <1>16 DEF checkRequestInfoIfAck
  <2>2. \A t \in Threads :
          /\ t # v => pc'[t] = pc[t] /\ cur'[t] = cur[t] /\ job'[t] = job[t]
          /\ t = v => \/ pc'[t] = "acknowledge" /\ cur'[t] = cur[t] /\ job'[t] = job[t]
                      \/ pc'[t] \in {"idle", "done"} /\ cur'[t] = NoToken /\ job'[t] = NoResult
    BY <1>0, <2>1, ThreadMoves, ThreadReturns
  <2>3. cur[v] \in Tokens
    BY <1>0, <2>1 DEF HeldInv, TypeOK
  <2>4. \A c \in Tokens : req'[c].live = req[c].live /\ req'[c].serial = req[c].serial
    BY <1>0, <2>1, <2>3 DEF TypeOK
  <2>5. HeldInv'
    BY <1>0, <2>1, <2>2, <2>4 DEF HeldInv, TypeOK
  <2>6. VendorInv'
    BY <1>0, <2>1, <2>4 DEF VendorInv, TypeOK
  <2>7. OwnerInv'
    BY <1>0, <2>1, <2>2 DEF OwnerInv
  <2>8. FreedInv'
    BY <1>0, <2>1, <2>2 DEF FreedInv
  <2>9. NoLostRequest'
    <3> SUFFICES ASSUME NEW r \in accepted', answers'[r] = 0 PROVE Found(r)'
      BY DEF Found, NoLostRequest
    <3>1. Found(r)
      BY <1>0, <2>1 DEF NoLostRequest, Found
    <3>2. QED
      BY <1>0, <2>1, <2>2, <2>4, <3>1 DEF Found, TypeOK
  <2>10. QED
    BY <2>5, <2>6, <2>7, <2>8, <2>9
<1>7. ASSUME NEW v \in Vendors, NEW i \in vendor, RIL_onRequestComplete(v, i) PROVE Goal'
  <2>1. HeldInv'
    BY <1>0, <1>7, ThreadMoves, ThreadReturns DEF RIL_onRequestComplete, HeldInv, TypeOK, Dequeue, VendorInv, OwnerInv
  <2>2. VendorInv'
    BY <1>0, <1>7, ThreadMoves, ThreadReturns DEF RIL_onRequestComplete, VendorInv, TypeOK, Dequeue, HeldInv, OwnerInv
  <2>3. OwnerInv'
    BY <1>0, <1>7, ThreadMoves, ThreadReturns DEF RIL_onRequestComplete, OwnerInv, TypeOK, Dequeue, HeldInv, VendorInv
  <2>4. FreedInv'
    BY <1>0, <1>7, ThreadMoves, ThreadReturns DEF RIL_onRequestComplete, FreedInv, TypeOK, Dequeue, HeldInv, VendorInv, OwnerInv
  <2>5. NoLostRequest'
    <3> SUFFICES ASSUME NEW r \in accepted', answers'[r] = 0 PROVE Found(r)'
      BY DEF Found, NoLostRequest
    <3>1. v \in Threads /\ i.token \in pending /\ pc[v] = "idle"
      BY <1>0, <1>7 DEF VendorInv, RIL_onRequestComplete
    <3>2. /\ vendor' = vendor \ {i} /\ pending' = pending \ {i.token}
          /\ UNCHANGED <<accepted, answers, req>>
      BY <1>7, <3>1 DEF RIL_onRequestComplete, Dequeue
    <3>3. Found(r) /\ job[v] = NoResult /\ r # NoResult
      BY <1>0, <3>1, <3>2 DEF NoLostRequest, Found, HeldInv, TypeOK
    <3>4. /\ job'[v] = i.serial /\ pc'[v] \in {"card", "respond"}
          /\ \A t \in Threads : t # v => job'[t] = job[t] /\ pc'[t] = pc[t]
      BY <1>0, <1>7, <3>1, ThreadMoves DEF RIL_onRequestComplete, Dequeue
    <3>5. CASE \E t \in Threads : job[t] = r /\ pc[t] \notin AckPlaces
      BY <3>3, <3>4, <3>5 DEF Found
    <3>6. ASSUME NEW j \in vendor, j.serial = r, j.token \in pending, req[j.token].serial = r
          PROVE  Found(r)'
      <4>1. CASE j = i
        BY <3>1, <3>4, <3>6, <4>1 DEF Found
      <4>2. CASE j # i
        <5>1. j.token # i.token
          BY <1>0, <4>2 DEF OwnerInv
        <5>2. QED
          BY <3>2, <3>6, <4>2, <5>1 DEF Found
      <4>3. QED
        BY <4>1, <4>2
    <3>7. QED
      BY <3>3, <3>5, <3>6 DEF Found
  <2>6. QED
    BY <2>1, <2>2, <2>3, <2>4, <2>5
<1>8. ASSUME NEW v \in Vendors, acknowledgeRequest(v) PROVE Goal'
  <2>1. /\ pc[v] = "acknowledge" /\ v \in Threads /\ Return(v)
        /\ UNCHANGED <<accepted, pending, req, vendor, answers>>
    BY <1>8 DEF acknowledgeRequest
  <2>2. \A t \in Threads :
          /\ t # v => pc'[t] = pc[t] /\ cur'[t] = cur[t] /\ job'[t] = job[t]
          /\ t = v => pc'[t] \in {"idle", "done"} /\ cur'[t] = NoToken /\ job'[t] = NoResult
    BY <1>0, <2>1, ThreadReturns
  <2>3. HeldInv' /\ VendorInv' /\ OwnerInv' /\ FreedInv'
    BY <1>0, <2>1, <2>2 DEF HeldInv, VendorInv, OwnerInv, FreedInv
  <2>4. NoLostRequest'
    <3> SUFFICES ASSUME NEW r \in accepted', answers'[r] = 0 PROVE Found(r)'
      BY DEF Found, NoLostRequest
    <3>1. Found(r)
      BY <1>0, <2>1 DEF NoLostRequest, Found
    <3>2. QED
      BY <2>1, <2>2, <3>1 DEF Found
  <2>5. QED
    BY <2>3, <2>4
<1>9. ASSUME NEW t \in Threads, CardSeen(t) PROVE Goal'
  <2>1. HeldInv'
    BY <1>0, <1>9, ThreadMoves, ThreadReturns, SMTT(30) DEF CardSeen, HeldInv, TypeOK, VendorInv, OwnerInv
  <2>2. VendorInv'
    BY <1>0, <1>9, ThreadMoves, ThreadReturns DEF CardSeen, VendorInv, TypeOK, HeldInv, OwnerInv
  <2>3. OwnerInv'
    BY <1>0, <1>9, ThreadMoves, ThreadReturns DEF CardSeen, OwnerInv, TypeOK, HeldInv, VendorInv
  <2>4. FreedInv'
    BY <1>0, <1>9, ThreadMoves, ThreadReturns DEF CardSeen, FreedInv, TypeOK, HeldInv, VendorInv, OwnerInv
  <2>5. NoLostRequest'
    BY <1>0, <1>9, ThreadMoves, ThreadReturns DEF CardSeen, NoLostRequest, TypeOK, HeldInv, VendorInv, OwnerInv
  <2>6. QED
    BY <2>1, <2>2, <2>3, <2>4, <2>5
<1>10. ASSUME NEW t \in Threads, NEW a \in Activators, StartSubActivate(t, a) PROVE Goal'
  <2>1. HeldInv'
    BY <1>0, <1>10, ThreadMoves, ThreadReturns DEF StartSubActivate, HeldInv, TypeOK, VendorInv, OwnerInv
  <2>2. VendorInv'
    BY <1>0, <1>10, ThreadMoves, ThreadReturns DEF StartSubActivate, VendorInv, TypeOK, HeldInv, OwnerInv
  <2>3. OwnerInv'
    BY <1>0, <1>10, ThreadMoves, ThreadReturns DEF StartSubActivate, OwnerInv, TypeOK, HeldInv, VendorInv
  <2>4. FreedInv'
    BY <1>0, <1>10, ThreadMoves, ThreadReturns DEF StartSubActivate, FreedInv, TypeOK, HeldInv, VendorInv, OwnerInv
  <2>5. NoLostRequest'
    BY <1>0, <1>10, ThreadMoves, ThreadReturns DEF StartSubActivate, NoLostRequest, TypeOK, HeldInv, VendorInv, OwnerInv
  <2>6. QED
    BY <2>1, <2>2, <2>3, <2>4, <2>5
<1>11. ASSUME NEW t \in Threads, SubActivateFails(t) PROVE Goal'
  <2>1. HeldInv'
    BY <1>0, <1>11, ThreadMoves, ThreadReturns DEF SubActivateFails, HeldInv, TypeOK, VendorInv, OwnerInv
  <2>2. VendorInv'
    BY <1>0, <1>11, ThreadMoves, ThreadReturns DEF SubActivateFails, VendorInv, TypeOK, HeldInv, OwnerInv
  <2>3. OwnerInv'
    BY <1>0, <1>11, ThreadMoves, ThreadReturns DEF SubActivateFails, OwnerInv, TypeOK, HeldInv, VendorInv
  <2>4. FreedInv'
    BY <1>0, <1>11, ThreadMoves, ThreadReturns DEF SubActivateFails, FreedInv, TypeOK, HeldInv, VendorInv, OwnerInv
  <2>5. NoLostRequest'
    BY <1>0, <1>11, ThreadMoves, ThreadReturns DEF SubActivateFails, NoLostRequest, TypeOK, HeldInv, VendorInv, OwnerInv
  <2>6. QED
    BY <2>1, <2>2, <2>3, <2>4, <2>5
<1>12. ASSUME NEW t \in Threads, responseFunction(t) PROVE Goal'
  <2>1. HeldInv'
    BY <1>0, <1>12, ThreadMoves, ThreadReturns DEF responseFunction, HeldInv, TypeOK, VendorInv, OwnerInv
  <2>2. VendorInv'
    BY <1>0, <1>12, ThreadMoves, ThreadReturns DEF responseFunction, VendorInv, TypeOK, HeldInv, OwnerInv
  <2>3. OwnerInv'
    BY <1>0, <1>12, ThreadMoves, ThreadReturns DEF responseFunction, OwnerInv, TypeOK, HeldInv, VendorInv
  <2>4. FreedInv'
    BY <1>0, <1>12, ThreadMoves, ThreadReturns DEF responseFunction, FreedInv, TypeOK, HeldInv, VendorInv, OwnerInv
  <2>5. NoLostRequest'
    BY <1>0, <1>12, ThreadMoves, ThreadReturns DEF responseFunction, NoLostRequest, TypeOK, HeldInv, VendorInv, OwnerInv
  <2>6. QED
    BY <2>1, <2>2, <2>3, <2>4, <2>5
<1>13. ASSUME NEW t \in Threads, FreeRequest(t) PROVE Goal'
  <2>1. HeldInv'
    BY <1>0, <1>13, ThreadMoves, ThreadReturns DEF FreeRequest, HeldInv, TypeOK, VendorInv, OwnerInv
  <2>2. VendorInv'
    BY <1>0, <1>13, ThreadMoves, ThreadReturns DEF FreeRequest, VendorInv, TypeOK, HeldInv, OwnerInv
  <2>3. OwnerInv'
    BY <1>0, <1>13, ThreadMoves, ThreadReturns DEF FreeRequest, OwnerInv, TypeOK, HeldInv, VendorInv
  <2>4. FreedInv'
    BY <1>0, <1>13, ThreadMoves, ThreadReturns DEF FreeRequest, FreedInv, TypeOK, HeldInv, VendorInv, OwnerInv
  <2>5. NoLostRequest'
    <3> SUFFICES ASSUME NEW r \in accepted', answers'[r] = 0 PROVE Found(r)'
      BY DEF Found, NoLostRequest
    <3>1. pc[t] = "free" /\ Return(t) /\ UNCHANGED <<accepted, answers, vendor, pending>>
      BY <1>13 DEF FreeRequest
    <3>2. Found(r) /\ job[t] # r
      BY <1>0, <3>1 DEF NoLostRequest, Found, FreedInv
    <3>3. \A u \in Threads : u # t => job'[u] = job[u] /\ pc'[u] = pc[u]
      BY <1>0, <3>1, ThreadReturns
    <3>4. \A c \in Tokens : req'[c].serial = req[c].serial
      BY <1>0, <1>13 DEF FreeRequest, TypeOK
    <3>5. QED
      BY <1>0, <3>1, <3>2, <3>3, <3>4 DEF Found, TypeOK
  <2>6. QED
    BY <2>1, <2>2, <2>3, <2>4, <2>5
<1>14. CASE UNCHANGED vars
  BY <1>0, <1>14 DEF vars, HeldInv, VendorInv, OwnerInv, FreedInv, NoLostRequest
<1>15. QED
  BY <1>1, <1>2, <1>3, <1>4, <1>5, <1>6, <1>7, <1>8, <1>9, <1>10, <1>11, <1>12,
     <1>13, <1>14, <1>16, Zenon
  DEF Next, NewRequest, DispatchStep, AckStep, VendorCall, CompletionStep, Quiet

-----------------------------------------------------------------------------
LEMMA InitOwned == ASSUME Init PROVE IInv
<1>1. TypeOK
  BY Shape DEF Init, TypeOK, Places, Serials
<1>2. HeldInv
  BY Shape DEF Init, HeldInv, Busy, Owning, AckPlaces
<1>3. VendorInv /\ OwnerInv /\ FreedInv /\ NoLostRequest
  BY DEF Init, VendorInv, OwnerInv, FreedInv, NoLostRequest, Owning
<1>4. QED
  BY <1>1, <1>2, <1>3 DEF IInv

LEMMA NextOwned == ASSUME IInv, [Next]_vars PROVE IInv'
<1>1. TypeOK'
  BY TypeStep
<1>2. QED
  BY <1>1, OwnerStep DEF IInv

(***************************************************************************)
(* A pointer outside the list's mutex always names its own live request,   *)
(* for any numbers of threads, requests and blocks (addRequestToList,      *)
(* checkAndDequeueRequestInfoIfAck, RIL_onRequestComplete and the free at  *)
(* its end); RIL_onRequestAck's does as long as the vendor still has the   *)
(* request to complete.                                                    *)
(***************************************************************************)
THEOREM PointersNameRequests == Spec => []PointerNamesRequest
<1>1. IInv => PointerNamesRequest
  <2> SUFFICES ASSUME IInv PROVE PointerNamesRequest
    OBVIOUS
  <2>1. \A t \in Threads : cur[t] # NoToken => pc[t] \in Owning \/ pc[t] \in AckPlaces
    BY DEF IInv, HeldInv, Busy
  <2>2. \A t \in Threads, i \in vendor : i.token = cur[t] /\ i.serial = job[t] =>
          req[cur[t]].live /\ req[cur[t]].serial = job[t]
    BY DEF IInv, HeldInv, VendorInv
  <2>3. QED
    BY <2>1, <2>2 DEF IInv, HeldInv, PointerNamesRequest
<1>2. QED
  BY InitOwned, NextOwned, <1>1, PTL DEF Spec

(***************************************************************************)
(* No accepted request drops out of every thread's hands and the vendor's  *)
(* before its answer (the dispatch functions and RIL_onRequestComplete).   *)
(***************************************************************************)
THEOREM NothingLost == Spec => []NoLostRequest
<1>1. IInv => NoLostRequest
  BY DEF IInv
<1>2. QED
  BY InitOwned, NextOwned, <1>1, PTL DEF Spec

-----------------------------------------------------------------------------
(***************************************************************************)
(* The contract.  A request has one block at most, and what was sent for   *)
(* it is what its block and its owner say.                                 *)
(***************************************************************************)
OneActivator == \A a, b \in Activators : a = b

BlockInv ==
  /\ \A k, l \in Tokens : req[k].live /\ req[l].live /\ req[k].serial = req[l].serial => k = l
  /\ \A k \in Tokens : req[k].live => req[k].serial \in accepted
  /\ \A a \in Activators : pc[a] \in {"none", "idle"} => SelfSerial \notin accepted \cup refused

SentInv ==
  /\ \A s \in Serials : answers[s] \in {0, 1}
  /\ \A s \in Serials \ accepted : answers[s] = 0
  /\ \A t \in Threads : pc[t] \in Owning \ {"free"} => answers[job[t]] = 0
  /\ \A i \in vendor : answers[i.serial] = 0

\* As long as no completion crossed an acknowledgement: a thread in
\* RIL_onRequestAck has what the vendor still has, and was sent what the block
\* says.
CallInv ==
  /\ \A t \in Threads : pc[t] \in AckPlaces =>
       /\ t \in Vendors
       /\ \E h \in vendor : h.token = cur[t] /\ h.serial = job[t] /\ h.acked
  /\ \A t, u \in Threads : pc[t] \in AckPlaces /\ pc[u] \in AckPlaces /\ cur[t] = cur[u] => t = u

AckInv ==
  /\ \A s \in Serials : acks[s] \in {0, 1}
  /\ \A s \in Serials \ accepted : acks[s] = 0
  /\ \A t \in Threads : pc[t] \in {"dispatch", "fake"} => acks[job[t]] = 0 /\ ~req[cur[t]].ackSent
  /\ \A t \in Threads : pc[t] \in AckPlaces => acks[job[t]] = 0
  /\ \A t \in Threads : pc[t] = "acknowledge" => req[cur[t]].ackSent
  /\ \A t \in Threads : pc[t] \in {"card", "activate", "respond"} =>
       (req[cur[t]].ackSent <=> acks[job[t]] = 1)
  /\ \A i \in vendor :
       /\ ~i.acked => acks[i.serial] = 0 /\ ~req[i.token].ackSent
       /\ i.acked => BeingAcked(i) \/ (acks[i.serial] = 1 /\ req[i.token].ackSent)

SentStepInv == IInv /\ BlockInv /\ SentInv /\ (crossed \/ (CallInv /\ AckInv))

LEMMA SentStep ==
  ASSUME SentStepInv, IInv', OneActivator, [Next]_vars
  PROVE  BlockInv' /\ SentInv' /\ (crossed' \/ (CallInv' /\ AckInv'))
<1> DEFINE Goal == BlockInv /\ SentInv /\ (crossed \/ (CallInv /\ AckInv))
<1> USE Shape DEF Threads, Dispatchers, Serials, clientVars, Busy, Owning, AckPlaces
<1>0. /\ TypeOK /\ HeldInv /\ VendorInv /\ OwnerInv /\ BlockInv /\ SentInv
      /\ crossed \/ (CallInv /\ AckInv)
  BY DEF IInv, SentStepInv
<1>a. TypeOK' /\ HeldInv' /\ VendorInv' /\ OwnerInv'
  BY DEF IInv
<1>1. ASSUME NEW d \in Dispatchers, NEW s \in Serials, NEW k \in Tokens, addRequestToList(d, s, k) PROVE Goal'
  <2>1. BlockInv'
    BY <1>0, <1>1, ThreadMoves, ThreadReturns, OneActivator DEF addRequestToList, BlockInv, TypeOK, HeldInv, VendorInv, OwnerInv, Issues, OneActivator, Return
  <2>2. SentInv'
    BY <1>0, <1>1, ThreadMoves, ThreadReturns, OneActivator DEF addRequestToList, SentInv, TypeOK, HeldInv, VendorInv, OwnerInv, BlockInv, Issues, OneActivator, Return
  <2>3. ASSUME CallInv, AckInv, ~crossed' PROVE CallInv' /\ AckInv'
    <3>1. CallInv'
      BY <1>0, <1>1, <2>3, ThreadMoves, ThreadReturns, OneActivator DEF addRequestToList, CallInv, TypeOK, HeldInv, VendorInv, OwnerInv, Issues, OneActivator, Return
    <3>2. AckInv'
      <4>1. /\ Step(d, "dispatch", k, s) /\ UNCHANGED <<acks, vendor>> /\ ~req[k].live
            /\ req' = [req EXCEPT ![k] = [live |-> TRUE, serial |-> s, ackSent |-> FALSE]]
            /\ accepted' = accepted \cup {s}
        BY <1>1 DEF addRequestToList
      <4>2. d \in Threads /\ acks[s] = 0 /\ pc[d] = "idle"
        BY <1>0, <1>1, <2>3, OneActivator DEF addRequestToList, Issues, BlockInv, AckInv, OneActivator
      <4>3. \A c \in Tokens : (c # k => req'[c] = req[c]) /\ ~req'[k].ackSent
        BY <1>0, <4>1 DEF TypeOK
      <4>4. \A t \in Threads :
              /\ t # d => pc'[t] = pc[t] /\ cur'[t] = cur[t] /\ job'[t] = job[t]
              /\ t = d => pc'[t] = "dispatch" /\ cur'[t] = k /\ job'[t] = s
        BY <1>0, <4>1, <4>2, ThreadMoves
      <4>5. \A i \in vendor : i.token \in Tokens /\ i.token # k /\ req'[i.token] = req[i.token]
        BY <1>0, <4>1, <4>3 DEF HeldInv, VendorInv, TypeOK
      <4>6. \A t \in Threads : pc[t] \in Busy => cur[t] \in Tokens /\ cur[t] # k
        <5> SUFFICES ASSUME NEW t \in Threads, pc[t] \in Busy PROVE cur[t] \in Tokens /\ cur[t] # k
          OBVIOUS
        <5>1. CASE pc[t] \in Owning
          BY <1>0, <4>1, <5>1 DEF HeldInv, TypeOK
        <5>2. CASE pc[t] \in AckPlaces
          BY <2>3, <4>5, <5>2 DEF CallInv
        <5>3. QED
          BY <5>1, <5>2
      <4>7. \A t \in Threads : t # d /\ pc[t] \in Busy =>
              pc'[t] = pc[t] /\ job'[t] = job[t] /\ cur'[t] = cur[t] /\ req'[cur'[t]] = req[cur[t]]
        BY <4>3, <4>4, <4>6
      <4>8. \A t \in Threads : pc'[t] \in Busy /\ t # d => pc[t] \in Busy
        BY <4>4
      <4>9. pc'[d] = "dispatch" /\ acks'[job'[d]] = 0 /\ ~req'[cur'[d]].ackSent
        BY <4>1, <4>2, <4>3, <4>4
      <4>10. \A i \in vendor : BeingAcked(i) => BeingAcked(i)'
        BY <4>2, <4>4 DEF BeingAcked
      <4>11. \A i \in vendor' :
               /\ ~i.acked => acks'[i.serial] = 0 /\ ~req'[i.token].ackSent
               /\ i.acked => BeingAcked(i)' \/ (acks'[i.serial] = 1 /\ req'[i.token].ackSent)
        BY <2>3, <4>1, <4>5, <4>10 DEF AckInv
      <4>12. QED
        BY <1>0, <2>3, <4>1, <4>7, <4>8, <4>9, <4>11 DEF AckInv
    <3>3. QED
      BY <3>1, <3>2
  <2>4. crossed => crossed'
    BY <1>1 DEF addRequestToList
  <2>5. QED
    BY <1>0, <2>1, <2>2, <2>3, <2>4
<1>2. ASSUME NEW d \in Dispatchers, NEW s \in Serials, RequestRefused(d, s) PROVE Goal'
  <2>1. BlockInv'
    BY <1>0, <1>2, ThreadMoves, ThreadReturns, OneActivator DEF RequestRefused, BlockInv, TypeOK, HeldInv, VendorInv, OwnerInv, Issues, OneActivator, Return
  <2>2. SentInv'
    BY <1>0, <1>2, ThreadMoves, ThreadReturns, OneActivator DEF RequestRefused, SentInv, TypeOK, HeldInv, VendorInv, OwnerInv, BlockInv, Issues, OneActivator, Return
  <2>3. ASSUME CallInv, AckInv, ~crossed' PROVE CallInv' /\ AckInv'
    <3>1. CallInv'
      BY <1>0, <1>2, <2>3, ThreadMoves, ThreadReturns, OneActivator DEF RequestRefused, CallInv, TypeOK, HeldInv, VendorInv, OwnerInv, Issues, OneActivator, Return
    <3>2. AckInv'
      BY <1>0, <1>2, <2>3, ThreadMoves, ThreadReturns, OneActivator DEF RequestRefused, CallInv, AckInv, TypeOK, HeldInv, VendorInv, OwnerInv, BlockInv, Issues, OneActivator, Return, BeingAcked
    <3>3. QED
      BY <3>1, <3>2
  <2>4. crossed => crossed'
    BY <1>2 DEF RequestRefused
  <2>5. QED
    BY <1>0, <2>1, <2>2, <2>3, <2>4
<1>3. ASSUME NEW d \in Dispatchers, sendErrorResponse(d) PROVE Goal'
  <2>1. BlockInv'
    BY <1>0, <1>3, ThreadMoves, ThreadReturns DEF sendErrorResponse, BlockInv, TypeOK, HeldInv, VendorInv, OwnerInv
  <2>2. SentInv'
    BY <1>0, <1>3, ThreadMoves, ThreadReturns DEF sendErrorResponse, SentInv, TypeOK, HeldInv, VendorInv, OwnerInv, BlockInv
  <2>3. ASSUME CallInv, AckInv, ~crossed' PROVE CallInv' /\ AckInv'
    <3>1. CallInv'
      BY <1>0, <1>3, <2>3, ThreadMoves, ThreadReturns DEF sendErrorResponse, CallInv, TypeOK, HeldInv, VendorInv, OwnerInv
    <3>2. AckInv'
      BY <1>0, <1>3, <2>3, ThreadMoves, ThreadReturns DEF sendErrorResponse, CallInv, AckInv, TypeOK, HeldInv, VendorInv, OwnerInv, BlockInv, BeingAcked
    <3>3. QED
      BY <3>1, <3>2
  <2>4. crossed => crossed'
    BY <1>3 DEF sendErrorResponse
  <2>5. QED
    BY <1>0, <2>1, <2>2, <2>3, <2>4
<1>4. ASSUME NEW d \in Dispatchers, CALL_ONREQUEST(d) PROVE Goal'
  <2>1. BlockInv'
    <3>1. UNCHANGED <<req, accepted, refused>> /\ d \in Threads
      BY <1>4 DEF CALL_ONREQUEST
    <3>2. \A a \in Activators : pc'[a] \in {"none", "idle"} => pc[a] \in {"none", "idle"}
      BY <1>0, <1>4 DEF CALL_ONREQUEST, Return, Step, TypeOK
    <3>3. QED
      BY <1>0, <3>1, <3>2 DEF BlockInv
  <2>2. SentInv'
    BY <1>0, <1>4, ThreadMoves, ThreadReturns DEF CALL_ONREQUEST, SentInv, TypeOK, HeldInv, VendorInv, OwnerInv, BlockInv
  <2>3. ASSUME CallInv, AckInv, ~crossed' PROVE CallInv' /\ AckInv'
    <3>1. CallInv'
      <4>1. vendor \subseteq vendor' /\ d \in Threads
        BY <1>4 DEF CALL_ONREQUEST
      <4>2. \A t \in Threads : pc'[t] \in AckPlaces => pc'[t] = pc[t] /\ cur'[t] = cur[t] /\ job'[t] = job[t]
        BY <1>0, <1>4, <4>1, ThreadMoves, ThreadReturns DEF CALL_ONREQUEST
      <4>3. QED
        BY <2>3, <4>1, <4>2 DEF CallInv
    <3>2. AckInv'
      <4>1. /\ UNCHANGED <<acks, req, accepted>> /\ d \in Threads /\ pc[d] = "dispatch"
            /\ \/ vendor' = vendor
               \/ vendor' = vendor \cup {[token |-> cur[d], serial |-> job[d], acked |-> FALSE]}
        BY <1>4 DEF CALL_ONREQUEST
      <4>2. acks[job[d]] = 0 /\ ~req[cur[d]].ackSent
        BY <2>3, <4>1 DEF AckInv
      <4>3. \A t \in Threads :
              /\ t # d => pc'[t] = pc[t] /\ cur'[t] = cur[t] /\ job'[t] = job[t]
              /\ t = d => \/ pc'[t] = "fake" /\ cur'[t] = cur[t] /\ job'[t] = job[t]
                          \/ pc'[t] \in {"idle", "done"}
        BY <1>0, <1>4, <4>1, ThreadMoves, ThreadReturns DEF CALL_ONREQUEST
      <4>4. \A i \in vendor : BeingAcked(i) => BeingAcked(i)'
        BY <4>1, <4>3 DEF BeingAcked
      <4>5. \A i \in vendor' :
              /\ ~i.acked => acks'[i.serial] = 0 /\ ~req'[i.token].ackSent
              /\ i.acked => BeingAcked(i)' \/ (acks'[i.serial] = 1 /\ req'[i.token].ackSent)
        <5> SUFFICES ASSUME NEW i \in vendor'
                     PROVE  /\ ~i.acked => acks'[i.serial] = 0 /\ ~req'[i.token].ackSent
                            /\ i.acked => BeingAcked(i)' \/ (acks'[i.serial] = 1 /\ req'[i.token].ackSent)
          OBVIOUS
        <5>1. CASE i \in vendor
          BY <2>3, <4>1, <4>4, <5>1 DEF AckInv
        <5>2. CASE i = [token |-> cur[d], serial |-> job[d], acked |-> FALSE]
          BY <4>1, <4>2, <5>2
        <5>3. QED
          BY <4>1, <5>1, <5>2
      <4>6. QED
        BY <2>3, <4>1, <4>2, <4>3, <4>5 DEF AckInv
    <3>3. QED
      BY <3>1, <3>2
  <2>4. crossed => crossed'
    BY <1>4 DEF CALL_ONREQUEST
  <2>5. QED
    BY <1>0, <2>1, <2>2, <2>3, <2>4
<1>5. ASSUME NEW d \in Dispatchers, CompleteManual(d) PROVE Goal'
  <2>1. BlockInv'
    BY <1>0, <1>5, ThreadMoves, ThreadReturns DEF CompleteManual, BlockInv, TypeOK, HeldInv, VendorInv, OwnerInv, Dequeue
  <2>2. SentInv'
    BY <1>0, <1>5, ThreadMoves, ThreadReturns DEF CompleteManual, SentInv, TypeOK, HeldInv, VendorInv, OwnerInv, BlockInv, Dequeue
  <2>3. ASSUME CallInv, AckInv, ~crossed' PROVE CallInv' /\ AckInv'
    <3>1. CallInv'
      BY <1>0, <1>5, <2>3, ThreadMoves, ThreadReturns DEF CompleteManual, CallInv, TypeOK, HeldInv, VendorInv, OwnerInv, Dequeue
    <3>2. AckInv'
      BY <1>0, <1>5, <2>3, ThreadMoves, ThreadReturns DEF CompleteManual, CallInv, AckInv, TypeOK, HeldInv, VendorInv, OwnerInv, BlockInv, Dequeue, BeingAcked
    <3>3. QED
      BY <3>1, <3>2
  <2>4. crossed => crossed'
    BY <1>5 DEF CompleteManual
  <2>5. QED
    BY <1>0, <2>1, <2>2, <2>3, <2>4
<1>6. ASSUME NEW v \in Vendors, NEW i \in vendor, RIL_onRequestAck(v, i) PROVE Goal'
  <2>1. BlockInv'
    BY <1>0, <1>6, ThreadMoves, ThreadReturns DEF RIL_onRequestAck, BlockInv, TypeOK, HeldInv, VendorInv, OwnerInv
  <2>2. SentInv'
    BY <1>0, <1>6, ThreadMoves, ThreadReturns DEF RIL_onRequestAck, SentInv, TypeOK, HeldInv, VendorInv, OwnerInv, BlockInv
  <2>3. ASSUME CallInv, AckInv, ~crossed' PROVE CallInv' /\ AckInv'
    <3>1. CallInv'
      <4> DEFINE j == [i EXCEPT !.acked = TRUE]
      <4>1. /\ v \in Threads /\ v \in Vendors /\ pc[v] = "idle" /\ ~i.acked
            /\ vendor' = (vendor \ {i}) \cup {j} /\ Step(v, "ack", i.token, i.serial)
        BY <1>6 DEF RIL_onRequestAck
      <4>2. j.token = i.token /\ j.serial = i.serial /\ j.acked /\ i.token \in Tokens
        BY <1>0 DEF TypeOK
      <4> HIDE DEF j
      <4>3. \A t \in Threads :
              /\ t # v => pc'[t] = pc[t] /\ cur'[t] = cur[t] /\ job'[t] = job[t]
              /\ t = v => pc'[t] = "ack" /\ cur'[t] = i.token /\ job'[t] = i.serial
        BY <1>0, <4>1, ThreadMoves
      <4>4. \A t \in Threads : pc[t] \in AckPlaces =>
              /\ t # v /\ cur[t] # i.token
              /\ \E h \in vendor \ {i} : h.token = cur[t] /\ h.serial = job[t] /\ h.acked
        <5> SUFFICES ASSUME NEW t \in Threads, pc[t] \in AckPlaces
                     PROVE  /\ t # v /\ cur[t] # i.token
                            /\ \E h \in vendor \ {i} : h.token = cur[t] /\ h.serial = job[t] /\ h.acked
          OBVIOUS
        <5>1. PICK h \in vendor : h.token = cur[t] /\ h.serial = job[t] /\ h.acked
          BY <2>3 DEF CallInv
        <5>2. h # i /\ h.token # i.token
          BY <1>0, <4>1, <5>1 DEF OwnerInv
        <5>3. QED
          BY <4>1, <5>1, <5>2
      <4>5. QED
        BY <2>3, <4>1, <4>2, <4>3, <4>4 DEF CallInv
    <3>2. AckInv'
      BY <1>0, <1>6, <2>3, ThreadMoves, ThreadReturns DEF RIL_onRequestAck, CallInv, AckInv, TypeOK, HeldInv, VendorInv, OwnerInv, BlockInv, BeingAcked
    <3>3. QED
      BY <3>1, <3>2
  <2>4. crossed => crossed'
    BY <1>6 DEF RIL_onRequestAck
  <2>5. QED
    BY <1>0, <2>1, <2>2, <2>3, <2>4
<1>7. ASSUME NEW v \in Vendors, NEW i \in vendor, RIL_onRequestComplete(v, i) PROVE Goal'
  <2>1. BlockInv'
    BY <1>0, <1>7, ThreadMoves, ThreadReturns DEF RIL_onRequestComplete, BlockInv, TypeOK, HeldInv, VendorInv, OwnerInv, Dequeue, BeingAcked
  <2>2. SentInv'
    BY <1>0, <1>7, ThreadMoves, ThreadReturns DEF RIL_onRequestComplete, SentInv, TypeOK, HeldInv, VendorInv, OwnerInv, BlockInv, Dequeue, BeingAcked
  <2>3. ASSUME CallInv, AckInv, ~crossed' PROVE CallInv' /\ AckInv'
    <3>1. CallInv'
      BY <1>0, <1>7, <2>3, ThreadMoves, ThreadReturns DEF RIL_onRequestComplete, CallInv, TypeOK, HeldInv, VendorInv, OwnerInv, Dequeue, BeingAcked
    <3>2. AckInv'
      BY <1>0, <1>7, <2>3, ThreadMoves, ThreadReturns DEF RIL_onRequestComplete, CallInv, AckInv, TypeOK, HeldInv, VendorInv, OwnerInv, BlockInv, Dequeue, BeingAcked
    <3>3. QED
      BY <3>1, <3>2
  <2>4. crossed => crossed'
    BY <1>7 DEF RIL_onRequestComplete
  <2>5. QED
    BY <1>0, <2>1, <2>2, <2>3, <2>4
<1>8. ASSUME NEW v \in Vendors, acknowledgeRequest(v) PROVE Goal'
  <2>1. BlockInv'
    BY <1>0, <1>8, ThreadMoves, ThreadReturns DEF acknowledgeRequest, BlockInv, TypeOK, HeldInv, VendorInv, OwnerInv
  <2>2. SentInv'
    BY <1>0, <1>8, ThreadMoves, ThreadReturns DEF acknowledgeRequest, SentInv, TypeOK, HeldInv, VendorInv, OwnerInv, BlockInv
  <2>3. ASSUME CallInv, AckInv, ~crossed' PROVE CallInv' /\ AckInv'
    <3>1. CallInv'
      BY <1>0, <1>8, <2>3, ThreadMoves, ThreadReturns DEF acknowledgeRequest, CallInv, TypeOK, HeldInv, VendorInv, OwnerInv
    <3>2. AckInv'
      <4>1. /\ v \in Threads /\ v \in Vendors /\ pc[v] = "acknowledge" /\ Return(v)
            /\ UNCHANGED <<accepted, vendor, req>>
            /\ \E h \in vendor : h.token = cur[v] /\ h.serial = job[v] /\ h.acked
        BY <1>8, <2>3 DEF acknowledgeRequest, CallInv
      <4>2. /\ req[cur[v]].live /\ req[cur[v]].serial = job[v] /\ cur[v] \in Tokens
            /\ job[v] \in Serials /\ job[v] \in accepted
        BY <1>0, <4>1 DEF VendorInv, HeldInv, BlockInv, TypeOK
      <4>3. \A r \in Serials : acks'[r] = IF r = job[v] THEN acks[r] + 1 ELSE acks[r]
        BY <1>8, <4>2 DEF acknowledgeRequest, SerialRead
      <4>4. acks[job[v]] = 0 /\ req[cur[v]].ackSent
        BY <2>3, <4>1 DEF AckInv
      <4>5. \A t \in Threads :
              /\ t # v => pc'[t] = pc[t] /\ cur'[t] = cur[t] /\ job'[t] = job[t]
              /\ t = v => pc'[t] \in {"idle", "done"}
        BY <1>0, <4>1, ThreadReturns
      <4>6. \A t \in Threads : pc[t] \in Owning => job[t] # job[v] /\ job[t] \in Serials
        <5> SUFFICES ASSUME NEW t \in Threads, pc[t] \in Owning PROVE job[t] # job[v] /\ job[t] \in Serials
          OBVIOUS
        <5>1. cur[t] # cur[v] /\ cur[t] \in Tokens /\ req[cur[t]].live /\ req[cur[t]].serial = job[t]
          BY <1>0, <4>1 DEF OwnerInv, HeldInv, TypeOK
        <5>2. QED
          BY <1>0, <4>2, <5>1 DEF BlockInv, TypeOK
      <4>7. \A i \in vendor :
              /\ i.token \in Tokens /\ i.serial \in Serials
              /\ req[i.token].live /\ req[i.token].serial = i.serial
              /\ i.token = cur[v] => i.serial = job[v] /\ i.acked
        BY <1>0, <4>1 DEF OwnerInv, VendorInv, HeldInv, TypeOK
      <4>8. \A i \in vendor : i.serial = job[v] => i.token = cur[v]
        BY <1>0, <4>2, <4>7 DEF BlockInv
      <4>9. \A t \in Threads : t # v /\ pc[t] \in AckPlaces => job[t] # job[v] /\ job[t] \in Serials
        <5> SUFFICES ASSUME NEW t \in Threads, t # v, pc[t] \in AckPlaces PROVE job[t] # job[v] /\ job[t] \in Serials
          OBVIOUS
        <5>1. PICK i \in vendor : cur[t] # cur[v] /\ i.token = cur[t] /\ i.serial = job[t]
          BY <2>3, <4>1 DEF CallInv
        <5>2. QED
          BY <4>7, <4>8, <5>1
      <4>10. \A i \in vendor :
               /\ i.token # cur[v] => i.serial # job[v] /\ (BeingAcked(i) => BeingAcked(i)')
               /\ i.token = cur[v] => i.acked /\ acks'[i.serial] = 1 /\ req[i.token].ackSent
        BY <4>3, <4>4, <4>5, <4>7, <4>8, <4>2 DEF BeingAcked
      <4>11. \A i \in vendor' :
              /\ ~i.acked => acks'[i.serial] = 0 /\ ~req'[i.token].ackSent
              /\ i.acked => BeingAcked(i)' \/ (acks'[i.serial] = 1 /\ req'[i.token].ackSent)
        BY <2>3, <4>1, <4>3, <4>7, <4>10 DEF AckInv
      <4>12. \A s \in Serials : acks'[s] \in {0, 1} /\ (s \notin accepted => acks'[s] = 0)
        BY <2>3, <4>2, <4>3, <4>4 DEF AckInv
      <4>13. QED
        BY <2>3, <4>1, <4>3, <4>5, <4>6, <4>9, <4>11, <4>12 DEF AckInv
    <3>3. QED
      BY <3>1, <3>2
  <2>4. crossed => crossed'
    BY <1>8 DEF acknowledgeRequest
  <2>5. QED
    BY <1>0, <2>1, <2>2, <2>3, <2>4
<1>9. ASSUME NEW t \in Threads, CardSeen(t) PROVE Goal'
  <2>1. BlockInv'
    BY <1>0, <1>9, ThreadMoves, ThreadReturns DEF CardSeen, BlockInv, TypeOK, HeldInv, VendorInv, OwnerInv
  <2>2. SentInv'
    BY <1>0, <1>9, ThreadMoves, ThreadReturns DEF CardSeen, SentInv, TypeOK, HeldInv, VendorInv, OwnerInv, BlockInv
  <2>3. ASSUME CallInv, AckInv, ~crossed' PROVE CallInv' /\ AckInv'
    <3>1. CallInv'
      BY <1>0, <1>9, <2>3, ThreadMoves, ThreadReturns DEF CardSeen, CallInv, TypeOK, HeldInv, VendorInv, OwnerInv
    <3>2. AckInv'
      BY <1>0, <1>9, <2>3, ThreadMoves, ThreadReturns DEF CardSeen, CallInv, AckInv, TypeOK, HeldInv, VendorInv, OwnerInv, BlockInv, BeingAcked
    <3>3. QED
      BY <3>1, <3>2
  <2>4. crossed => crossed'
    BY <1>9 DEF CardSeen
  <2>5. QED
    BY <1>0, <2>1, <2>2, <2>3, <2>4
<1>10. ASSUME NEW t \in Threads, NEW a \in Activators, StartSubActivate(t, a) PROVE Goal'
  <2>1. BlockInv'
    BY <1>0, <1>10, ThreadMoves, ThreadReturns DEF StartSubActivate, BlockInv, TypeOK, HeldInv, VendorInv, OwnerInv
  <2>2. SentInv'
    BY <1>0, <1>10, ThreadMoves, ThreadReturns DEF StartSubActivate, SentInv, TypeOK, HeldInv, VendorInv, OwnerInv, BlockInv
  <2>3. ASSUME CallInv, AckInv, ~crossed' PROVE CallInv' /\ AckInv'
    <3>1. CallInv'
      BY <1>0, <1>10, <2>3, ThreadMoves, ThreadReturns DEF StartSubActivate, CallInv, TypeOK, HeldInv, VendorInv, OwnerInv
    <3>2. AckInv'
      BY <1>0, <1>10, <2>3, ThreadMoves, ThreadReturns DEF StartSubActivate, CallInv, AckInv, TypeOK, HeldInv, VendorInv, OwnerInv, BlockInv, BeingAcked
    <3>3. QED
      BY <3>1, <3>2
  <2>4. crossed => crossed'
    BY <1>10 DEF StartSubActivate
  <2>5. QED
    BY <1>0, <2>1, <2>2, <2>3, <2>4
<1>11. ASSUME NEW t \in Threads, SubActivateFails(t) PROVE Goal'
  <2>1. BlockInv'
    BY <1>0, <1>11, ThreadMoves, ThreadReturns DEF SubActivateFails, BlockInv, TypeOK, HeldInv, VendorInv, OwnerInv
  <2>2. SentInv'
    BY <1>0, <1>11, ThreadMoves, ThreadReturns DEF SubActivateFails, SentInv, TypeOK, HeldInv, VendorInv, OwnerInv, BlockInv
  <2>3. ASSUME CallInv, AckInv, ~crossed' PROVE CallInv' /\ AckInv'
    <3>1. CallInv'
      BY <1>0, <1>11, <2>3, ThreadMoves, ThreadReturns DEF SubActivateFails, CallInv, TypeOK, HeldInv, VendorInv, OwnerInv
    <3>2. AckInv'
      BY <1>0, <1>11, <2>3, ThreadMoves, ThreadReturns DEF SubActivateFails, CallInv, AckInv, TypeOK, HeldInv, VendorInv, OwnerInv, BlockInv, BeingAcked
    <3>3. QED
      BY <3>1, <3>2
  <2>4. crossed => crossed'
    BY <1>11 DEF SubActivateFails
  <2>5. QED
    BY <1>0, <2>1, <2>2, <2>3, <2>4
<1>12. ASSUME NEW t \in Threads, responseFunction(t) PROVE Goal'
  <2>1. BlockInv'
    BY <1>0, <1>12, ThreadMoves, ThreadReturns DEF responseFunction, BlockInv, TypeOK, HeldInv, VendorInv, OwnerInv
  <2>2. SentInv'
    BY <1>0, <1>12, ThreadMoves, ThreadReturns DEF responseFunction, SentInv, TypeOK, HeldInv, VendorInv, OwnerInv, BlockInv
  <2>3. ASSUME CallInv, AckInv, ~crossed' PROVE CallInv' /\ AckInv'
    <3>1. CallInv'
      BY <1>0, <1>12, <2>3, ThreadMoves, ThreadReturns DEF responseFunction, CallInv, TypeOK, HeldInv, VendorInv, OwnerInv
    <3>2. AckInv'
      BY <1>0, <1>12, <2>3, ThreadMoves, ThreadReturns DEF responseFunction, CallInv, AckInv, TypeOK, HeldInv, VendorInv, OwnerInv, BlockInv, BeingAcked
    <3>3. QED
      BY <3>1, <3>2
  <2>4. crossed => crossed'
    BY <1>12 DEF responseFunction
  <2>5. QED
    BY <1>0, <2>1, <2>2, <2>3, <2>4
<1>13. ASSUME NEW t \in Threads, FreeRequest(t) PROVE Goal'
  <2>1. BlockInv'
    <3>1. UNCHANGED <<accepted, refused>> /\ pc[t] = "free"
      BY <1>13 DEF FreeRequest
    <3>2. \A c \in Tokens : (req'[c].live => req[c].live) /\ req'[c].serial = req[c].serial
      BY <1>0, <1>13 DEF FreeRequest, TypeOK
    <3>3. \A a \in Activators : pc'[a] \in {"none", "idle"} => pc[a] \in {"none", "idle"}
      BY <1>0, <1>13 DEF FreeRequest, Return, Step, TypeOK
    <3>4. QED
      BY <1>0, <3>1, <3>2, <3>3 DEF BlockInv
  <2>2. SentInv'
    BY <1>0, <1>13, ThreadMoves, ThreadReturns DEF FreeRequest, SentInv, TypeOK, HeldInv, VendorInv, OwnerInv, BlockInv
  <2>3. ASSUME CallInv, AckInv, ~crossed' PROVE CallInv' /\ AckInv'
    <3>1. CallInv'
      BY <1>0, <1>13, <2>3, ThreadMoves, ThreadReturns DEF FreeRequest, CallInv, TypeOK, HeldInv, VendorInv, OwnerInv
    <3>2. AckInv'
      <4>1. /\ pc[t] = "free" /\ Return(t) /\ UNCHANGED <<accepted, acks, vendor>>
            /\ req' = [req EXCEPT ![cur[t]].live = FALSE]
        BY <1>13 DEF FreeRequest
      <4>2. \A c \in Tokens : req'[c].ackSent = req[c].ackSent
        BY <1>0, <4>1 DEF TypeOK
      <4>3. \A u \in Threads : pc'[u] \in Busy =>
              /\ u # t /\ pc'[u] = pc[u] /\ cur'[u] = cur[u] /\ job'[u] = job[u]
              /\ req'[cur'[u]].ackSent = req[cur[u]].ackSent
        BY <1>0, <4>1, <4>2, ThreadReturns DEF HeldInv, TypeOK
      <4>4. \A i \in vendor : (BeingAcked(i) => BeingAcked(i)') /\ req'[i.token].ackSent = req[i.token].ackSent
        BY <1>0, <4>1, <4>2, ThreadReturns DEF BeingAcked, TypeOK
      <4>5. \A i \in vendor' :
              /\ ~i.acked => acks'[i.serial] = 0 /\ ~req'[i.token].ackSent
              /\ i.acked => BeingAcked(i)' \/ (acks'[i.serial] = 1 /\ req'[i.token].ackSent)
        BY <2>3, <4>1, <4>4 DEF AckInv
      <4>6. QED
        BY <2>3, <4>1, <4>3, <4>5 DEF AckInv
    <3>3. QED
      BY <3>1, <3>2
  <2>4. crossed => crossed'
    BY <1>13 DEF FreeRequest
  <2>5. QED
    BY <1>0, <2>1, <2>2, <2>3, <2>4
<1>16. ASSUME NEW v \in Vendors, checkRequestInfoIfAck(v) PROVE Goal'
  <2>1. BlockInv'
    <3>1. UNCHANGED <<accepted, refused>> /\ v \in Threads
      BY <1>16 DEF checkRequestInfoIfAck
    <3>2. \A c \in Tokens : req'[c].live = req[c].live /\ req'[c].serial = req[c].serial
      <4>1. req' = req \/ req' = [req EXCEPT ![cur[v]].ackSent = TRUE]
        BY <1>16 DEF checkRequestInfoIfAck
      <4>2. QED
        BY <1>0, <4>1 DEF TypeOK
    <3>3. \A a \in Activators : pc'[a] \in {"none", "idle"} => pc[a] \in {"none", "idle"}
      BY <1>0, <1>16, ThreadMoves, ThreadReturns DEF checkRequestInfoIfAck, Return, Step, TypeOK
    <3>4. QED
      BY <1>0, <3>1, <3>2, <3>3 DEF BlockInv
  <2>2. SentInv'
    BY <1>0, <1>16, ThreadMoves, ThreadReturns DEF checkRequestInfoIfAck, SentInv, TypeOK, HeldInv, VendorInv, OwnerInv, BlockInv
  <2>3. ASSUME CallInv, AckInv, ~crossed' PROVE CallInv' /\ AckInv'
    <3>1. CallInv'
      BY <1>0, <1>16, <2>3, ThreadMoves, ThreadReturns DEF checkRequestInfoIfAck, CallInv, TypeOK, HeldInv, VendorInv, OwnerInv
    <3>2. AckInv'
      <4>1. /\ v \in Threads /\ v \in Vendors /\ pc[v] = "ack" /\ UNCHANGED <<accepted, acks, vendor>>
            /\ \E h \in vendor : h.token = cur[v] /\ h.serial = job[v] /\ h.acked
        BY <1>16, <2>3 DEF checkRequestInfoIfAck, CallInv
      <4>2. cur[v] \in pending /\ cur[v] \in Tokens
        BY <1>0, <4>1 DEF VendorInv, TypeOK
      <4>3. Step(v, "acknowledge", cur[v], job[v]) /\ req' = [req EXCEPT ![cur[v]].ackSent = TRUE]
        BY <1>16, <4>2 DEF checkRequestInfoIfAck
      <4>4. \A c \in Tokens : (c # cur[v] => req'[c] = req[c]) /\ req'[cur[v]].ackSent
        BY <1>0, <4>2, <4>3 DEF TypeOK
      <4>5. \A t \in Threads :
              /\ t # v => pc'[t] = pc[t] /\ cur'[t] = cur[t] /\ job'[t] = job[t]
              /\ t = v => pc'[t] = "acknowledge" /\ cur'[t] = cur[t] /\ job'[t] = job[t]
        BY <1>0, <4>1, <4>3, ThreadMoves
      <4>6. \A t \in Threads : pc[t] \in Busy => cur[t] \in Tokens
        BY <1>0 DEF HeldInv, TypeOK
      <4>7. \A t \in Threads : pc[t] \in Owning => cur[t] # cur[v]
        BY <1>0, <4>1 DEF OwnerInv
      <4>8. \A t \in Threads : pc[t] \in AckPlaces /\ t # v => cur[t] # cur[v]
        BY <2>3, <4>1 DEF CallInv
      <4>9. \A t \in Threads : t # v /\ pc[t] \in Busy => req'[cur'[t]] = req[cur[t]]
        BY <4>4, <4>5, <4>6, <4>7, <4>8
      <4>10. \A i \in vendor : i.token \in Tokens /\ (i.token = cur[v] => i.acked /\ i.serial = job[v])
        BY <1>0, <4>1 DEF OwnerInv, TypeOK
      <4>11. \A i \in vendor :
               /\ BeingAcked(i) => BeingAcked(i)'
               /\ i.token = cur[v] => BeingAcked(i)'
               /\ i.token # cur[v] => req'[i.token] = req[i.token]
        BY <4>1, <4>4, <4>5, <4>10 DEF BeingAcked
      <4>12. \A i \in vendor' :
              /\ ~i.acked => acks'[i.serial] = 0 /\ ~req'[i.token].ackSent
              /\ i.acked => BeingAcked(i)' \/ (acks'[i.serial] = 1 /\ req'[i.token].ackSent)
        BY <2>3, <4>1, <4>10, <4>11 DEF AckInv
      <4>13. acks[job[v]] = 0
        BY <2>3, <4>1 DEF AckInv
      <4>14. \A t \in Threads : pc'[t] \in Busy =>
               /\ job'[t] = job[t] /\ acks'[job'[t]] = acks[job[t]]
               /\ t # v => pc'[t] = pc[t] /\ pc[t] \in Busy /\ req'[cur'[t]] = req[cur[t]]
        BY <4>1, <4>5, <4>9
      <4>15. req'[cur'[v]].ackSent /\ pc'[v] = "acknowledge"
        BY <4>1, <4>2, <4>4, <4>5
      <4>16. \A t \in Threads : pc'[t] \in AckPlaces => acks'[job'[t]] = 0
        BY <2>3, <4>13, <4>14 DEF AckInv
      <4>17. \A t \in Threads : pc'[t] = "acknowledge" => req'[cur'[t]].ackSent
        BY <2>3, <4>14, <4>15 DEF AckInv
      <4>18. \A t \in Threads : pc'[t] \in {"dispatch", "fake"} => acks'[job'[t]] = 0 /\ ~req'[cur'[t]].ackSent
        BY <2>3, <4>14, <4>15 DEF AckInv
      <4>19. \A t \in Threads : pc'[t] \in {"card", "activate", "respond"} =>
               (req'[cur'[t]].ackSent <=> acks'[job'[t]] = 1)
        BY <2>3, <4>14, <4>15 DEF AckInv
      <4>20. QED
        BY <2>3, <4>1, <4>12, <4>16, <4>17, <4>18, <4>19 DEF AckInv
    <3>3. QED
      BY <3>1, <3>2
  <2>4. crossed => crossed'
    BY <1>16 DEF checkRequestInfoIfAck
  <2>5. QED
    BY <1>0, <2>1, <2>2, <2>3, <2>4
<1>14. CASE UNCHANGED vars
  BY <1>0, <1>14 DEF vars, BlockInv, SentInv, CallInv, AckInv, BeingAcked
<1>15. QED
  BY <1>1, <1>2, <1>3, <1>4, <1>5, <1>6, <1>7, <1>8, <1>9, <1>10, <1>11, <1>12,
     <1>13, <1>14, <1>16, Zenon
  DEF Next, NewRequest, DispatchStep, AckStep, VendorCall, CompletionStep, Quiet

(***************************************************************************)
(* Every step is a step of the contract, or one the framework cannot see.  *)
(***************************************************************************)
SeenVars == <<v13, crossed, ContractState, acks, answers, result, expects>>

LEMMA ContractStep ==
  ASSUME SentStepInv, SentStepInv', OneActivator, [Next]_vars
  PROVE  Contract!Next \/ UNCHANGED SeenVars
<1> DEFINE Goal == Contract!Next \/ UNCHANGED SeenVars
<1> USE Shape DEF Threads, Dispatchers, clientVars, SeenVars
<1>0. TypeOK /\ HeldInv /\ VendorInv /\ BlockInv /\ SentInv /\ (crossed \/ (CallInv /\ AckInv))
  BY DEF IInv, SentStepInv
<1>a. ASSUME UNCHANGED <<v13, crossed, accepted, refused, acks, answers, result, expects>> PROVE Goal
  BY <1>a DEF ContractState
<1>1. ASSUME NEW d \in Dispatchers, NEW s \in Serials, NEW k \in Tokens, addRequestToList(d, s, k)
      PROVE  Goal
  <2>1. s \notin accepted \cup refused
    BY <1>0, <1>1 DEF addRequestToList, Issues, BlockInv, OneActivator
  <2>2. accepted' = accepted \cup {s} /\ UNCHANGED <<v13, crossed, refused, acks, answers, result, expects>>
    BY <1>1 DEF addRequestToList
  <2>3. ContractState[s] = "new" /\ ContractState' = [ContractState EXCEPT ![s] = "accepted"]
    BY <2>1, <2>2 DEF ContractState
  <2>4. Contract!Accept(s)
    BY <2>2, <2>3 DEF Contract!Accept
  <2>5. QED
    BY <2>4 DEF Contract!Next
<1>2. ASSUME NEW d \in Dispatchers, NEW s \in Serials, RequestRefused(d, s) PROVE Goal
  <2>1. s \notin accepted \cup refused
    BY <1>0, <1>2 DEF RequestRefused, Issues, BlockInv, OneActivator
  <2>2. refused' = refused \cup {s} /\ UNCHANGED <<v13, crossed, accepted, acks, answers, result, expects>>
    BY <1>2 DEF RequestRefused
  <2>3. ContractState[s] = "new" /\ ContractState' = [ContractState EXCEPT ![s] = "refused"]
    BY <2>1, <2>2 DEF ContractState
  <2>4. Contract!Refuse(s)
    BY <2>2, <2>3 DEF Contract!Refuse
  <2>5. QED
    BY <2>4 DEF Contract!Next
<1>b. ASSUME NEW s \in accepted, answers[s] = 0, NEW r \in {s, NoResult},
             answers' = [answers EXCEPT ![s] = answers[s] + 1], result' = [result EXCEPT ![s] = r],
             NEW e \in BOOLEAN, expects' = [expects EXCEPT ![s] = e],
             IF crossed THEN e => v13 ELSE e <=> (v13 /\ acks[s] = 1),
             UNCHANGED <<v13, crossed, accepted, refused, acks>>
      PROVE  Goal
  <2>1. s \in Serials /\ ContractState[s] = "accepted" /\ ContractState' = ContractState
    BY <1>0, <1>b DEF ContractState, TypeOK
  <2>2. answers' = [answers EXCEPT ![s] = 1]
    BY <1>b
  <2>3. Contract!Answer(s)
    BY <1>b, <2>1, <2>2 DEF Contract!Answer
  <2>4. QED
    BY <2>1, <2>3 DEF Contract!Next
<1>3. ASSUME NEW d \in Dispatchers, sendErrorResponse(d) PROVE Goal
  <2> DEFINE s == req[cur[d]].serial
  <2>1. /\ s = job[d] /\ s \in accepted /\ answers[s] = 0 /\ (crossed \/ acks[s] = 0)
    BY <1>0, <1>3 DEF sendErrorResponse, HeldInv, BlockInv, SentInv, AckInv, TypeOK, Busy, Owning
  <2>2. /\ answers' = [answers EXCEPT ![s] = answers[s] + 1] /\ result' = [result EXCEPT ![s] = NoResult]
        /\ expects' = [expects EXCEPT ![s] = FALSE]
        /\ UNCHANGED <<v13, crossed, accepted, refused, acks>>
    BY <1>3 DEF sendErrorResponse
  <2> HIDE DEF s
  <2>3. /\ \E r \in {s, NoResult} : result' = [result EXCEPT ![s] = r]
        /\ IF crossed THEN FALSE => v13 ELSE FALSE <=> (v13 /\ acks[s] = 1)
    BY <2>1, <2>2
  <2>4. QED
    BY <1>b, <2>1, <2>2, <2>3
<1>4. ASSUME NEW t \in Threads, responseFunction(t) PROVE Goal
  <2> DEFINE s == req[cur[t]].serial
  <2>1. /\ s = job[t] /\ s \in accepted /\ answers[s] = 0
        /\ crossed \/ (req[cur[t]].ackSent <=> acks[s] = 1)
        /\ (v13 /\ req[cur[t]].ackSent) \in BOOLEAN
    BY <1>0, <1>4 DEF responseFunction, HeldInv, BlockInv, SentInv, AckInv, TypeOK, Busy, Owning
  <2>2. /\ answers' = [answers EXCEPT ![s] = answers[s] + 1] /\ result' = [result EXCEPT ![s] = job[t]]
        /\ expects' = [expects EXCEPT ![s] = v13 /\ req[cur[t]].ackSent]
        /\ UNCHANGED <<v13, crossed, accepted, refused, acks>>
    BY <1>4 DEF responseFunction
  <2> HIDE DEF s
  <2>3. \E r \in {s, NoResult} : result' = [result EXCEPT ![s] = r]
    BY <2>1, <2>2
  <2> DEFINE e == v13 /\ req[cur[t]].ackSent
  <2>4. IF crossed THEN e => v13 ELSE e <=> (v13 /\ acks[s] = 1)
    BY <2>1
  <2>5. e \in BOOLEAN /\ expects' = [expects EXCEPT ![s] = e]
    BY <2>1, <2>2
  <2> HIDE DEF e
  <2>6. QED
    BY <1>b, <2>1, <2>2, <2>3, <2>4, <2>5
<1>5. ASSUME NEW v \in Vendors, acknowledgeRequest(v) PROVE Goal
  <2>1. PICK s \in SerialRead(cur[v]) :
          acks' = [r \in Serials |-> IF r = s THEN acks[r] + 1 ELSE acks[r]]
    BY <1>5 DEF acknowledgeRequest
  <2>2. pc[v] = "acknowledge" /\ v \in Threads
        /\ UNCHANGED <<v13, crossed, accepted, refused, answers, result, expects>>
    BY <1>5 DEF acknowledgeRequest
  <2>3. CASE s \in Serials
    <3>1. acks' = [acks EXCEPT ![s] = acks[s] + 1] /\ ContractState' = ContractState
      BY <1>0, <2>1, <2>2, <2>3 DEF TypeOK, ContractState
    <3>2. crossed \/ (ContractState[s] = "accepted" /\ acks[s] = 0 /\ answers[s] = 0)
      <4> SUFFICES ASSUME CallInv, AckInv
                   PROVE  ContractState[s] = "accepted" /\ acks[s] = 0 /\ answers[s] = 0
        BY <1>0
      <4>1. PICK h \in vendor : h.token = cur[v] /\ h.serial = job[v]
        BY <2>2 DEF CallInv, AckPlaces
      <4>2. req[cur[v]].live /\ req[cur[v]].serial = job[v]
        <5>1. h.token \in pending /\ req[h.token].serial = h.serial
          BY <1>0, <4>1 DEF VendorInv
        <5>2. QED
          BY <1>0, <4>1, <5>1 DEF HeldInv
      <4>6. cur[v] \in Tokens
        BY <1>0, <4>1 DEF TypeOK
      <4>3. s = job[v] /\ s \in accepted /\ answers[s] = 0
        BY <1>0, <2>1, <4>1, <4>2, <4>6 DEF SerialRead, BlockInv, SentInv
      <4>4. acks[s] = 0
        BY <2>2, <4>3 DEF AckInv, AckPlaces
      <4>5. QED
        BY <2>3, <4>3, <4>4 DEF ContractState
    <3>3. Contract!Acknowledge(s)
      BY <2>2, <3>1, <3>2 DEF Contract!Acknowledge
    <3>4. QED
      BY <2>3, <3>3 DEF Contract!Next
  <2>4. CASE s \notin Serials
    <3>1. acks' = acks
      BY <1>0, <2>1, <2>4 DEF TypeOK
    <3>2. QED
      BY <1>a, <2>2, <3>1
  <2>5. QED
    BY <2>3, <2>4
<1>6. ASSUME NEW d \in Dispatchers, CALL_ONREQUEST(d) \/ CompleteManual(d) PROVE Goal
  BY <1>a, <1>6 DEF CALL_ONREQUEST, CompleteManual
<1>7. ASSUME NEW v \in Vendors, NEW i \in vendor, RIL_onRequestComplete(v, i) PROVE Goal
  <2>1. /\ UNCHANGED <<v13, accepted, refused, acks, answers, result, expects>>
        /\ crossed' = TRUE \/ crossed' = crossed
    BY <1>0, <1>7 DEF RIL_onRequestComplete, TypeOK
  <2>2. CASE crossed' = TRUE
    BY <2>1, <2>2 DEF Contract!Next, Contract!Cross, ContractState
  <2>3. QED
    BY <1>a, <2>1, <2>2
<1>12. ASSUME NEW v \in Vendors, NEW i \in vendor, RIL_onRequestAck(v, i) PROVE Goal
  BY <1>a, <1>12 DEF RIL_onRequestAck
<1>13. ASSUME NEW v \in Vendors, checkRequestInfoIfAck(v) PROVE Goal
  BY <1>a, <1>13 DEF checkRequestInfoIfAck
<1>8. ASSUME NEW t \in Threads, NEW a \in Activators,
             CardSeen(t) \/ StartSubActivate(t, a) \/ SubActivateFails(t) \/ FreeRequest(t)
      PROVE  Goal
  BY <1>a, <1>8 DEF CardSeen, StartSubActivate, SubActivateFails, FreeRequest
<1>9. ASSUME NEW t \in Threads, CardSeen(t) \/ SubActivateFails(t) \/ FreeRequest(t)
      PROVE  Goal
  BY <1>a, <1>9 DEF CardSeen, SubActivateFails, FreeRequest
<1>10. CASE UNCHANGED vars
  BY <1>a, <1>10 DEF vars
<1>11. QED
  BY <1>1, <1>2, <1>3, <1>4, <1>5, <1>6, <1>7, <1>8, <1>9, <1>10,
     <1>12, <1>13, Zenon
  DEF Next, NewRequest, DispatchStep, AckStep, VendorCall, CompletionStep, Quiet

(***************************************************************************)
(* What the framework is sent is what RadioContract allows, whatever the   *)
(* interleaving of dispatch, acknowledgement, completion and the reuse of  *)
(* blocks, provided the SIM is activated from one thread: one              *)
(* answer, the request's own; one acknowledgement at most and before the   *)
(* answer, until a completion crosses the acknowledgement of its request   *)
(* (the safety part of Implements).                                        *)
(***************************************************************************)
THEOREM ContractKept ==
  ASSUME OneActivator
  PROVE  Spec => Contract!Init /\ [][Contract!Next]_SeenVars
<1>1. Init => SentStepInv /\ Contract!Init
  <2> SUFFICES ASSUME Init PROVE SentStepInv /\ Contract!Init
    OBVIOUS
  <2>1. IInv
    BY InitOwned
  <2>2. BlockInv /\ SentInv /\ CallInv /\ AckInv
    BY DEF Init, BlockInv, SentInv, CallInv, AckInv, Owning, AckPlaces, Serials
  <2>3. Contract!Init
    BY DEF Init, Contract!Init, ContractState
  <2>4. QED
    BY <2>1, <2>2, <2>3 DEF SentStepInv
<1>2. SentStepInv /\ [Next]_vars => SentStepInv'
  <2> SUFFICES ASSUME SentStepInv, [Next]_vars PROVE SentStepInv'
    OBVIOUS
  <2>1. IInv'
    BY NextOwned DEF SentStepInv
  <2>2. BlockInv' /\ SentInv' /\ (crossed' \/ (CallInv' /\ AckInv'))
    BY <2>1, SentStep
  <2>3. QED
    BY <2>1, <2>2 DEF SentStepInv
<1>3. SentStepInv /\ SentStepInv' /\ [Next]_vars => [Contract!Next]_SeenVars
  BY ContractStep
<1>4. QED
  BY <1>1, <1>2, <1>3, PTL DEF Spec
=============================================================================
