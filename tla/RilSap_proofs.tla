--------------------------- MODULE RilSap_proofs ---------------------------
(***************************************************************************)
(* Proofs about RilSap, for any requests, tokens, results and clients.     *)
(***************************************************************************)
EXTENDS RilSap, FiniteSetTheorems, SequenceTheorems, TLAPS

Types ==
  /\ TypeOK
  /\ pendingResponseQueue \in Seq(Requests)
  /\ response \in [Requests -> [decoded : BOOLEAN, result : VendorResults \cup {"none"}]]
  /\ answers = [r \in Requests |-> answers[r]]

Queued == ToSet(pendingResponseQueue)

\* a request is with the vendor from its dispatch on
Paced(a, v) == v = "none" <=> a \in {"none", "dispatch"}

Held == {"asked", "processing", "calling", "failed", "answered"}

\* which blocks are live, by how far the two threads are
BlocksFit(bl, a, v, c) ==
  /\ \A b \in BlockNames : bl[b] # "broken"
  /\ a = "dispatch" => bl["msg"] = "live"
  /\ a \in {"dispatch", "back"} => bl["payload"] = "live" /\ bl["buffer"] = "live"
  /\ a = "done" /\ ~c => bl["payload"] # "live" /\ bl["buffer"] # "live"
  /\ v \in Held => bl["msg"] = "live" /\ bl["request"] = "live"
  /\ v \in {"never", "done"} => bl["msg"] # "live"
  /\ v \notin Held => bl["request"] # "live"

\* what a client can have heard of a request c, to which the vendor said v
Honest(a, c, said) ==
  /\ a.callback = c.method.callback
  /\ a.result = "SUCCESS" => said = [decoded |-> TRUE, result |-> "SUCCESS"]

AnswersFit(as, v, c, said) ==
  \/ as = <<>>
  \/ /\ v \in {"never", "answered", "failed", "done"}
     /\ as = <<as[1]>> /\ Honest(as[1], c, said)

RequestInv ==
  \A r \in Requests :
    /\ Paced(at[r], vendor[r])
    /\ BlocksFit(block[r], at[r], vendor[r], crashed)
    /\ AnswersFit(answers[r], vendor[r], call[r], response[r])

\* the queue holds once what the vendor holds, and tokens tell that apart
QueueInv ==
  /\ IsInjective(pendingResponseQueue)
  /\ \A r \in Requests : r \in Queued <=> WithVendor(r)
  /\ \A q, r \in Requests :
       Outstanding(q) /\ Outstanding(r) /\ q # r =>
         call[q].token # call[r].token \/ call[q].method.id # call[r].method.id

\* The inductive invariant.
IInv == Types /\ RequestInv /\ QueueInv

-----------------------------------------------------------------------------
(***************************************************************************)
(* Results, blocks and the queue.                                          *)
(***************************************************************************)
\* only a success of the vendor is told as one
LEMMA ResultKnown ==
  ASSUME NEW f, NEW p, \A q \in DOMAIN f : f[q] # "SUCCESS", Results(f, p) = "SUCCESS"
  PROVE  p = "SUCCESS"
BY DEF Results

LEMMA JoinHonest ==
  ASSUME NEW f, NEW g, \A q \in DOMAIN f : f[q] # "SUCCESS", \A q \in DOMAIN g : g[q] # "SUCCESS"
  PROVE  \A q \in DOMAIN Join(f, g) : Join(f, g)[q] # "SUCCESS"
BY DEF Join

LEMMA ConvertedHonest ==
  ASSUME NEW id, NEW p, Converted(id, p) = "SUCCESS"
  PROVE  p = "SUCCESS"
<1>1. /\ \A q \in DOMAIN NotReady : NotReady[q] # "SUCCESS"
      /\ \A q \in DOMAIN Off : Off[q] # "SUCCESS"
      /\ \A q \in DOMAIN On : On[q] # "SUCCESS"
      /\ \A q \in DOMAIN Absent : Absent[q] # "SUCCESS"
      /\ \A q \in DOMAIN NoData : NoData[q] # "SUCCESS"
  BY DEF NotReady, Off, On, Absent, NoData
<1>2. CASE id = "APDU"
  <2>1. Results(Join(NotReady, Join(Off, Absent)), p) = "SUCCESS"
    BY <1>2 DEF Converted, convertApduResponseProtoToHal
  <2>2. QED
    BY <1>1, <2>1, JoinHonest, ResultKnown
<1>3. CASE id = "TRANSFER_ATR"
  <2>1. Results(Join(Off, Join(Absent, NoData)), p) = "SUCCESS"
    BY <1>3 DEF Converted, convertTransferAtrResponseProtoToHal
  <2>2. QED
    BY <1>1, <2>1, JoinHonest, ResultKnown
<1>4. CASE id = "POWER"
  <2>1. Results(Join(Absent, Join(Off, On)), p) = "SUCCESS"
    BY <1>4 DEF Converted, convertPowerResponseProtoToHal
  <2>2. QED
    BY <1>1, <2>1, JoinHonest, ResultKnown
<1>5. CASE id = "RESET_SIM"
  <2>1. Results(Join(Absent, Join(NotReady, Off)), p) = "SUCCESS"
    BY <1>5 DEF Converted, convertResetSimResponseProtoToHal
  <2>2. QED
    BY <1>1, <2>1, JoinHonest, ResultKnown
<1>6. CASE id = "TRANSFER_CARD_READER_STATUS"
  <2>1. Results(NoData, p) = "SUCCESS"
    BY <1>6 DEF Converted, convertTransferCardReaderStatusResponseProtoToHal
  <2>2. QED
    BY <1>1, <2>1, ResultKnown
<1>7. CASE id = "SET_TRANSFER_PROTOCOL"
  BY <1>7 DEF Converted, convertSetTransferProtocolResponse
<1>8. CASE id \notin {"APDU", "TRANSFER_ATR", "POWER", "RESET_SIM", "TRANSFER_CARD_READER_STATUS",
                      "SET_TRANSFER_PROTOCOL"}
  BY <1>8 DEF Converted
<1>9. QED
  BY <1>2, <1>3, <1>4, <1>5, <1>6, <1>7, <1>8

LEMMA FailureHonest ==
  ASSUME NEW id
  PROVE  Failure(id) # "SUCCESS"
BY DEF Failure

Blocks == [BlockNames -> {"none", "live", "freed", "broken"}]

LEMMA AllocEach ==
  ASSUME NEW bs
  PROVE  Alloc(bs) \in Blocks /\ \A b \in BlockNames : Alloc(bs)[b] = IF b \in bs THEN "live" ELSE "none"
BY DEF Alloc, Blocks

LEMMA FreedEach ==
  ASSUME NEW bl \in Blocks, NEW bs
  PROVE  /\ FreedOf(bl, bs) \in Blocks
         /\ \A b \in BlockNames :
              FreedOf(bl, bs)[b] =
                IF b \notin bs THEN bl[b] ELSE IF bl[b] = "live" THEN "freed" ELSE "broken"
BY DEF FreedOf, Blocks

LEMMA RemovedAt ==
  ASSUME NEW S, NEW s \in Seq(S), NEW k \in 1 .. Len(s)
  PROVE  /\ RemoveAt(s, k) \in Seq(S) /\ Len(RemoveAt(s, k)) = Len(s) - 1
         /\ \A i \in 1 .. Len(s) - 1 : RemoveAt(s, k)[i] = IF i < k THEN s[i] ELSE s[i + 1]
<1> DEFINE before == SubSeq(s, 1, k - 1)
           m == k + 1
           after == SubSeq(s, m, Len(s))
<1>1. Len(s) \in Nat /\ \A i \in 1 .. Len(s) : s[i] \in S
  BY LenProperties, ElementOfSeq
<1>2. /\ before \in Seq(S) /\ Len(before) = k - 1
      /\ \A i \in 1 .. k - 1 : before[i] = s[i]
  <2>1. \A i \in 1 .. k - 1 : s[i] \in S
    BY <1>1
  <2>2. QED
    BY <1>1, <2>1, SubSeqProperties
<1>3. /\ after \in Seq(S) /\ Len(after) = Len(s) - k
      /\ \A i \in 1 .. Len(s) - k : after[i] = s[k + i]
  <2>1. m \in Int /\ m = k + 1 /\ \A i \in m .. Len(s) : s[i] \in S
    BY <1>1
  <2> HIDE DEF m
  <2>2. /\ after \in Seq(S) /\ Len(after) = IF m =< Len(s) THEN Len(s) - m + 1 ELSE 0
        /\ \A i \in 1 .. Len(s) - m + 1 : after[i] = s[m + i - 1]
    BY <1>1, <2>1, SubSeqProperties
  <2>3. (IF m =< Len(s) THEN Len(s) - m + 1 ELSE 0) = Len(s) - k
    BY <1>1, <2>1
  <2>4. \A i \in 1 .. Len(s) - k : i \in 1 .. Len(s) - m + 1 /\ m + i - 1 = k + i
    BY <1>1, <2>1
  <2> HIDE DEF after
  <2>5. Len(after) = Len(s) - k
    BY <1>1, <2>1, <2>2
  <2>6. \A i \in 1 .. Len(s) - k : after[i] = s[k + i]
    <3> TAKE i \in 1 .. Len(s) - k
    <3>1. i \in 1 .. Len(s) - m + 1 /\ m + i - 1 = k + i
      BY <2>4
    <3>2. QED
      BY <2>2, <3>1
  <2>7. QED
    BY <2>2, <2>5, <2>6
<1> HIDE DEF before, after, m
<1>4. RemoveAt(s, k) = before \o after
  BY DEF RemoveAt, before, after, m
<1>5. /\ before \o after \in Seq(S)
      /\ Len(before \o after) = Len(s) - 1
      /\ \A i \in 1 .. Len(s) - 1 : (before \o after)[i] =
           IF i <= k - 1 THEN before[i] ELSE after[i - (k - 1)]
  <2>1. /\ before \o after \in Seq(S)
        /\ Len(before \o after) = Len(before) + Len(after)
        /\ \A i \in 1 .. Len(before) + Len(after) : (before \o after)[i] =
             IF i <= Len(before) THEN before[i] ELSE after[i - Len(before)]
    BY <1>2, <1>3, ConcatProperties
  <2>2. Len(before) + Len(after) = Len(s) - 1
    BY <1>1, <1>2, <1>3
  <2>3. QED
    BY <1>2, <2>1, <2>2
<1>6. ASSUME NEW i \in 1 .. Len(s) - 1, i >= k
      PROVE  after[i - (k - 1)] = s[i + 1]
  <2>1. i - (k - 1) \in 1 .. Len(s) - k /\ k + (i - (k - 1)) = i + 1
    BY <1>1, <1>6
  <2>2. QED
    BY <1>3, <2>1
<1>7. QED
  BY <1>1, <1>2, <1>4, <1>5, <1>6

LEMMA TypesOf ==
  ASSUME Types
  PROVE  /\ block \in [Requests -> Blocks]
         /\ pendingResponseQueue \in Seq(Requests) /\ Len(pendingResponseQueue) \in Nat
         /\ DOMAIN pendingResponseQueue = 1 .. Len(pendingResponseQueue)
         /\ \A i \in 1 .. Len(pendingResponseQueue) : pendingResponseQueue[i] \in Requests
         /\ Queued = {pendingResponseQueue[i] : i \in 1 .. Len(pendingResponseQueue)}
BY LenProperties, ElementOfSeq DEF Types, TypeOK, Blocks, Queued, ToSet

\* a request that completes finds itself in the queue
LEMMA Dequeued ==
  ASSUME IInv, NEW r \in Requests, WithVendor(r)
  PROVE  \E k \in 1 .. Len(pendingResponseQueue) :
           pendingResponseQueue[k] = r /\ checkAndDequeue(r) = {k}
<1>1. /\ DOMAIN pendingResponseQueue = 1 .. Len(pendingResponseQueue)
      /\ Len(pendingResponseQueue) \in Nat
      /\ \A i \in 1 .. Len(pendingResponseQueue) :
           pendingResponseQueue[i] \in Requests /\ pendingResponseQueue[i] \in Queued
      /\ Queued = {pendingResponseQueue[i] : i \in 1 .. Len(pendingResponseQueue)}
  BY TypesOf DEF IInv
<1>2. PICK k \in 1 .. Len(pendingResponseQueue) : pendingResponseQueue[k] = r
  BY <1>1 DEF IInv, QueueInv
<1>3. \A q \in Requests : WithVendor(q) => Outstanding(q)
  BY DEF IInv, RequestInv, Paced, WithVendor, Outstanding
<1>4. \A i \in 1 .. Len(pendingResponseQueue) : Matches(r, i) <=> i = k
  <2>1. Matches(r, k)
    BY <1>2 DEF Matches
  <2>2. ASSUME NEW i \in 1 .. Len(pendingResponseQueue), Matches(r, i)
        PROVE  i = k
    <3> DEFINE q == pendingResponseQueue[i]
    <3>1. q \in Requests /\ Outstanding(q) /\ Outstanding(r)
      BY <1>1, <1>3 DEF IInv, QueueInv
    <3>2. call[q].token = call[r].token /\ call[q].method.id = call[r].method.id
      BY <2>2 DEF Matches
    <3>3. q = r
      BY <3>1, <3>2 DEF IInv, QueueInv
    <3>4. QED
      BY <1>1, <1>2, <3>3 DEF IInv, QueueInv, IsInjective
  <2>3. QED
    BY <2>1, <2>2
<1>5. {i \in DOMAIN pendingResponseQueue : Matches(r, i)} = {k}
  BY <1>1, <1>2, <1>4
<1>6. (CHOOSE i \in {k} : \A j \in {k} : i =< j) = k
  BY <1>1
<1>7. checkAndDequeue(r) = {k}
  BY <1>5, <1>6 DEF checkAndDequeue
<1>8. QED
  BY <1>2, <1>7

-----------------------------------------------------------------------------
(***************************************************************************)
(* The steps.                                                              *)
(***************************************************************************)
\* a step of one request leaves the others as they are
LEMMA OneRequest ==
  ASSUME IInv, ~crashed, NEW r \in Requests,
         \A q \in Requests \ {r} :
           /\ at'[q] = at[q] /\ vendor'[q] = vendor[q] /\ call'[q] = call[q]
           /\ block'[q] = block[q] /\ response'[q] = response[q] /\ answers'[q] = answers[q],
         Paced(at'[r], vendor'[r]),
         BlocksFit(block'[r], at'[r], vendor'[r], crashed'),
         AnswersFit(answers'[r], vendor'[r], call'[r], response'[r])
  PROVE  RequestInv'
<1> SUFFICES ASSUME NEW q \in Requests
             PROVE  /\ Paced(at'[q], vendor'[q])
                    /\ BlocksFit(block'[q], at'[q], vendor'[q], crashed')
                    /\ AnswersFit(answers'[q], vendor'[q], call'[q], response'[q])
  BY Zenon DEF RequestInv
<1>1. CASE q = r
  BY <1>1
<1>2. CASE q # r
  <2>1. /\ Paced(at[q], vendor[q])
        /\ BlocksFit(block[q], at[q], vendor[q], FALSE)
        /\ AnswersFit(answers[q], vendor[q], call[q], response[q])
    BY DEF IInv, RequestInv, BlocksFit
  <2>2. BlocksFit(block[q], at[q], vendor[q], crashed')
    BY <2>1 DEF BlocksFit
  <2>3. /\ at'[q] = at[q] /\ vendor'[q] = vendor[q] /\ call'[q] = call[q]
        /\ block'[q] = block[q] /\ response'[q] = response[q] /\ answers'[q] = answers[q]
    BY <1>2
  <2>4. QED
    BY <2>1, <2>2, <2>3, Zenon
<1>3. QED
  BY <1>1, <1>2

\* a step that changes neither the queue nor what the vendor holds
LEMMA SameQueue ==
  ASSUME IInv, pendingResponseQueue' = pendingResponseQueue,
         \A q \in Requests : /\ WithVendor(q)' <=> WithVendor(q)
                             /\ Outstanding(q)' => Outstanding(q) /\ call'[q] = call[q]
  PROVE  QueueInv'
<1>1. Queued' = Queued
  BY DEF Queued
<1>2. \A q, r \in Requests :
        Outstanding(q)' /\ Outstanding(r)' /\ q # r =>
          call'[q].token # call'[r].token \/ call'[q].method.id # call'[r].method.id
  BY DEF IInv, QueueInv
<1>3. QED
  BY <1>1, <1>2 DEF IInv, QueueInv

\* steps of the clients and of the vendor's indications
LEMMA ClientStep ==
  ASSUME IInv, setCallback \/ ClientDies
               \/ \E id \in Indications, decoded \in BOOLEAN : onUnsolicitedResponse(id, decoded)
  PROVE  IInv'
<1>1. /\ UNCHANGED <<socket, at, vendor, call, block, pendingResponseQueue, response, answers, crashed>>
      /\ alive' \in BOOLEAN /\ client' \in 0 .. MaxClients /\ callback' \in 0 .. MaxClients
  <2>1. /\ alive \in BOOLEAN /\ client \in 0 .. MaxClients /\ callback \in 0 .. MaxClients
        /\ MaxClients \in Nat
    BY ClientsBound DEF IInv, Types, TypeOK
  <2>2. CASE setCallback
    BY <2>1, <2>2 DEF setCallback
  <2>3. CASE ClientDies
    BY <2>1, <2>3 DEF ClientDies
  <2>4. CASE \E id \in Indications, decoded \in BOOLEAN : onUnsolicitedResponse(id, decoded)
    BY <2>1, <2>4 DEF onUnsolicitedResponse
  <2>5. QED
    BY <2>2, <2>3, <2>4
<1>2. Types'
  BY <1>1 DEF IInv, Types, TypeOK
<1>3. RequestInv'
  BY <1>1 DEF IInv, RequestInv
<1>4. QueueInv'
  BY <1>1, SameQueue DEF WithVendor, Outstanding
<1>5. QED
  BY <1>2, <1>3, <1>4 DEF IInv

LEMMA HeardOnce ==
  ASSUME Types, NEW r \in Requests, NEW a, answers[r] = <<>>, answers' \in {answers, Hear(r, a)}
  PROVE  /\ answers' = [q \in Requests |-> answers'[q]]
         /\ \A q \in Requests \ {r} : answers'[q] = answers[q]
         /\ answers'[r] = <<>> \/ answers'[r] = <<a>>
<1>1. answers = [q \in Requests |-> answers[q]]
  BY DEF Types
<1>2. answers' = answers \/ answers' = [answers EXCEPT ![r] = Append(@, a)]
  BY DEF Hear
<1>3. CASE answers' = answers
  BY <1>1, <1>3
<1>4. CASE answers' = [answers EXCEPT ![r] = Append(@, a)]
  <2>1. answers' = [q \in Requests |-> IF q = r THEN Append(answers[q], a) ELSE answers[q]]
    BY <1>1, <1>4
  <2>2. answers'[r] = Append(<<>>, a)
    BY <2>1
  <2>3. Append(<<>>, a) = <<a>>
    OBVIOUS
  <2>4. answers' = [q \in Requests |-> answers'[q]]
    BY <2>1
  <2>5. QED
    BY <2>1, <2>2, <2>3, <2>4
<1>5. QED
  BY <1>2, <1>3, <1>4

\* sendFailedResponse, for a request of which nothing was heard
LEMMA FailedAnswer ==
  ASSUME IInv, ~crashed, NEW r \in Requests, NEW m, at[r] = "none", sendFailedResponse(r, m),
         call'[r].method = m
  PROVE  /\ crashed' \in BOOLEAN /\ callback' \in 0 .. MaxClients
         /\ answers' = [q \in Requests |-> answers'[q]]
         /\ \A q \in Requests \ {r} : answers'[q] = answers[q]
         /\ AnswersFit(answers'[r], "never", call'[r], response[r])
<1> DEFINE a == Answer(m, Failure(m.id))
<1>1. answers[r] = <<>>
  BY DEF IInv, RequestInv, Paced, AnswersFit
<1>2. answers' \in {answers, Hear(r, a)}
  BY DEF sendFailedResponse
<1>3. /\ a.callback = m.callback /\ a.result # "SUCCESS"
  BY FailureHonest DEF Answer
<1> HIDE DEF a
<1>4. /\ answers' = [q \in Requests |-> answers'[q]]
      /\ \A q \in Requests \ {r} : answers'[q] = answers[q]
      /\ answers'[r] = <<>> \/ answers'[r] = <<a>>
  BY <1>1, <1>2, HeardOnce DEF IInv
<1>5. AnswersFit(answers'[r], "never", call'[r], response[r])
  <2>1. CASE answers'[r] = <<>>
    BY <2>1 DEF AnswersFit
  <2>2. CASE answers'[r] = <<a>>
    <3>1. answers'[r][1] = a
      BY <2>2
    <3>2. QED
      BY <1>3, <2>2, <3>1 DEF AnswersFit, Honest
  <2>3. QED
    BY <1>4, <2>1, <2>2
<1>6. crashed' \in BOOLEAN /\ callback' \in 0 .. MaxClients
  BY ClientsBound DEF sendFailedResponse, IInv, Types, TypeOK
<1>7. QED
  BY <1>4, <1>5, <1>6

\* a method's request that is refused, or that is handed to the socket
LEMMA NewRequest ==
  ASSUME IInv, NEW r \in Requests, NEW m \in Methods, NEW t \in Tokens,
         Going, at[r] = "none", Fresh(m, t),
         call' = [call EXCEPT ![r] = [method |-> m, token |-> t]],
         NEW bl \in Blocks, block' = [block EXCEPT ![r] = bl],
         UNCHANGED <<socket, client, alive, pendingResponseQueue, response>>,
         \/ /\ at' = [at EXCEPT ![r] = "dispatch"] /\ bl["request"] = "none"
            /\ bl["msg"] = "live" /\ bl["payload"] = "live" /\ bl["buffer"] = "live"
            /\ \A b \in BlockNames : bl[b] # "broken"
            /\ UNCHANGED <<callback, vendor, answers, crashed>>
         \/ /\ at' = [at EXCEPT ![r] = "done"] /\ vendor' = [vendor EXCEPT ![r] = "never"]
            /\ \A b \in BlockNames : bl[b] # "broken" /\ (b # "command" => bl[b] # "live")
            /\ sendFailedResponse(r, m)
  PROVE  IInv'
<1>1. Types /\ ~crashed /\ vendor[r] = "none"
  BY DEF IInv, RequestInv, Paced, Going
<1>2. m \in AllMethods
  BY MethodsKnown
<1>3. /\ call'[r] = [method |-> m, token |-> t] /\ block'[r] = bl
      /\ \A q \in Requests \ {r} : call'[q] = call[q] /\ block'[q] = block[q]
      /\ call' \in [Requests -> [method : AllMethods, token : Tokens]] /\ block' \in [Requests -> Blocks]
  BY <1>1, <1>2 DEF Types, TypeOK, Blocks
<1>4. /\ \A q \in Requests \ {r} : at'[q] = at[q] /\ vendor'[q] = vendor[q]
      /\ at' \in [Requests -> {"none", "dispatch", "back", "done"}]
      /\ vendor' \in [Requests -> {"none", "never", "asked", "processing", "calling", "failed",
                                   "answered", "done"}]
      /\ \/ at'[r] = "dispatch" /\ vendor'[r] = "none"
         \/ at'[r] = "done" /\ vendor'[r] = "never"
  <2>1. /\ at \in [Requests -> {"none", "dispatch", "back", "done"}]
        /\ vendor \in [Requests -> {"none", "never", "asked", "processing", "calling", "failed",
                                   "answered", "done"}]
    BY <1>1 DEF Types, TypeOK
  <2>2. CASE at' = [at EXCEPT ![r] = "dispatch"] /\ vendor' = vendor
    BY <1>1, <2>1, <2>2
  <2>3. CASE at' = [at EXCEPT ![r] = "done"] /\ vendor' = [vendor EXCEPT ![r] = "never"]
    BY <2>1, <2>3
  <2>4. QED
    BY <2>2, <2>3
<1>5. /\ crashed' \in BOOLEAN /\ callback' \in 0 .. MaxClients
      /\ answers' = [q \in Requests |-> answers'[q]]
      /\ \A q \in Requests \ {r} : answers'[q] = answers[q]
      /\ AnswersFit(answers'[r], vendor'[r], call'[r], response[r])
  <2>1. CASE answers' = answers /\ callback' = callback /\ crashed' = crashed
    <3>1. answers[r] = <<>>
      BY <1>1 DEF IInv, RequestInv, AnswersFit
    <3>2. QED
      BY <1>1, <2>1, <3>1 DEF Types, TypeOK, AnswersFit
  <2>2. CASE vendor' = [vendor EXCEPT ![r] = "never"] /\ sendFailedResponse(r, m)
    <3>1. call'[r].method = m /\ vendor'[r] = "never"
      BY <1>1, <1>3, <2>2 DEF Types, TypeOK
    <3>2. QED
      BY <1>1, <2>2, <3>1, FailedAnswer
  <2>3. QED
    BY <2>1, <2>2
<1>6. BlocksFit(block'[r], at'[r], vendor'[r], crashed')
  <2>1. CASE at'[r] = "dispatch" /\ vendor'[r] = "none"
    <3>1. at' # [at EXCEPT ![r] = "done"]
      BY <1>1, <2>1 DEF Types, TypeOK
    <3>2. /\ bl["request"] = "none" /\ bl["msg"] = "live" /\ bl["payload"] = "live"
          /\ bl["buffer"] = "live" /\ \A b \in BlockNames : bl[b] # "broken"
      BY <3>1
    <3>3. QED
      BY <1>3, <2>1, <3>2 DEF BlocksFit, Held
  <2>2. CASE at'[r] = "done" /\ vendor'[r] = "never"
    BY <1>1, <1>3, <2>2 DEF BlocksFit, BlockNames, Held
  <2>3. QED
    BY <1>4, <2>1, <2>2
<1>7. Paced(at'[r], vendor'[r])
  BY <1>4 DEF Paced
<1>8. RequestInv'
  BY <1>1, <1>3, <1>4, <1>5, <1>6, <1>7, OneRequest
<1>9. Types'
  BY <1>1, <1>3, <1>4, <1>5 DEF Types, TypeOK, Blocks
<1>10. QueueInv'
  <2>1. \A q \in Requests : WithVendor(q)' <=> WithVendor(q)
    BY <1>1, <1>4 DEF WithVendor
  <2>2. \A q \in Requests \ {r} : Outstanding(q)' => Outstanding(q) /\ call'[q] = call[q]
    BY <1>3, <1>4 DEF Outstanding
  <2>3. \A q \in Requests \ {r} : Outstanding(q)' =>
          call'[q].token # call'[r].token \/ call'[q].method.id # call'[r].method.id
    BY <1>3, <2>2 DEF Fresh
  <2>4. \A p, q \in Requests : Outstanding(p)' /\ Outstanding(q)' /\ p # q =>
          call'[p].token # call'[q].token \/ call'[p].method.id # call'[q].method.id
    <3> TAKE p, q \in Requests
    <3>1. CASE p = r \/ q = r
      BY <2>3, <3>1
    <3>2. CASE p # r /\ q # r
      BY <2>2, <3>2 DEF IInv, QueueInv
    <3>3. QED
      BY <3>1, <3>2
  <2>5. Queued' = Queued
    BY DEF Queued
  <2>6. QED
    BY <2>1, <2>4, <2>5 DEF IInv, QueueInv
<1>11. QED
  BY <1>8, <1>9, <1>10 DEF IInv

LEMMA RefuseStep ==
  ASSUME IInv, NEW r \in Requests, NEW m \in Methods, NEW t \in Tokens,
         NEW refusal \in Refusals(m), Refuse(r, m, t, refusal)
  PROVE  IInv'
<1> DEFINE bl == FreedOf(Alloc(refusal.has), refusal.frees)
<1>1. refusal.frees \subseteq refusal.has /\ refusal.has \subseteq refusal.frees \cup {"command"}
  BY DEF Refusals
<1>2. bl \in Blocks /\ \A b \in BlockNames : bl[b] # "broken" /\ (b # "command" => bl[b] # "live")
  <2>1. /\ Alloc(refusal.has) \in Blocks
        /\ \A b \in BlockNames :
             Alloc(refusal.has)[b] = IF b \in refusal.has THEN "live" ELSE "none"
    BY AllocEach
  <2>2. bl \in Blocks /\ \A b \in BlockNames :
          bl[b] = IF b \notin refusal.frees THEN Alloc(refusal.has)[b]
                  ELSE IF Alloc(refusal.has)[b] = "live" THEN "freed" ELSE "broken"
    BY <2>1, FreedEach
  <2> HIDE DEF bl
  <2>3. QED
    BY <1>1, <2>1, <2>2
<1> HIDE DEF bl
<1>3. /\ Going /\ at[r] = "none" /\ Fresh(m, t)
      /\ call' = [call EXCEPT ![r] = [method |-> m, token |-> t]]
      /\ block' = [block EXCEPT ![r] = bl]
      /\ UNCHANGED <<socket, client, alive, pendingResponseQueue, response>>
      /\ at' = [at EXCEPT ![r] = "done"] /\ vendor' = [vendor EXCEPT ![r] = "never"]
      /\ sendFailedResponse(r, m)
  BY DEF Refuse, bl
<1>4. QED
  BY <1>2, <1>3, NewRequest

LEMMA AddPayloadStep ==
  ASSUME IInv, NEW r \in Requests, NEW m \in Methods, NEW t \in Tokens,
         addPayloadAndDispatchRequest(r, m, t)
  PROVE  IInv'
<1> DEFINE has == {"msg", "buffer", "payload"} \cup IF m.command THEN {"command"} ELSE {}
           gone == {"msg", "buffer", "payload"}
           new == Alloc(has)
<1>1. new \in Blocks /\ \A b \in BlockNames : new[b] = IF b \in has THEN "live" ELSE "none"
  BY AllocEach
<1> HIDE DEF new
<1>2. /\ FreedOf(new, gone) \in Blocks
      /\ \A b \in BlockNames : FreedOf(new, gone)[b] =
           IF b \notin gone THEN new[b] ELSE IF new[b] = "live" THEN "freed" ELSE "broken"
  BY <1>1, FreedEach, Zenon
<1>3. /\ Going /\ at[r] = "none" /\ Fresh(m, t)
      /\ call' = [call EXCEPT ![r] = [method |-> m, token |-> t]]
      /\ UNCHANGED <<socket, client, alive, pendingResponseQueue, response>>
  BY DEF addPayloadAndDispatchRequest
<1>4. CASE /\ block' = [block EXCEPT ![r] = new]
           /\ at' = [at EXCEPT ![r] = "dispatch"]
           /\ UNCHANGED <<callback, vendor, answers, crashed>>
  <2> DEFINE bl == new
  <2>1. /\ bl["request"] = "none" /\ bl["msg"] = "live" /\ bl["payload"] = "live"
        /\ bl["buffer"] = "live" /\ \A b \in BlockNames : bl[b] # "broken"
    BY <1>1 DEF BlockNames
  <2> HIDE DEF bl
  <2>2. bl \in Blocks /\ block' = [block EXCEPT ![r] = bl]
    BY <1>1, <1>4 DEF bl
  <2>3. QED
    BY <1>3, <1>4, <2>1, <2>2, NewRequest
<1>5. CASE /\ block' = [block EXCEPT ![r] = FreedOf(new, gone)]
           /\ at' = [at EXCEPT ![r] = "done"] /\ vendor' = [vendor EXCEPT ![r] = "never"]
           /\ sendFailedResponse(r, m)
  <2> DEFINE bl == FreedOf(new, gone)
  <2>1. \A b \in BlockNames : bl[b] # "broken" /\ (b # "command" => bl[b] # "live")
    BY <1>1, <1>2 DEF BlockNames
  <2> HIDE DEF bl
  <2>2. bl \in Blocks /\ block' = [block EXCEPT ![r] = bl]
    BY <1>2, <1>5 DEF bl
  <2>3. QED
    BY <1>3, <1>5, <2>1, <2>2, NewRequest
<1>6. QED
  BY <1>4, <1>5 DEF addPayloadAndDispatchRequest, new

AtSet == {"none", "dispatch", "back", "done"}
VendorSet == {"none", "never", "asked", "processing", "calling", "failed", "answered", "done"}

\* the types that the steps of the two threads rely on
LEMMA ThreadTypes ==
  ASSUME Types
  PROVE  /\ at \in [Requests -> AtSet] /\ vendor \in [Requests -> VendorSet]
         /\ block \in [Requests -> Blocks] /\ crashed \in BOOLEAN
         /\ \A r \in Requests : at[r] \in AtSet /\ vendor[r] \in VendorSet /\ block[r] \in Blocks
BY DEF Types, TypeOK, AtSet, VendorSet, Blocks

LEMMA DispatchStep ==
  ASSUME IInv, NEW r \in Requests, dispatchRequest(r)
  PROVE  IInv'
<1> USE DEF AtSet, VendorSet
<1>1. /\ ~crashed /\ at[r] = "dispatch" /\ vendor[r] = "none" /\ Types
      /\ at' = [at EXCEPT ![r] = "back"]
      /\ UNCHANGED <<socket, callback, client, alive, call, response, answers, crashed>>
  BY DEF dispatchRequest, Going, clientVars, IInv, RequestInv, Paced
<1>2. /\ at \in [Requests -> AtSet] /\ vendor \in [Requests -> VendorSet]
      /\ block \in [Requests -> Blocks] /\ block[r] \in Blocks
  BY <1>1, ThreadTypes
<1>3. /\ at' \in [Requests -> AtSet] /\ at'[r] = "back"
      /\ \A q \in Requests \ {r} : at'[q] = at[q]
  BY <1>1, <1>2
<1>4. BlocksFit(block[r], "dispatch", "none", FALSE) /\ answers[r] = <<>>
  BY <1>1 DEF IInv, RequestInv, AnswersFit, BlocksFit
<1>5. CASE /\ block' = [block EXCEPT ![r].request = "live"]
           /\ pendingResponseQueue' = enqueue(r)
           /\ vendor' = [vendor EXCEPT ![r] = "asked"]
  <2>1. /\ block' \in [Requests -> Blocks] /\ \A q \in Requests \ {r} : block'[q] = block[q]
        /\ \A b \in BlockNames : block'[r][b] = IF b = "request" THEN "live" ELSE block[r][b]
    BY <1>2, <1>5 DEF Blocks
  <2>2. /\ vendor' \in [Requests -> VendorSet] /\ vendor'[r] = "asked"
        /\ \A q \in Requests \ {r} : vendor'[q] = vendor[q]
    BY <1>2, <1>5
  <2>3. BlocksFit(block'[r], at'[r], vendor'[r], crashed')
    BY <1>3, <1>4, <2>1, <2>2 DEF BlocksFit, BlockNames, Held
  <2>4. Paced(at'[r], vendor'[r]) /\ AnswersFit(answers'[r], vendor'[r], call'[r], response'[r])
    BY <1>1, <1>3, <1>4, <2>2 DEF Paced, AnswersFit
  <2>5. RequestInv'
    BY <1>1, <1>3, <2>1, <2>2, <2>3, <2>4, OneRequest
  <2>6. /\ pendingResponseQueue \in Seq(Requests) /\ Len(pendingResponseQueue) \in Nat
        /\ DOMAIN pendingResponseQueue = 1 .. Len(pendingResponseQueue)
        /\ \A i \in 1 .. Len(pendingResponseQueue) :
             pendingResponseQueue[i] \in Requests /\ pendingResponseQueue[i] # r
        /\ Queued = {pendingResponseQueue[i] : i \in 1 .. Len(pendingResponseQueue)}
    <3>1. r \notin Queued
      BY <1>1 DEF IInv, QueueInv, WithVendor
    <3>2. QED
      BY <1>1, <3>1, TypesOf
  <2>7. /\ pendingResponseQueue' \in Seq(Requests)
        /\ DOMAIN pendingResponseQueue' = 1 .. Len(pendingResponseQueue) + 1
        /\ \A i \in 1 .. Len(pendingResponseQueue) + 1 :
             pendingResponseQueue'[i] = IF i = 1 THEN r ELSE pendingResponseQueue[i - 1]
    <3>1. <<r>> \in Seq(Requests) /\ Len(<<r>>) = 1 /\ <<r>>[1] = r
      OBVIOUS
    <3>2. /\ <<r>> \o pendingResponseQueue \in Seq(Requests)
          /\ Len(<<r>> \o pendingResponseQueue) = 1 + Len(pendingResponseQueue)
          /\ \A i \in 1 .. 1 + Len(pendingResponseQueue) : (<<r>> \o pendingResponseQueue)[i] =
               IF i <= 1 THEN r ELSE pendingResponseQueue[i - 1]
      BY <2>6, <3>1, ConcatProperties
    <3>3. QED
      BY <1>5, <2>6, <3>2, LenProperties DEF enqueue
  <2>8. IsInjective(pendingResponseQueue')
    <3> SUFFICES ASSUME NEW i \in 1 .. Len(pendingResponseQueue) + 1,
                        NEW j \in 1 .. Len(pendingResponseQueue) + 1,
                        pendingResponseQueue'[i] = pendingResponseQueue'[j]
                 PROVE  i = j
      BY <2>7 DEF IsInjective
    <3>1. \A a, b \in 1 .. Len(pendingResponseQueue) :
            pendingResponseQueue[a] = pendingResponseQueue[b] => a = b
      BY <2>6 DEF IInv, QueueInv, IsInjective
    <3>2. QED
      BY <2>6, <2>7, <3>1
  <2>9. Queued' = Queued \cup {r}
    <3>1. \A i \in 1 .. Len(pendingResponseQueue) :
            /\ i + 1 \in 1 .. Len(pendingResponseQueue) + 1
            /\ pendingResponseQueue'[i + 1] = pendingResponseQueue[i]
      BY <2>6, <2>7
    <3>2. 1 \in 1 .. Len(pendingResponseQueue) + 1 /\ pendingResponseQueue'[1] = r
      BY <2>6, <2>7
    <3>3. \A i \in 1 .. Len(pendingResponseQueue) + 1 :
            \/ pendingResponseQueue'[i] = r
            \/ /\ i - 1 \in 1 .. Len(pendingResponseQueue)
               /\ pendingResponseQueue'[i] = pendingResponseQueue[i - 1]
      BY <2>6, <2>7
    <3>4. \A q \in Queued' : q \in Queued \cup {r}
      BY <2>6, <2>7, <3>3 DEF Queued, ToSet
    <3>5. r \in Queued' /\ \A q \in Queued : q \in Queued'
      <4>1. \A i \in 1 .. Len(pendingResponseQueue) + 1 : pendingResponseQueue'[i] \in Queued'
        BY <2>7 DEF Queued, ToSet
      <4>2. QED
        BY <2>6, <3>1, <3>2, <4>1
    <3>6. QED
      BY <3>4, <3>5
  <2>10. QueueInv'
    <3>1. \A q \in Requests : q \in Queued' <=> WithVendor(q)'
      BY <2>2, <2>9 DEF IInv, QueueInv, WithVendor
    <3>2. \A q \in Requests : Outstanding(q)' => Outstanding(q) /\ call'[q] = call[q]
      BY <1>1, <1>3, <2>2 DEF Outstanding
    <3>3. QED
      BY <2>8, <3>1, <3>2 DEF IInv, QueueInv
  <2>11. Types'
    BY <1>1, <1>3, <2>1, <2>2, <2>6, <2>7 DEF Types, TypeOK, Blocks
  <2>12. QED
    BY <2>5, <2>10, <2>11 DEF IInv
<1>6. CASE /\ block' = [block EXCEPT ![r] = FreedOf(@, {"msg"})]
           /\ vendor' = [vendor EXCEPT ![r] = "never"]
           /\ UNCHANGED pendingResponseQueue
  <2>1. /\ FreedOf(block[r], {"msg"}) \in Blocks
        /\ \A b \in BlockNames : FreedOf(block[r], {"msg"})[b] =
             IF b \notin {"msg"} THEN block[r][b] ELSE IF block[r][b] = "live" THEN "freed" ELSE "broken"
    BY <1>2, FreedEach
  <2>2. /\ block' \in [Requests -> Blocks] /\ \A q \in Requests \ {r} : block'[q] = block[q]
        /\ block'[r] = FreedOf(block[r], {"msg"})
    BY <1>2, <1>6, <2>1
  <2>3. /\ vendor' \in [Requests -> VendorSet] /\ vendor'[r] = "never"
        /\ \A q \in Requests \ {r} : vendor'[q] = vendor[q]
    BY <1>2, <1>6
  <2>4. BlocksFit(block'[r], at'[r], vendor'[r], crashed')
    BY <1>3, <1>4, <2>1, <2>2, <2>3 DEF BlocksFit, BlockNames, Held
  <2>5. Paced(at'[r], vendor'[r]) /\ AnswersFit(answers'[r], vendor'[r], call'[r], response'[r])
    BY <1>1, <1>3, <1>4, <2>3 DEF Paced, AnswersFit
  <2>6. RequestInv'
    BY <1>1, <1>3, <2>2, <2>3, <2>4, <2>5, OneRequest
  <2>7. QueueInv'
    <3>1. \A q \in Requests : WithVendor(q)' <=> WithVendor(q)
      BY <1>1, <2>3 DEF WithVendor
    <3>2. \A q \in Requests : Outstanding(q)' => Outstanding(q) /\ call'[q] = call[q]
      BY <1>1, <1>3, <2>3 DEF Outstanding
    <3>3. QED
      BY <1>6, <3>1, <3>2, SameQueue
  <2>8. Types'
    BY <1>1, <1>3, <1>6, <2>2, <2>3 DEF Types, TypeOK, Blocks
  <2>9. QED
    BY <2>6, <2>7, <2>8 DEF IInv
<1>7. QED
  BY <1>5, <1>6 DEF dispatchRequest

LEMMA FreePayloadStep ==
  ASSUME IInv, NEW r \in Requests, FreePayload(r)
  PROVE  IInv'
<1> USE DEF AtSet, VendorSet
<1>1. /\ ~crashed /\ at[r] = "back" /\ vendor[r] # "none" /\ Types
      /\ at' = [at EXCEPT ![r] = "done"]
      /\ UNCHANGED <<socket, callback, client, alive, vendor, call, pendingResponseQueue,
                     response, answers>>
  BY DEF FreePayload, Going, clientVars, IInv, RequestInv, Paced
<1>2. /\ at \in [Requests -> AtSet] /\ block \in [Requests -> Blocks] /\ block[r] \in Blocks
      /\ crashed \in BOOLEAN
  BY <1>1, ThreadTypes
<1>3. /\ at' \in [Requests -> AtSet] /\ at'[r] = "done"
      /\ \A q \in Requests \ {r} : at'[q] = at[q]
  BY <1>1, <1>2
<1>4. /\ BlocksFit(block[r], "back", vendor[r], FALSE)
      /\ AnswersFit(answers[r], vendor[r], call[r], response[r])
  BY <1>1 DEF IInv, RequestInv, BlocksFit
<1>5. /\ block' \in [Requests -> Blocks] /\ \A q \in Requests \ {r} : block'[q] = block[q]
      /\ crashed' \in BOOLEAN /\ BlocksFit(block'[r], "done", vendor[r], crashed')
  <2>1. CASE /\ block' = [block EXCEPT ![r] = FreedOf(@, {"payload", "buffer"})]
             /\ UNCHANGED crashed
    <3>1. /\ FreedOf(block[r], {"payload", "buffer"}) \in Blocks
          /\ \A b \in BlockNames : FreedOf(block[r], {"payload", "buffer"})[b] =
               IF b \notin {"payload", "buffer"} THEN block[r][b]
               ELSE IF block[r][b] = "live" THEN "freed" ELSE "broken"
      BY <1>2, FreedEach
    <3>2. /\ block' \in [Requests -> Blocks] /\ \A q \in Requests \ {r} : block'[q] = block[q]
          /\ block'[r] = FreedOf(block[r], {"payload", "buffer"})
      BY <1>2, <2>1, <3>1
    <3>3. BlocksFit(block'[r], "done", vendor[r], crashed')
      BY <1>4, <3>1, <3>2 DEF BlocksFit, BlockNames, Held
    <3>4. QED
      BY <1>1, <1>2, <2>1, <3>2, <3>3
  <2>2. CASE crashed' = TRUE /\ UNCHANGED block
    BY <1>2, <1>4, <2>2 DEF BlocksFit
  <2>3. QED
    BY <2>1, <2>2 DEF FreePayload
<1>6. RequestInv'
  <2>1. Paced(at'[r], vendor'[r])
    BY <1>1, <1>3 DEF Paced
  <2>2. QED
    BY <1>1, <1>3, <1>4, <1>5, <2>1, OneRequest
<1>7. QueueInv'
  BY <1>1, <1>3, SameQueue DEF WithVendor, Outstanding
<1>8. Types'
  BY <1>1, <1>3, <1>5 DEF Types, TypeOK, Blocks
<1>9. QED
  BY <1>6, <1>7, <1>8 DEF IInv

\* a step of the vendor's thread with a request that it keeps: of the blocks
\* it touches at most the decoded response
LEMMA VendorKeeps ==
  ASSUME IInv, ~crashed, NEW r \in Requests, vendor[r] \in Held, NEW v \in Held,
         vendor' = [vendor EXCEPT ![r] = v],
         UNCHANGED <<socket, client, alive, at, call, pendingResponseQueue>>,
         block' = block \/ block' = [block EXCEPT ![r].decoded = "live"],
         callback' \in 0 .. MaxClients, crashed' \in BOOLEAN,
         response' \in [Requests -> [decoded : BOOLEAN, result : VendorResults \cup {"none"}]],
         answers' = [q \in Requests |-> answers'[q]],
         \A q \in Requests \ {r} : response'[q] = response[q] /\ answers'[q] = answers[q],
         AnswersFit(answers'[r], v, call[r], response'[r])
  PROVE  IInv'
<1> USE DEF AtSet, VendorSet, Held
<1>1. Types /\ vendor \in [Requests -> VendorSet]
  BY ThreadTypes DEF IInv
<1>2. /\ vendor' \in [Requests -> VendorSet] /\ vendor'[r] = v
      /\ \A q \in Requests \ {r} : vendor'[q] = vendor[q]
  BY <1>1
<1>3. Paced(at[r], vendor[r]) /\ BlocksFit(block[r], at[r], vendor[r], FALSE)
  BY DEF IInv, RequestInv, BlocksFit
<1>4. /\ block' \in [Requests -> Blocks] /\ \A q \in Requests \ {r} : block'[q] = block[q]
      /\ block'[r]["decoded"] \in {block[r]["decoded"], "live"}
      /\ \A b \in BlockNames \ {"decoded"} : block'[r][b] = block[r][b]
  <2>1. block \in [Requests -> Blocks]
    BY <1>1 DEF Types, TypeOK, Blocks
  <2>2. CASE block' = block
    BY <2>1, <2>2
  <2>3. CASE block' = [block EXCEPT ![r].decoded = "live"]
    <3>1. block'[r] = [block[r] EXCEPT !.decoded = "live"] /\ block[r] \in Blocks
      BY <2>1, <2>3
    <3>2. block'[r] \in Blocks
      BY <3>1 DEF Blocks
    <3>3. block'[r]["decoded"] = "live" /\ \A b \in BlockNames \ {"decoded"} : block'[r][b] = block[r][b]
      BY <3>1 DEF Blocks, BlockNames
    <3>4. QED
      BY <2>1, <2>3, <3>2, <3>3
  <2>4. QED
    BY <2>2, <2>3
<1>5. Paced(at'[r], vendor'[r]) /\ BlocksFit(block'[r], at'[r], vendor'[r], crashed')
  <2>1. Paced(at[r], v)
    BY <1>3 DEF Paced
  <2>2. BlocksFit(block[r], at[r], v, crashed')
    BY <1>3 DEF BlocksFit
  <2>3. BlocksFit(block'[r], at[r], v, crashed')
    BY <1>4, <2>2 DEF BlocksFit, BlockNames
  <2>4. QED
    BY <1>2, <2>1, <2>3, Zenon
<1>6. RequestInv'
  BY <1>2, <1>5, <1>4, OneRequest
<1>7. QueueInv'
  BY <1>2, SameQueue DEF WithVendor, Outstanding
<1>8. Types'
  BY <1>1, <1>2, <1>4 DEF Types, TypeOK, Blocks
<1>9. QED
  BY <1>6, <1>7, <1>8 DEF IInv

LEMMA CompletionStep ==
  ASSUME IInv, NEW r \in Requests,
         onRequestComplete(r) \/ processResponse(r) \/ CallClient(r) \/ checkReturnStatus(r)
  PROVE  IInv'
<1> DEFINE Said == [decoded : BOOLEAN, result : VendorResults \cup {"none"}]
<1>1. /\ Types /\ response \in [Requests -> Said] /\ answers = [q \in Requests |-> answers[q]]
      /\ callback \in 0 .. MaxClients /\ crashed \in BOOLEAN
  BY DEF IInv, Types, TypeOK
<1>2. AnswersFit(answers[r], vendor[r], call[r], response[r])
  BY DEF IInv, RequestInv
<1>3. CASE onRequestComplete(r)
  <2>1. /\ ~crashed /\ vendor[r] = "asked"
        /\ UNCHANGED <<socket, callback, client, alive, at, call, pendingResponseQueue,
                       answers, crashed>>
        /\ block' = block \/ block' = [block EXCEPT ![r].decoded = "live"]
    BY <1>3 DEF onRequestComplete, sapDecodeMessage, Going, clientVars
  <2>2. PICK v \in {"processing", "answered"} : vendor' = [vendor EXCEPT ![r] = v]
    BY <1>3 DEF onRequestComplete
  <2>3. response' \in [Requests -> Said] /\ \A q \in Requests \ {r} : response'[q] = response[q]
    <3>1. CASE UNCHANGED response
      BY <1>1, <3>1
    <3>2. ASSUME NEW p \in VendorResults, sapDecodeMessage(r, p)
          PROVE  response' \in [Requests -> Said] /\ \A q \in Requests \ {r} : response'[q] = response[q]
      <4>1. PICK decoded \in BOOLEAN :
              response' = [response EXCEPT ![r] = [decoded |-> decoded, result |-> p]]
        BY <3>2 DEF sapDecodeMessage
      <4>2. [decoded |-> decoded, result |-> p] \in Said
        OBVIOUS
      <4> HIDE DEF Said
      <4>3. QED
        BY <1>1, <4>1, <4>2
    <3>3. QED
      BY <1>3, <3>1, <3>2 DEF onRequestComplete
  <2>4. answers[r] = <<>>
    BY <1>2, <2>1 DEF AnswersFit
  <2>5. AnswersFit(answers'[r], v, call[r], response'[r])
    BY <2>1, <2>4 DEF AnswersFit
  <2>6. vendor[r] \in Held /\ v \in Held
    BY <2>1 DEF Held
  <2>7. QED
    BY <1>1, <2>1, <2>2, <2>3, <2>5, <2>6, VendorKeeps
<1>4. CASE processResponse(r)
  <2>1. /\ ~crashed /\ vendor[r] = "processing"
        /\ UNCHANGED <<socket, callback, client, alive, at, call, block, pendingResponseQueue,
                       response, answers, crashed>>
    BY <1>4 DEF processResponse, Going, clientVars
  <2>2. PICK v \in {"answered", "calling"} : vendor' = [vendor EXCEPT ![r] = v]
    BY <1>4 DEF processResponse
  <2>3. AnswersFit(answers'[r], v, call[r], response'[r])
    BY <1>2, <2>1 DEF AnswersFit
  <2>4. vendor[r] \in Held /\ v \in Held
    BY <2>1 DEF Held
  <2>5. QED
    BY <1>1, <2>1, <2>2, <2>3, <2>4, VendorKeeps
<1>5. CASE CallClient(r)
  <2> DEFINE a == Answer(call[r].method, IF response[r].decoded
                                         THEN Converted(call[r].method.id, response[r].result)
                                         ELSE Failure(call[r].method.id))
  <2>1. /\ ~crashed /\ vendor[r] = "calling" /\ crashed' \in BOOLEAN
        /\ answers' \in {answers, Hear(r, a)}
        /\ UNCHANGED <<socket, callback, client, alive, at, call, block, pendingResponseQueue, response>>
    BY <1>5 DEF CallClient, Going, clientVars
  <2>2. PICK v \in {"answered", "failed"} : vendor' = [vendor EXCEPT ![r] = v]
    BY <1>5 DEF CallClient
  <2>3. Honest(a, call[r], response[r])
    <3>1. a.callback = call[r].method.callback
      BY DEF Answer
    <3>2. ASSUME a.result = "SUCCESS"
          PROVE  response[r] = [decoded |-> TRUE, result |-> "SUCCESS"]
      <4>1. response[r] \in Said
        BY <1>1
      <4>2. CASE response[r].decoded
        <5>1. Converted(call[r].method.id, response[r].result) = "SUCCESS"
          BY <3>2, <4>2 DEF Answer
        <5>2. response[r].result = "SUCCESS"
          BY <5>1, ConvertedHonest
        <5>3. QED
          BY <4>1, <4>2, <5>2
      <4>3. CASE ~response[r].decoded
        <5>1. Failure(call[r].method.id) = "SUCCESS"
          BY <3>2, <4>3 DEF Answer
        <5>2. QED
          BY <5>1, FailureHonest
      <4>4. QED
        BY <4>2, <4>3
    <3>3. QED
      BY <3>1, <3>2 DEF Honest
  <2> HIDE DEF a
  <2>4. answers[r] = <<>>
    BY <1>2, <2>1 DEF AnswersFit
  <2>5. /\ answers' = [q \in Requests |-> answers'[q]]
        /\ \A q \in Requests \ {r} : answers'[q] = answers[q]
        /\ answers'[r] = <<>> \/ answers'[r] = <<a>>
    BY <1>1, <2>1, <2>4, HeardOnce
  <2>6. AnswersFit(answers'[r], v, call[r], response'[r])
    <3>1. CASE answers'[r] = <<>>
      BY <3>1 DEF AnswersFit
    <3>2. CASE answers'[r] = <<a>>
      <4>1. answers'[r][1] = a /\ response'[r] = response[r]
        BY <2>1, <3>2
      <4>2. QED
        BY <2>3, <3>2, <4>1 DEF AnswersFit
    <3>3. QED
      BY <2>5, <3>1, <3>2
  <2>7. vendor[r] \in Held /\ v \in Held
    BY <2>1 DEF Held
  <2>8. QED
    BY <1>1, <2>1, <2>2, <2>5, <2>6, <2>7, VendorKeeps
<1>6. CASE checkReturnStatus(r)
  <2>1. /\ ~crashed /\ vendor[r] = "failed" /\ callback' = 0
        /\ vendor' = [vendor EXCEPT ![r] = "answered"]
        /\ UNCHANGED <<socket, client, alive, at, call, block, pendingResponseQueue,
                       response, answers, crashed>>
    BY <1>6 DEF checkReturnStatus, Going
  <2>2. AnswersFit(answers'[r], "answered", call[r], response'[r])
    BY <1>2, <2>1 DEF AnswersFit
  <2>3. vendor[r] \in Held /\ "answered" \in Held
    BY <2>1 DEF Held
  <2>4. callback' \in 0 .. MaxClients
    BY <2>1, ClientsBound
  <2>5. QED
    BY <1>1, <2>1, <2>2, <2>3, <2>4, VendorKeeps
<1>7. QED
  BY <1>3, <1>4, <1>5, <1>6

LEMMA DeallocateStep ==
  ASSUME IInv, NEW r \in Requests, Deallocate(r)
  PROVE  IInv'
<1> USE DEF AtSet, VendorSet
<1>1. /\ ~crashed /\ vendor[r] = "answered" /\ Types /\ WithVendor(r)
      /\ vendor' = [vendor EXCEPT ![r] = "done"]
      /\ UNCHANGED <<socket, callback, client, alive, at, call, response, answers, crashed>>
  BY DEF Deallocate, Going, clientVars, IInv, WithVendor
<1>2. /\ vendor \in [Requests -> VendorSet] /\ block \in [Requests -> Blocks]
      /\ \A q \in Requests : block[q] \in Blocks
  BY <1>1, ThreadTypes
<1>3. PICK k \in 1 .. Len(pendingResponseQueue) :
        pendingResponseQueue[k] = r /\ checkAndDequeue(r) = {k}
  BY <1>1, Dequeued
<1>4. /\ pendingResponseQueue' = RemoveAt(pendingResponseQueue, k)
      /\ block' = [q \in Requests |-> FreedOf(block[q], IF q = r THEN {"request", "msg"} ELSE {})]
  <2>1. (CHOOSE i \in {k} : TRUE) = k /\ {pendingResponseQueue[i] : i \in {k}} = {r}
    BY <1>3
  <2>2. /\ pendingResponseQueue' = RemoveAt(pendingResponseQueue, k)
        /\ block' = [q \in Requests |->
             FreedOf(block[q], (IF q \in {r} THEN {"request"} ELSE {}) \cup
                               (IF q = r THEN {"msg"} ELSE {}))]
    BY <1>3, <2>1 DEF Deallocate
  <2>3. \A q : (IF q \in {r} THEN {"request"} ELSE {}) \cup (IF q = r THEN {"msg"} ELSE {})
               = IF q = r THEN {"request", "msg"} ELSE {}
    OBVIOUS
  <2>4. QED
    BY <2>2, <2>3
<1>5. /\ block' \in [Requests -> Blocks] /\ \A q \in Requests \ {r} : block'[q] = block[q]
      /\ \A b \in BlockNames : block'[r][b] =
           IF b \notin {"request", "msg"} THEN block[r][b]
           ELSE IF block[r][b] = "live" THEN "freed" ELSE "broken"
  <2>1. \A q \in Requests : FreedOf(block[q], IF q = r THEN {"request", "msg"} ELSE {}) \in Blocks
    BY <1>2, FreedEach
  <2>2. ASSUME NEW q \in Requests \ {r}
        PROVE  FreedOf(block[q], {}) = block[q]
    BY <1>2 DEF FreedOf, Blocks
  <2>3. /\ block'[r] = FreedOf(block[r], {"request", "msg"})
        /\ \A q \in Requests \ {r} : block'[q] = FreedOf(block[q], {})
    BY <1>4
  <2>4. \A b \in BlockNames : FreedOf(block[r], {"request", "msg"})[b] =
          IF b \notin {"request", "msg"} THEN block[r][b]
          ELSE IF block[r][b] = "live" THEN "freed" ELSE "broken"
    BY <1>2, FreedEach
  <2>5. block' \in [Requests -> Blocks]
    BY <1>4, <2>1
  <2>6. QED
    BY <2>2, <2>3, <2>4, <2>5
<1>6. /\ vendor' \in [Requests -> VendorSet] /\ vendor'[r] = "done"
      /\ \A q \in Requests \ {r} : vendor'[q] = vendor[q]
  BY <1>1, <1>2
<1>7. RequestInv'
  <2>1. /\ Paced(at[r], "answered") /\ BlocksFit(block[r], at[r], "answered", FALSE)
        /\ AnswersFit(answers[r], "answered", call[r], response[r])
    BY <1>1 DEF IInv, RequestInv, BlocksFit
  <2>2. Paced(at'[r], vendor'[r]) /\ AnswersFit(answers'[r], vendor'[r], call'[r], response'[r])
    BY <1>1, <1>6, <2>1 DEF Paced, AnswersFit
  <2>3. BlocksFit(block'[r], at'[r], vendor'[r], crashed')
    <3>1. /\ block[r]["msg"] = "live" /\ block[r]["request"] = "live"
          /\ \A b \in BlockNames : block[r][b] # "broken"
      BY <2>1 DEF BlocksFit, Held
    <3>2. /\ block'[r]["msg"] = "freed" /\ block'[r]["request"] = "freed"
          /\ block'[r]["payload"] = block[r]["payload"] /\ block'[r]["buffer"] = block[r]["buffer"]
          /\ \A b \in BlockNames : block'[r][b] # "broken"
      BY <1>5, <3>1 DEF BlockNames
    <3>3. at'[r] = at[r] /\ vendor'[r] = "done" /\ at[r] # "dispatch"
      BY <1>1, <1>6, <2>1 DEF Paced
    <3>4. QED
      BY <2>1, <3>2, <3>3 DEF BlocksFit, Held
  <2>4. QED
    BY <1>1, <1>5, <1>6, <2>2, <2>3, OneRequest
<1>8. /\ pendingResponseQueue \in Seq(Requests) /\ Len(pendingResponseQueue) \in Nat
      /\ DOMAIN pendingResponseQueue = 1 .. Len(pendingResponseQueue)
      /\ Queued = {pendingResponseQueue[i] : i \in 1 .. Len(pendingResponseQueue)}
      /\ \A i, j \in 1 .. Len(pendingResponseQueue) :
           pendingResponseQueue[i] = pendingResponseQueue[j] => i = j
  BY <1>1, TypesOf DEF IInv, QueueInv, IsInjective
<1>9. /\ pendingResponseQueue' \in Seq(Requests)
      /\ DOMAIN pendingResponseQueue' = 1 .. Len(pendingResponseQueue) - 1
      /\ \A i \in 1 .. Len(pendingResponseQueue) - 1 : pendingResponseQueue'[i] =
           IF i < k THEN pendingResponseQueue[i] ELSE pendingResponseQueue[i + 1]
  <2>1. /\ pendingResponseQueue' \in Seq(Requests)
        /\ Len(pendingResponseQueue') = Len(pendingResponseQueue) - 1
        /\ \A i \in 1 .. Len(pendingResponseQueue) - 1 : pendingResponseQueue'[i] =
             IF i < k THEN pendingResponseQueue[i] ELSE pendingResponseQueue[i + 1]
    BY <1>4, <1>8, RemovedAt
  <2>2. QED
    BY <2>1, LenProperties
<1>10. \A i \in 1 .. Len(pendingResponseQueue) - 1 :
         \/ i < k /\ i \in 1 .. Len(pendingResponseQueue)
            /\ pendingResponseQueue'[i] = pendingResponseQueue[i]
         \/ i >= k /\ i + 1 \in 1 .. Len(pendingResponseQueue)
            /\ pendingResponseQueue'[i] = pendingResponseQueue[i + 1]
  BY <1>8, <1>9
<1>11. IsInjective(pendingResponseQueue')
  <2> SUFFICES ASSUME NEW i \in 1 .. Len(pendingResponseQueue) - 1,
                      NEW j \in 1 .. Len(pendingResponseQueue) - 1,
                      pendingResponseQueue'[i] = pendingResponseQueue'[j]
               PROVE  i = j
    BY <1>9 DEF IsInjective
  <2>1. QED
    BY <1>8, <1>10
<1>12. Queued' = Queued \ {r}
  <2>1. \A q \in Queued' : q \in Queued /\ q # r
    <3>1. \A i \in 1 .. Len(pendingResponseQueue) - 1 :
            pendingResponseQueue'[i] \in Queued /\ pendingResponseQueue'[i] # r
      BY <1>3, <1>8, <1>10
    <3>2. QED
      BY <1>9, <3>1 DEF Queued, ToSet
  <2>2. ASSUME NEW q \in Queued, q # r
        PROVE  q \in Queued'
    <3>1. PICK i \in 1 .. Len(pendingResponseQueue) : q = pendingResponseQueue[i]
      BY <1>8
    <3>2. i # k
      BY <1>3, <2>2, <3>1
    <3>3. \E j \in 1 .. Len(pendingResponseQueue) - 1 : pendingResponseQueue'[j] = q
      <4>1. CASE i < k
        <5>1. i \in 1 .. Len(pendingResponseQueue) - 1 /\ pendingResponseQueue'[i] = q
          BY <1>8, <1>9, <3>1, <4>1
        <5>2. QED
          BY <5>1
      <4>2. CASE i > k
        <5>1. i - 1 \in 1 .. Len(pendingResponseQueue) - 1 /\ ~(i - 1 < k) /\ (i - 1) + 1 = i
          BY <1>8, <4>2
        <5>2. pendingResponseQueue'[i - 1] = q
          BY <1>9, <3>1, <5>1
        <5>3. QED
          BY <5>1, <5>2
      <4>3. QED
        BY <1>8, <3>2, <4>1, <4>2
    <3>4. QED
      BY <1>9, <3>3 DEF Queued, ToSet
  <2>3. QED
    BY <2>1, <2>2
<1>13. QueueInv'
  <2>1. \A q \in Requests : q \in Queued' <=> WithVendor(q)'
    BY <1>6, <1>12 DEF IInv, QueueInv, WithVendor
  <2>2. \A q \in Requests : Outstanding(q)' => Outstanding(q) /\ call'[q] = call[q]
    BY <1>1, <1>6 DEF Outstanding
  <2>3. QED
    BY <1>11, <2>1, <2>2 DEF IInv, QueueInv
<1>14. Types'
  <2>1. \A i \in DOMAIN pendingResponseQueue' : pendingResponseQueue'[i] \in Requests
    BY <1>9, LenProperties, ElementOfSeq
  <2>2. QED
    BY <1>1, <1>5, <1>6, <1>9, <2>1 DEF Types, TypeOK, Blocks
<1>15. QED
  BY <1>7, <1>13, <1>14 DEF IInv

LEMMA Initial == Init => IInv
<1> SUFFICES ASSUME Init
             PROVE  IInv
  OBVIOUS
<1>1. (CHOOSE t \in Tokens : TRUE) \in Tokens
  BY TokensExist
<1>2. NoCall \in [method : AllMethods, token : Tokens]
  BY <1>1 DEF NoCall, AllMethods
<1>3. pendingResponseQueue \in Seq(Requests) /\ DOMAIN pendingResponseQueue = {}
  <2>1. <<>> \in Seq(Requests) /\ DOMAIN <<>> = {}
    BY EmptySeq
  <2>2. QED
    BY <2>1 DEF Init
<1>4. Types
  <2>1. call \in [Requests -> [method : AllMethods, token : Tokens]]
    BY <1>2 DEF Init
  <2>2. block \in [Requests -> [BlockNames -> {"none", "live", "freed", "broken"}]]
    BY DEF Init, NoBlocks
  <2>3. /\ response \in [Requests -> [decoded : BOOLEAN, result : VendorResults \cup {"none"}]]
        /\ \A r \in Requests : response[r].decoded \in BOOLEAN
    BY DEF Init, NoResponse
  <2>4. /\ socket \in BOOLEAN /\ alive \in BOOLEAN /\ crashed \in BOOLEAN
        /\ client \in 0 .. MaxClients /\ callback \in 0 .. MaxClients
    <3>1. 0 \in 0 .. MaxClients
      BY ClientsBound
    <3>2. QED
      BY <3>1, Zenon DEF Init, initSapSocket
  <2>5. answers = [r \in Requests |-> answers[r]]
    BY DEF Init
  <2>6. /\ at \in [Requests -> {"none", "dispatch", "back", "done"}]
        /\ vendor \in [Requests -> {"none", "never", "asked", "processing", "calling", "failed",
                                   "answered", "done"}]
    BY DEF Init
  <2>7. QED
    BY <1>3, <2>1, <2>2, <2>3, <2>4, <2>5, <2>6 DEF Types, TypeOK
<1>5. RequestInv
  <2> SUFFICES ASSUME NEW r \in Requests
               PROVE  /\ Paced(at[r], vendor[r])
                      /\ BlocksFit(block[r], at[r], vendor[r], crashed)
                      /\ AnswersFit(answers[r], vendor[r], call[r], response[r])
    BY DEF RequestInv
  <2>1. /\ at[r] = "none" /\ vendor[r] = "none" /\ answers[r] = <<>>
        /\ \A b \in BlockNames : block[r][b] = "none"
    BY DEF Init, NoBlocks
  <2>2. QED
    BY <2>1 DEF Paced, BlocksFit, AnswersFit, Held, BlockNames
<1>6. QueueInv
  <2>1. Queued = {} /\ IsInjective(pendingResponseQueue)
    BY <1>3 DEF Queued, ToSet, IsInjective
  <2>2. \A r \in Requests : ~WithVendor(r) /\ ~Outstanding(r)
    BY DEF Init, WithVendor, Outstanding
  <2>3. QED
    BY <2>1, <2>2 DEF QueueInv
<1>7. QED
  BY <1>4, <1>5, <1>6 DEF IInv

LEMMA Step == IInv /\ [Next]_vars => IInv'
<1> SUFFICES ASSUME IInv, [Next]_vars
             PROVE  IInv'
  OBVIOUS
<1>1. CASE setCallback \/ ClientDies
           \/ \E id \in Indications, decoded \in BOOLEAN : onUnsolicitedResponse(id, decoded)
  BY <1>1, ClientStep
<1>2. ASSUME NEW r \in Requests, NEW m \in Methods, NEW t \in Tokens,
             NEW refusal \in Refusals(m), Refuse(r, m, t, refusal)
      PROVE  IInv'
  BY <1>2, RefuseStep
<1>3. ASSUME NEW r \in Requests, NEW m \in Methods, NEW t \in Tokens,
             addPayloadAndDispatchRequest(r, m, t)
      PROVE  IInv'
  BY <1>3, AddPayloadStep
<1>4. ASSUME NEW r \in Requests, dispatchRequest(r)
      PROVE  IInv'
  BY <1>4, DispatchStep
<1>5. ASSUME NEW r \in Requests, FreePayload(r)
      PROVE  IInv'
  BY <1>5, FreePayloadStep
<1>6. ASSUME NEW r \in Requests,
             onRequestComplete(r) \/ processResponse(r) \/ CallClient(r) \/ checkReturnStatus(r)
      PROVE  IInv'
  BY <1>6, CompletionStep
<1>7. ASSUME NEW r \in Requests, Deallocate(r)
      PROVE  IInv'
  BY <1>7, DeallocateStep
<1>8. CASE UNCHANGED vars
  <2>1. UNCHANGED <<socket, callback, client, alive, at, vendor, call, block,
                    pendingResponseQueue, response, answers, crashed>>
    BY <1>8 DEF vars, clientVars
  <2>2. Types'
    BY <2>1 DEF IInv, Types, TypeOK
  <2>3. RequestInv'
    BY <2>1 DEF IInv, RequestInv
  <2>4. QueueInv'
    BY <2>1, SameQueue DEF WithVendor, Outstanding
  <2>5. QED
    BY <2>2, <2>3, <2>4 DEF IInv
<1>9. QED
  BY <1>1, <1>2, <1>3, <1>4, <1>5, <1>6, <1>7, <1>8 DEF Next

LEMMA InvariantHolds == Spec => []IInv
BY Initial, Step, PTL DEF Spec

-----------------------------------------------------------------------------
\* Whatever order requests complete in, and whichever of a method's thread and
\* the vendor's thread frees first, the vendor holds live blocks, its request
\* is queued once, no block is freed twice, and message, buffer, payload and
\* request are freed in the end (the copied command and the decoded response
\* are what the code leaks): the token and id that checkAndDequeue compares
\* find the request that completes and no other.
THEOREM HeapAlwaysOwned == Spec => []HeapOwned
<1>1. IInv => HeapOwned
  <2> SUFFICES ASSUME IInv
               PROVE  HeapOwned
    OBVIOUS
  <2>1. TypeOK
    BY DEF IInv, Types
  <2>2. \A r \in Requests : BlocksFit(block[r], at[r], vendor[r], crashed)
    BY DEF IInv, RequestInv
  <2>3. ASSUME NEW r \in Requests, WithVendor(r)
        PROVE  Cardinality({i \in DOMAIN pendingResponseQueue : pendingResponseQueue[i] = r}) = 1
    <3>1. /\ DOMAIN pendingResponseQueue = 1 .. Len(pendingResponseQueue)
          /\ \A i, j \in 1 .. Len(pendingResponseQueue) :
               pendingResponseQueue[i] = pendingResponseQueue[j] => i = j
      BY TypesOf DEF IInv, QueueInv, IsInjective
    <3>2. PICK k \in 1 .. Len(pendingResponseQueue) : pendingResponseQueue[k] = r
      BY <2>3, Dequeued
    <3>3. {i \in DOMAIN pendingResponseQueue : pendingResponseQueue[i] = r} = {k}
      BY <3>1, <3>2
    <3>4. QED
      BY <3>3, FS_Singleton
  <2>4. \A r \in Requests : WithVendor(r) => block[r].msg = "live" /\ block[r].request = "live"
    BY <2>2 DEF BlocksFit, WithVendor, Held
  <2>5. ASSUME ~crashed, NEW r \in Requests, at[r] = "done", ~WithVendor(r),
               NEW b \in BlockNames \ {"command", "decoded"}
        PROVE  block[r][b] # "live"
    <3>1. vendor[r] \in {"never", "done"}
      BY <2>1, <2>5 DEF TypeOK, WithVendor, IInv, RequestInv, Paced
    <3>2. QED
      BY <2>2, <2>5, <3>1 DEF BlocksFit, BlockNames, Held
  <2>6. \A r \in Requests, b \in BlockNames : block[r][b] # "broken"
    BY <2>2 DEF BlocksFit
  <2>7. QED
    BY <2>1, <2>3, <2>4, <2>5, <2>6 DEF HeapOwned
<1>2. QED
  BY <1>1, InvariantHolds, PTL

\* A request is answered at most once, through the callback of its method, and
\* told as a success only if the vendor's response was decoded and said so:
\* sendFailedResponse, processResponse and every conversion of a result.
THEOREM AlwaysAnsweredOwn == Spec => []AnsweredOwn
<1>1. IInv => AnsweredOwn
  <2> SUFFICES ASSUME IInv, NEW r \in Requests
               PROVE  /\ Len(answers[r]) =< 1
                      /\ \A i \in DOMAIN answers[r] : Honest(answers[r][i], call[r], response[r])
    BY DEF AnsweredOwn, Honest
  <2>1. AnswersFit(answers[r], vendor[r], call[r], response[r])
    BY DEF IInv, RequestInv
  <2>2. CASE answers[r] = <<>>
    BY <2>2
  <2>3. CASE answers[r] = <<answers[r][1]>> /\ Honest(answers[r][1], call[r], response[r])
    <3>1. Len(answers[r]) = 1 /\ DOMAIN answers[r] = {1}
      BY <2>3
    <3>2. QED
      BY <2>3, <3>1
  <2>4. QED
    BY <2>1, <2>2, <2>3 DEF AnswersFit
<1>2. QED
  BY <1>1, InvariantHolds, PTL
=============================================================================
