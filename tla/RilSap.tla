-------------------------------- MODULE RilSap --------------------------------
(***************************************************************************)
(* SIM access (sap_service.cpp, RilSapSocket.cpp, rilSocketQueue.h): a     *)
(* method encodes its arguments and hands the message to the vendor's      *)
(* library, which completes it from a thread of its own, possibly before   *)
(* the call into it has returned.  Message, request and payload are heap   *)
(* blocks that the two threads free between them; the client's callback is *)
(* read, called and cleared with no lock.                                  *)
(***************************************************************************)
EXTENDS Integers, Sequences, FiniteSets, SequencesExt

CONSTANTS
  Requests,    \* the calls of the client
  Tokens,      \* the tokens it numbers them with
  Methods,     \* the ISap methods it uses
  VendorResults, \* the results the vendor gives
  Indications, \* the messages the vendor sends on its own
  MaxClients   \* clients that ever connect

ASSUME ClientsBound == MaxClients \in Nat \ {0}
ASSUME TokensExist == Tokens # {}

VARIABLES
  socket,    \* whether the slot has its RilSapSocket
  callback,  \* sapCallback: none, or the number of a client
  client,    \* the client that lives, its number
  alive,
  at,        \* how far the method's thread is
  vendor,    \* how far the vendor's thread is with the completion
  call,      \* method and token of a request
  block,     \* its heap blocks
  pendingResponseQueue,
  response,  \* what the vendor answered
  answers,   \* the answers the client heard
  crashed    \* a NULL callback was used, or a freed message

clientVars == <<callback, client, alive>>
vars == <<socket, clientVars, at, vendor, call, block, pendingResponseQueue, response, answers, crashed>>

(***************************************************************************)
(* The methods.  All encode a message into a buffer; apduReq copies the    *)
(* command first.                                                          *)
(***************************************************************************)
Message(id, callbackName) == [id |-> id, callback |-> callbackName, command |-> FALSE]

connectReq == Message("CONNECT", "connectResponse")
disconnectReq == Message("DISCONNECT", "disconnectResponse")
apduReq == [Message("APDU", "apduResponse") EXCEPT !.command = TRUE]
transferAtrReq == Message("TRANSFER_ATR", "transferAtrResponse")
powerReq == Message("POWER", "powerResponse")
resetSimReq == Message("RESET_SIM", "resetSimResponse")
transferCardReaderStatusReq == Message("TRANSFER_CARD_READER_STATUS", "transferCardReaderStatusResponse")
setTransferProtocolReq == Message("SET_TRANSFER_PROTOCOL", "transferProtocolResponse")

AllMethods ==
  {connectReq, disconnectReq, apduReq, transferAtrReq, powerReq, resetSimReq,
   transferCardReaderStatusReq, setTransferProtocolReq}

ASSUME MethodsKnown == Methods \subseteq AllMethods

(***************************************************************************)
(* The vendor's results, as the HAL's: anything unknown is a failure.      *)
(***************************************************************************)
NotReady == [p \in {"SIM_NOT_READY"} |-> "CARD_NOT_ACCESSSIBLE"]
Off == [p \in {"SIM_ALREADY_POWERED_OFF"} |-> "CARD_ALREADY_POWERED_OFF"]
On == [p \in {"SIM_ALREADY_POWERED_ON"} |-> "CARD_ALREADY_POWERED_ON"]
Absent == [p \in {"SIM_ABSENT"} |-> "CARD_REMOVED"]
NoData == [p \in {"SIM_DATA_NOT_AVAILABLE"} |-> "DATA_NOT_AVAILABLE"]
Results(known, p) ==
  IF p = "SUCCESS" THEN "SUCCESS" ELSE IF p \in DOMAIN known THEN known[p] ELSE "GENERIC_FAILURE"

Join(f, g) == [p \in DOMAIN f \cup DOMAIN g |-> IF p \in DOMAIN f THEN f[p] ELSE g[p]]

convertApduResponseProtoToHal(p) == Results(Join(NotReady, Join(Off, Absent)), p)
convertTransferAtrResponseProtoToHal(p) == Results(Join(Off, Join(Absent, NoData)), p)
convertPowerResponseProtoToHal(p) == Results(Join(Absent, Join(Off, On)), p)
convertResetSimResponseProtoToHal(p) == Results(Join(Absent, Join(NotReady, Off)), p)
convertTransferCardReaderStatusResponseProtoToHal(p) == Results(NoData, p)
convertSetTransferProtocolResponse(p) == IF p = "SUCCESS" THEN "SUCCESS" ELSE "NOT_SUPPORTED"

\* the status of a connection is passed on as it is, a disconnect has none
Converted(id, p) ==
  CASE id = "DISCONNECT" -> "none"
    [] id = "APDU" -> convertApduResponseProtoToHal(p)
    [] id = "TRANSFER_ATR" -> convertTransferAtrResponseProtoToHal(p)
    [] id = "POWER" -> convertPowerResponseProtoToHal(p)
    [] id = "RESET_SIM" -> convertResetSimResponseProtoToHal(p)
    [] id = "TRANSFER_CARD_READER_STATUS" -> convertTransferCardReaderStatusResponseProtoToHal(p)
    [] id = "SET_TRANSFER_PROTOCOL" -> convertSetTransferProtocolResponse(p)
    [] OTHER -> p

\* what sendFailedResponse says
Failure(id) ==
  CASE id = "CONNECT" -> "CONNECT_FAILURE"
    [] id = "DISCONNECT" -> "none"
    [] id = "SET_TRANSFER_PROTOCOL" -> "NOT_SUPPORTED"
    [] OTHER -> "GENERIC_FAILURE"

(***************************************************************************)
(* Heap blocks.                                                            *)
(***************************************************************************)
BlockNames == {"msg", "command", "buffer", "payload", "request", "decoded"}
NoBlocks == [b \in BlockNames |-> "none"]
Alloc(bs) == [b \in BlockNames |-> IF b \in bs THEN "live" ELSE "none"]
\* freeing what is not live breaks the heap
FreedOf(blocks, bs) ==
  [b \in BlockNames |->
     IF b \notin bs THEN blocks[b] ELSE IF blocks[b] = "live" THEN "freed" ELSE "broken"]

NoCall == [method |-> connectReq, token |-> CHOOSE t \in Tokens : TRUE]
NoResponse == [decoded |-> FALSE, result |-> "none"]

\* the socket is there unless there was no memory to enter it in the list
initSapSocket == socket \in BOOLEAN

Init ==
  /\ initSapSocket
  /\ callback = 0 /\ client = 0 /\ alive = FALSE
  /\ at = [r \in Requests |-> "none"] /\ vendor = [r \in Requests |-> "none"]
  /\ call = [r \in Requests |-> NoCall]
  /\ block = [r \in Requests |-> NoBlocks]
  /\ pendingResponseQueue = <<>>
  /\ response = [r \in Requests |-> NoResponse]
  /\ answers = [r \in Requests |-> <<>>]
  /\ crashed = FALSE

Going == ~crashed

(***************************************************************************)
(* The client.                                                             *)
(***************************************************************************)
setCallback ==
  /\ Going /\ ~alive /\ client < MaxClients
  /\ client' = client + 1 /\ callback' = client + 1 /\ alive' = TRUE
  /\ UNCHANGED <<socket, at, vendor, call, block, pendingResponseQueue, response, answers, crashed>>

ClientDies ==
  /\ Going /\ alive /\ alive' = FALSE
  /\ UNCHANGED <<socket, callback, client, at, vendor, call, block, pendingResponseQueue, response, answers, crashed>>

\* a call through sapCallback: a NULL pointer crashes, a dead client hears nothing
Reached == callback = client /\ alive
Hear(r, a) == IF Reached THEN [answers EXCEPT ![r] = Append(@, a)] ELSE answers
Answer(m, result) == [callback |-> m.callback, result |-> result]

(***************************************************************************)
(* A request.  A client's tokens tell its outstanding requests apart, and  *)
(* a later client's go on from its predecessor's.                          *)
(***************************************************************************)
Outstanding(r) == at[r] # "none" /\ vendor[r] \notin {"done", "never"}
Fresh(m, t) ==
  \A r \in Requests : Outstanding(r) => call[r].token # t \/ call[r].method.id # m.id

\* what is allocated, and freed again, when a step before the dispatch fails:
\* the message, the command, the encoding, the payload, the socket
Refusals(m) ==
  LET cmd == IF m.command THEN {"command"} ELSE {}
  IN {[has |-> {}, frees |-> {}], [has |-> {"msg"}, frees |-> {"msg"}],
      [has |-> {"msg"} \cup cmd, frees |-> {"msg"} \cup cmd],
      [has |-> {"msg", "buffer"} \cup cmd, frees |-> {"msg", "buffer"} \cup cmd],
      [has |-> {"msg", "buffer"} \cup cmd, frees |-> {"msg", "buffer"}]}

\* sendFailedResponse: the blocks are freed and the callback is called unseen
sendFailedResponse(r, m) ==
  /\ crashed' = (callback = 0)
  /\ answers' = IF callback = 0 THEN answers ELSE Hear(r, Answer(m, Failure(m.id)))
  /\ callback' = IF Reached THEN callback ELSE 0

Refuse(r, m, t, refusal) ==
  /\ Going /\ alive /\ at[r] = "none" /\ Fresh(m, t)
  /\ call' = [call EXCEPT ![r] = [method |-> m, token |-> t]]
  /\ block' = [block EXCEPT ![r] = FreedOf(Alloc(refusal.has), refusal.frees)]
  /\ at' = [at EXCEPT ![r] = "done"] /\ vendor' = [vendor EXCEPT ![r] = "never"]
  /\ sendFailedResponse(r, m)
  /\ UNCHANGED <<socket, client, alive, pendingResponseQueue, response>>

addPayloadAndDispatchRequest(r, m, t) ==
  LET blocks == Alloc({"msg", "buffer", "payload"} \cup IF m.command THEN {"command"} ELSE {})
  IN /\ Going /\ alive /\ at[r] = "none" /\ Fresh(m, t)
     /\ call' = [call EXCEPT ![r] = [method |-> m, token |-> t]]
     /\ \/ /\ socket
           /\ block' = [block EXCEPT ![r] = blocks]
           /\ at' = [at EXCEPT ![r] = "dispatch"]
           /\ UNCHANGED <<callback, vendor, answers, crashed>>
        \/ /\ ~socket
           /\ block' = [block EXCEPT ![r] = FreedOf(blocks, {"msg", "buffer", "payload"})]
           /\ at' = [at EXCEPT ![r] = "done"] /\ vendor' = [vendor EXCEPT ![r] = "never"]
           /\ sendFailedResponse(r, m)
     /\ UNCHANGED <<socket, client, alive, pendingResponseQueue, response>>

\* the newest request goes to the front
enqueue(r) == <<r>> \o pendingResponseQueue

\* without memory the request is dropped, message and all
dispatchRequest(r) ==
  /\ Going /\ at[r] = "dispatch"
  /\ at' = [at EXCEPT ![r] = "back"]
  /\ \/ /\ block' = [block EXCEPT ![r].request = "live"]
        /\ pendingResponseQueue' = enqueue(r)
        /\ vendor' = [vendor EXCEPT ![r] = "asked"]
     \/ /\ block' = [block EXCEPT ![r] = FreedOf(@, {"msg"})]
        /\ vendor' = [vendor EXCEPT ![r] = "never"]
        /\ UNCHANGED pendingResponseQueue
  /\ UNCHANGED <<socket, clientVars, call, response, answers, crashed>>

\* back from the dispatch the payload is freed through msg, which may itself
\* be freed by now: then its old contents are still there, or the behaviour is
\* undefined from here on
FreePayload(r) ==
  /\ Going /\ at[r] = "back"
  /\ at' = [at EXCEPT ![r] = "done"]
  /\ \/ /\ block' = [block EXCEPT ![r] = FreedOf(@, {"payload", "buffer"})]
        /\ UNCHANGED crashed
     \/ /\ block[r].msg # "live" /\ crashed' = TRUE
        /\ UNCHANGED block
  /\ UNCHANGED <<socket, clientVars, vendor, call, pendingResponseQueue, response, answers>>

(***************************************************************************)
(* A completion, on a thread of the vendor.                                *)
(***************************************************************************)
\* the response is decoded into a block of its own; decoding may fail in the
\* middle of the message, when the block stays, or for want of memory
sapDecodeMessage(r, p) ==
  /\ \E decoded \in BOOLEAN : response' = [response EXCEPT ![r] = [decoded |-> decoded, result |-> p]]
  /\ \/ block' = [block EXCEPT ![r].decoded = "live"]
     \/ ~response'[r].decoded /\ UNCHANGED block

\* with no memory for the response nobody is told
onRequestComplete(r) ==
  /\ Going /\ vendor[r] = "asked"
  /\ \/ /\ vendor' = [vendor EXCEPT ![r] = "processing"]
        /\ \E p \in VendorResults : sapDecodeMessage(r, p)
     \/ vendor' = [vendor EXCEPT ![r] = "answered"] /\ UNCHANGED <<block, response>>
  /\ UNCHANGED <<socket, clientVars, at, call, pendingResponseQueue, answers, crashed>>

\* a response that cannot be decoded is not answered
processResponseDecoded(r) ==
  /\ Going /\ vendor[r] = "processing"
  /\ vendor' = [vendor EXCEPT ![r] = IF callback = 0 \/ ~response[r].decoded THEN "answered" ELSE "calling"]
  /\ UNCHANGED <<socket, clientVars, at, call, block, pendingResponseQueue, response, answers, crashed>>

\* the callback is compared with NULL here and used in the next step
processResponse(r) ==
  /\ Going /\ vendor[r] = "processing"
  /\ vendor' = [vendor EXCEPT ![r] = IF callback = 0 THEN "answered" ELSE "calling"]
  /\ UNCHANGED <<socket, clientVars, at, call, block, pendingResponseQueue, response, answers, crashed>>

\* a response that cannot be decoded is read all the same
CallClientUndecoded(r) ==
  LET m == call[r].method
  IN /\ Going /\ vendor[r] = "calling"
     /\ crashed' = (callback = 0)
     /\ answers' = IF callback = 0 THEN answers ELSE Hear(r, Answer(m, Converted(m.id, response[r].result)))
     /\ vendor' = [vendor EXCEPT ![r] = IF Reached THEN "answered" ELSE "failed"]
     /\ UNCHANGED <<socket, clientVars, at, call, block, pendingResponseQueue, response>>

CallClient(r) ==
  LET m == call[r].method
      a == Answer(m, IF response[r].decoded THEN Converted(m.id, response[r].result) ELSE Failure(m.id))
  IN /\ Going /\ vendor[r] = "calling"
     /\ crashed' = (callback = 0)
     /\ answers' = IF callback = 0 THEN answers ELSE Hear(r, a)
     /\ vendor' = [vendor EXCEPT ![r] = IF Reached THEN "answered" ELSE "failed"]
     /\ UNCHANGED <<socket, clientVars, at, call, block, pendingResponseQueue, response>>

\* whoever is connected by now is dropped
checkReturnStatus(r) ==
  /\ Going /\ vendor[r] = "failed"
  /\ callback' = 0
  /\ vendor' = [vendor EXCEPT ![r] = "answered"]
  /\ UNCHANGED <<socket, client, alive, at, call, block, pendingResponseQueue, response, answers, crashed>>

\* the token alone is compared
MatchesToken(r, i) == call[pendingResponseQueue[i]].token = call[r].token

\* the first request of that id and token
Matches(r, i) ==
  LET q == pendingResponseQueue[i]
  IN call[q].token = call[r].token /\ call[q].method.id = call[r].method.id

checkAndDequeue(r) ==
  LET found == {i \in DOMAIN pendingResponseQueue : Matches(r, i)}
  IN IF found = {} THEN {} ELSE {CHOOSE i \in found : \A j \in found : i =< j}

\* the request found in the queue and the message of the one completed
Deallocate(r) ==
  /\ Going /\ vendor[r] = "answered"
  /\ vendor' = [vendor EXCEPT ![r] = "done"]
  /\ LET found == checkAndDequeue(r)
         gone == {pendingResponseQueue[i] : i \in found}
     IN /\ pendingResponseQueue' =
             IF found = {} THEN pendingResponseQueue
             ELSE RemoveAt(pendingResponseQueue, CHOOSE i \in found : TRUE)
        /\ block' = [q \in Requests |->
             FreedOf(block[q], (IF q \in gone THEN {"request"} ELSE {}) \cup
                               (IF q = r THEN {"msg"} ELSE {}))]
  /\ UNCHANGED <<socket, clientVars, at, call, response, answers, crashed>>

\* an indication has no token of its own; one that cannot be decoded is
\* answered like a request, which only a disconnect has an answer for (in one
\* step: its race for the callback is that of processResponse); the block it is
\* decoded into is lost like a response's and belongs to no request
onUnsolicitedResponse(id, decoded) ==
  /\ Going /\ socket /\ callback # 0 /\ ~Reached
  /\ decoded \/ id = "DISCONNECT"
  /\ callback' = 0
  /\ UNCHANGED <<socket, client, alive, at, vendor, call, block, pendingResponseQueue, response, answers, crashed>>

Next ==
  \/ setCallback \/ ClientDies
  \/ \E r \in Requests, m \in Methods, t \in Tokens :
       \/ \E refusal \in Refusals(m) : Refuse(r, m, t, refusal)
       \/ addPayloadAndDispatchRequest(r, m, t)
  \/ \E r \in Requests :
       \/ dispatchRequest(r) \/ FreePayload(r)
       \/ onRequestComplete(r) \/ processResponse(r) \/ CallClient(r) \/ checkReturnStatus(r)
       \/ Deallocate(r)
  \/ \E id \in Indications, decoded \in BOOLEAN : onUnsolicitedResponse(id, decoded)

\* threads that have begun go on, and the vendor completes what it is asked
Fairness ==
  \A r \in Requests :
    /\ WF_vars(dispatchRequest(r)) /\ WF_vars(FreePayload(r))
    /\ WF_vars(onRequestComplete(r) \/ processResponse(r) \/ CallClient(r)
               \/ checkReturnStatus(r) \/ Deallocate(r))

Spec == Init /\ [][Next]_vars /\ Fairness

(***************************************************************************)
(* Properties.                                                             *)
(***************************************************************************)
\* the types of the variables
TypeOK ==
  /\ socket \in BOOLEAN /\ alive \in BOOLEAN /\ crashed \in BOOLEAN
  /\ client \in 0..MaxClients /\ callback \in 0..MaxClients
  /\ at \in [Requests -> {"none", "dispatch", "back", "done"}]
  /\ vendor \in [Requests -> {"none", "never", "asked", "processing", "calling", "failed", "answered", "done"}]
  /\ call \in [Requests -> [method : AllMethods, token : Tokens]]
  /\ block \in [Requests -> [BlockNames -> {"none", "live", "freed", "broken"}]]
  /\ \A i \in DOMAIN pendingResponseQueue : pendingResponseQueue[i] \in Requests
  /\ \A r \in Requests : response[r].decoded \in BOOLEAN

WithVendor(r) == vendor[r] \in {"asked", "processing", "calling", "failed", "answered"}

\* A request the vendor holds is live, message included, and in the queue
\* once, whatever order requests complete in and whoever frees what first; no
\* block is freed twice; and when both threads are done the message, its
\* buffer, its payload and the request are freed.  The other two are not: the
\* code leaks the copied command of apduReq, and with every completion the
\* response sapDecodeMessage decoded, which processResponse never frees
\* (dispatchRequest, onRequestComplete, checkAndDequeue, sendFailedResponse).
HeapOwned ==
  /\ TypeOK
  /\ \A r \in Requests, b \in BlockNames : block[r][b] # "broken"
  /\ \A r \in Requests : WithVendor(r) =>
       /\ block[r].msg = "live" /\ block[r].request = "live"
       /\ Cardinality({i \in DOMAIN pendingResponseQueue : pendingResponseQueue[i] = r}) = 1
  /\ ~crashed => \A r \in Requests : at[r] = "done" /\ ~WithVendor(r) =>
       \A b \in BlockNames \ {"command", "decoded"} : block[r][b] # "live"

\* A request is answered at most once, through its own callback, and is only
\* said to have succeeded if the vendor said so (sendFailedResponse,
\* processResponse and the conversions of results).
AnsweredOwn ==
  \A r \in Requests :
    /\ Len(answers[r]) =< 1
    /\ \A i \in DOMAIN answers[r] :
         /\ answers[r][i].callback = call[r].method.callback
         /\ answers[r][i].result = "SUCCESS" => response[r] = [decoded |-> TRUE, result |-> "SUCCESS"]

\* What the vendor answered is told to a client that stays, decodable or not,
\* unless the callback was dropped or used as NULL in a race for it
\* (processResponse, checkReturnStatus).
Answered ==
  \A r \in Requests :
    vendor[r] = "processing" ~> answers[r] # <<>> \/ ~alive \/ callback # client \/ crashed
================================================================================
