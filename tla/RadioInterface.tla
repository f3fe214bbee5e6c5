----------------------------- MODULE RadioInterface -----------------------------
(***************************************************************************)
(* One slot of ril_service.cpp between a client of IRadio (and of IOemHook) *)
(* and the vendor's library: a method copies its arguments to the heap,    *)
(* hands them to onRequest and frees them, or fails on the way and answers *)
(* itself; the vendor's answer and its indications are checked against     *)
(* their length, read and passed on.  One request is followed at a time:   *)
(* RilRequest is about many at once, RilService about the lock and the     *)
(* death of clients.                                                       *)
(***************************************************************************)
EXTENDS Integers, Sequences, FiniteSets, RadioRequests, RadioIndications

CONSTANTS
  Versions,     \* versions of the vendor's library
  MaxElements   \* elements of a list of data calls

ASSUME VersionsKnown == Versions \subseteq 12..15
ASSUME ElementsBound == MaxElements \in Nat \ {0}

VARIABLES
  version,   \* s_vendorFunctions->version
  client,    \* the version of the client's callbacks, or none
  oem,       \* whether IOemHook has a client
  at,        \* where the request is
  method,    \* the method called
  program,   \* the program it runs
  step,      \* the step it is at
  mem,       \* the request's heap blocks
  told       \* the last call to a callback

vars == <<version, client, oem, at, method, program, step, mem, told>>
callVars == <<method, program, step, mem>>
clientVars == <<version, client, oem>>

\* the tables of every version
MethodsOf == [v \in Versions |-> Methods(v)]
ResponsesOf == [v \in Versions |-> Responses(v)]

NoProgram == Program("none", <<>>, {})
NoPayload == [null |-> TRUE, len |-> 0, own |-> 0]
NotTold ==
  [what |-> "nothing", f |-> "none", callback |-> "none", error |-> "SUCCESS",
   payload |-> NoPayload, data |-> Nothing, kind |-> "none", filled |-> {}, strings |-> {}]

Blocks(p) ==
  UNION {{p.steps[i].block} \cup p.steps[i].undo : i \in DOMAIN p.steps} \cup p.frees

\* a block that is not the program's own to free is broken by it
Freed(m, bs) ==
  [b \in DOMAIN m |->
     IF b \notin bs THEN m[b]
     ELSE IF m[b] \in {"null", "live"} THEN "freed" ELSE "broken"]

Init ==
  /\ version \in Versions /\ client = "none" /\ oem = FALSE
  /\ at = "idle" /\ method = "none" /\ program = NoProgram /\ step = 1
  /\ mem = <<>> /\ told = NotTold

\* both callbacks cast to version 1.1, or neither is kept as such
setResponseFunctions ==
  /\ at \in {"idle", "waiting"}
  /\ client' \in {"1.0", "1.1"}
  /\ UNCHANGED <<version, oem, at, callVars, told>>

setOemResponseFunctions ==
  /\ at \in {"idle", "waiting"} /\ kOemHookEnabled
  /\ oem' = TRUE
  /\ UNCHANGED <<version, client, at, callVars, told>>

\* checkReturnStatus resets what a dead client installed
checkReturnStatus ==
  /\ at \in {"idle", "waiting"}
  /\ \/ client' = "none" /\ UNCHANGED oem
     \/ oem' = FALSE /\ UNCHANGED client
  /\ UNCHANGED <<version, at, callVars, told>>

(***************************************************************************)
(* A method is called.  addRequestToList may have no memory: nearly every  *)
(* method then gives up without an answer.                                 *)
(***************************************************************************)
Callable(m) == m \in DOMAIN OemHookMethods => kOemHookEnabled

Call(m) ==
  /\ at = "idle" /\ Callable(m)
  /\ \E p \in MethodsOf[version][m] :
       /\ method' = m /\ program' = p /\ step' = 1
       /\ mem' = [b \in Blocks(p) |-> IF b \in p.raw THEN "garbage" ELSE "null"]
       /\ at' = "run"
  /\ UNCHANGED <<clientVars, told>>

addRequestToListFails(m) ==
  /\ at = "idle" /\ Callable(m)
  /\ \E p \in MethodsOf[version][m] :
       at' = IF p.unchecked THEN "crashed" ELSE "idle"
  /\ method' = m
  /\ UNCHANGED <<clientVars, program, step, mem, told>>

\* a list of networks is an array of strings, and so is a registration state
\* before version 15
AsStrings(f) ==
  \/ f = "getAvailableNetworks"
  \/ f \in {"getVoiceRegistrationState", "getDataRegistrationState"} /\ version =< 14

\* what the client hears of an answer
Answer(f, e, p, sane, kind) ==
  LET r == Reading(ResponsesOf[version][f], p, sane, kind)
  IN IF ~Reaches(f, client, oem) THEN NotTold
     ELSE [what |-> "answer", f |-> f, callback |-> Callback(f, client),
           error |-> IF e = "SUCCESS" /\ ~r.valid THEN "INVALID_RESPONSE" ELSE e,
           payload |-> p, data |-> r.data, kind |-> kind, filled |-> r.filled,
           strings |-> IF AsStrings(f) /\ r.data # Nothing
                       THEN StringsRead(f, p.len \div sizeof(CPtr), kind) ELSE {}]

sendErrorResponse(e) ==
  told' = Answer(s_commands[program.code], e, NoPayload, TRUE, "none")

Current == program.steps[step]
Running == at = "run" /\ step \in DOMAIN program.steps

\* a step done; a copy of the empty string may leave its pointer NULL
StepDone ==
  /\ Running /\ Current.do # "refuse"
  /\ step' = step + 1
  /\ CASE Current.do = "check" -> UNCHANGED mem
       [] Current.mayBeNull -> \E v \in {"null", "live"} : mem' = [mem EXCEPT ![Current.block] = v]
       [] OTHER -> mem' = [mem EXCEPT ![Current.block] = "live"]
  /\ UNCHANGED <<clientVars, at, method, program, told>>

\* a step failed: its pointer is NULL, what came before it is freed, and the
\* client gets the error
StepFails ==
  /\ Running
  /\ \E e \in Current.errors : sendErrorResponse(e)
  /\ mem' = LET m == IF Current.do \in {"alloc", "copy"}
                     THEN [mem EXCEPT ![Current.block] = "null"] ELSE mem
            IN Freed(m, Current.undo)
  /\ at' = "failed"
  /\ UNCHANGED <<clientVars, method, program, step>>

\* the steps are done: the vendor gets the arguments
onRequest ==
  /\ at = "run" /\ step \notin DOMAIN program.steps
  /\ at' = "vendor"
  /\ UNCHANGED <<clientVars, callVars, told>>

\* back from the vendor, which may answer later; a manual network selection
\* is answered here
FreeArguments ==
  /\ at = "vendor"
  /\ mem' = Freed(mem, program.frees)
  /\ IF program.code = "SET_NETWORK_SELECTION_MANUAL"
     THEN /\ told' = Answer("setNetworkSelectionModeManual", "SUCCESS", NoPayload, TRUE, "none")
          /\ at' = "told"
     ELSE at' = "waiting" /\ UNCHANGED told
  /\ UNCHANGED <<clientVars, method, program, step>>

(***************************************************************************)
(* The payloads of a vendor: NULL, or the lengths around every size its    *)
(* reader knows; for data calls, lists of a layout of its own as well.  A  *)
(* pointer that is not NULL points to at least one byte, and the pointers  *)
(* in what it points to are NULL only where the reader looks: the mode of  *)
(* onUssdInd and the status of a network are used as they are.             *)
(***************************************************************************)
Payloads(c) ==
  LET sizes == {c.sizes[i] : i \in DOMAIN c.sizes}
      around == {1} \cup UNION {{s - 1, s, s + 1, s + c.word - 1, s + c.word, 2 * s} : s \in sizes}
      own == IF c.sizes = DataCalls THEN sizes \X (1..MaxElements) ELSE {}
  IN [null : {TRUE}, len : {0, sizeof(CPtr)}, own : {0}]
     \cup [null : {FALSE}, len : around \ {0}, own : {0}]
     \cup {[null |-> FALSE, len |-> o[1] * o[2], own |-> o[1]] : o \in own}

\* RIL_onRequestComplete calls the response function of the code
onRequestComplete ==
  /\ at = "waiting"
  /\ LET f == s_commands[program.code]
         c == ResponsesOf[version][f]
     IN \E e \in {"SUCCESS", "GENERIC_FAILURE"}, p \in Payloads(c), sane \in BOOLEAN,
           kind \in DOMAIN c.filled :
          told' = Answer(f, e, p, sane, kind)
  /\ at' = "told"
  /\ UNCHANGED <<clientVars, callVars>>

\* the callback returns
Done ==
  /\ at \in {"told", "failed"}
  /\ at' = "idle" /\ method' = "none" /\ program' = NoProgram /\ step' = 1
  /\ mem' = <<>> /\ told' = NotTold
  /\ UNCHANGED clientVars

\* RIL_onUnsolicitedResponse: a message with a reader, and a payload
onUnsolicitedResponse(code) ==
  LET f == s_unsolResponses[code]
      c == Indications[f]
  IN /\ at = "idle" /\ f # "NULL"
     /\ \E p \in Payloads(c), sane \in BOOLEAN, kind \in DOMAIN c.filled :
          LET r == Reading(c, p, sane, kind)
          IN IF r.valid /\ CallsNull(f, client)
             THEN at' = "crashed" /\ method' = f /\ UNCHANGED told
             ELSE /\ r.valid /\ Hears(f, client, oem)
                  /\ at' = "told" /\ UNCHANGED method
                  /\ told' = [NotTold EXCEPT !.what = "indication", !.f = f,
                                !.callback = f, !.payload = p, !.data = r.data,
                                !.kind = kind, !.filled = r.filled]
     /\ UNCHANGED <<clientVars, program, step, mem>>

Next ==
  \/ setResponseFunctions \/ setOemResponseFunctions \/ checkReturnStatus
  \/ \E m \in DOMAIN MethodsOf[version] : Call(m) \/ addRequestToListFails(m)
  \/ StepDone \/ StepFails \/ onRequest \/ FreeArguments
  \/ onRequestComplete \/ Done
  \/ \E code \in DOMAIN s_unsolResponses : onUnsolicitedResponse(code)

Spec == Init /\ [][Next]_vars

-----------------------------------------------------------------------------
\* Every variable has its type, and a program's steps are walked in order.
TypeOK ==
  /\ version \in Versions /\ client \in {"none", "1.0", "1.1"} /\ oem \in BOOLEAN
  /\ at \in {"idle", "run", "vendor", "failed", "waiting", "told", "crashed"}
  /\ step \in 1..(Len(program.steps) + 1)
  /\ at = "run" => program \in MethodsOf[version][method]
  /\ DOMAIN mem = Blocks(program)
  /\ \A b \in DOMAIN mem : mem[b] \in {"garbage", "null", "live", "freed", "broken"}

\* No error path and no cleanup leaves a heap block behind, whichever step of
\* the method fails and whichever strings are empty: but for the strings of
\* setCarrierInfoForImsiEncryption, which are freed only on its error paths.
\* A pointer that was never set, or was freed already, is neither freed nor
\* handed to the vendor.
ArgumentsOwned ==
  /\ TypeOK
  /\ at \in {"failed", "waiting", "told"} =>
       \A b \in DOMAIN mem :
         mem[b] = "live" =>
           /\ program.code = "SET_CARRIER_INFO_IMSI_ENCRYPTION" /\ at # "failed"
           /\ b \in Names({"mnc", "mcc", "keyIdentifier"})
  /\ \A b \in DOMAIN mem :
       /\ mem[b] # "broken"
       /\ at = "vendor" => mem[b] \in {"null", "live"}

\* The client is answered by the callback of the method it called, through two
\* tables and the vendor: with the names that differ listed here, and the wrong
\* callback that hanging up the foreground call gets.  And a record that is one
\* of several structures reaches the client with that structure, whichever of
\* the tables of radio technologies, cells, parts and information records it
\* went through: but for one of no kind, and for IWLAN, which has no cells.
AnsweredInKind ==
  /\ told.data # Nothing /\ told.filled = {} => told.kind \in {"none", "IWLAN"}
  /\ told.what = "answer" =>
       CASE method = "getImsiForApp" -> told.callback = "getIMSIForApp"
         [] method = "hangup" -> told.callback = "hangupConnection"
         [] method = "hangupForegroundResumeBackground" ->
              told.callback = "hangupWaitingOrBackground"
         [] method \in {"setSimCardPower", "setSimCardPower_1_1"} ->
              told.callback =
                IF client = "1.1" THEN "setSimCardPower_1_1" ELSE "setSimCardPower"
         [] OTHER -> told.callback = method

\* No reader looks beyond the payload the vendor gave: but for the result of a
\* network scan, whose length is not compared with the structure's, and for
\* networks of fewer than the four strings that are read of each.  A list of
\* fewer than eight data calls is read in the layout it was written in,
\* although only its length tells the three layouts apart.
ReadsWithinPayload ==
  /\ told.f # "networkScanResult" => BytesRead(told.data) =< told.payload.len
  /\ told.f # "getAvailableNetworks" \/ mqanelements >= 4 =>
       \A i \in told.strings : (i + 1) * sizeof(CPtr) =< told.payload.len
  /\ LET own == told.payload.own
         n == told.payload.len \div own
     IN own # 0 /\ n < 8 /\ told.data # Nothing => told.data.layout = own
=============================================================================
