-------------------------- MODULE AgpsStateMachine --------------------------
(***************************************************************************)
(* The data-connection state machines of the GPS engine                    *)
(* (gps/loc_api/libloc_api_50001/loc_eng_agps.cpp and the messages of      *)
(* loc_eng.cpp that drive them).                                           *)
(*                                                                         *)
(* A machine owns one network interface: agnss (SUPL, clients of the modem *)
(* called ATL), wifi (QuIPC, MSAPM, MSAPU) and ds (the emergency data      *)
(* call, class DSStateMachine).  All handlers run on the one MsgTask       *)
(* thread, from one FIFO queue; the connectivity service behind a machine  *)
(* and the clients in front of it are other processes, which answer later. *)
(* Nothing in a request or an answer says which request it belongs to.     *)
(***************************************************************************)
EXTENDS Naturals, Sequences, SequencesExt, FiniteSets

CONSTANTS
  Ids,          \* connection handles of the modem, or WiFi sender ids
  MaxRetries,   \* MAX_START_DATA_CALL_RETRIES
  MaxAsks,      \* bound: requests the clients make
  MaxLosses,    \* bound: times a connection is lost by itself
  MaxRestarts   \* bound: restarts of the modem

ASSUME Bounds == /\ MaxRetries \in Nat /\ MaxAsks \in Nat
                 /\ MaxLosses \in Nat /\ MaxRestarts \in Nat

Nifs == {"agnss", "wifi", "ds"}
Services == {"atl", "wifi", "es"}      \* which of its three kinds of clients asks

VARIABLES
  service,      \* chosen at the start, constant
  state,        \* mStatePtr of each machine
  subs,         \* mSubscribers: newest first (linked_list_add puts it at the head)
  mRetries,     \* of the DSStateMachine
  timers,       \* delay_callback timers that are running
  msgs,         \* the queue of the MsgTask
  requests,     \* what the connectivity service of each machine was asked
  conn,         \* what that service has: the connection itself
  client,       \* what each client believes
  dropped,      \* machines whose subscribers were flushed by a modem restart
  asks, losses, restarts

machine == <<state, subs, mRetries, timers>>
counters == <<asks, losses, restarts>>
vars == <<service, machine, msgs, requests, conn, client, dropped, counters>>

EnforceSingle(n) == n = "wifi"              \* 4th argument of the constructor
(* Mutant of WaitForClose: WiFi forgets its subscriber before the close.   *)
WaitForCloseNoWifi(n) == n = "ds"
WaitForClose(n) == n \in {"wifi", "ds"}     \* waitForCloseComplete()
NifOf == [atl |-> "agnss", wifi |-> "wifi", es |-> "ds"]

Subscriber(id, off) == [id |-> id, inactive |-> off]
IdsIn(s) == {s[i].id : i \in DOMAIN s}

(* The elements of s at the places in I, in their order: what SelectSeq    *)
(* gives, without its recursion.                                           *)
Pick(s, I) ==
  [k \in 1..Cardinality(I) |->
     s[CHOOSE i \in I : Cardinality({j \in I : j < i}) = k - 1]]

Active(s) == Pick(s, {i \in DOMAIN s : ~s[i].inactive})
Inactive(s) == Pick(s, {i \in DOMAIN s : s[i].inactive})
hasActiveSubscribers(n) == Active(subs[n]) # <<>>

Message(what, who) == [what |-> what, who |-> who]
First == Head(msgs)

(***************************************************************************)
(* What a client makes of a status it is sent (external).  It ignores one  *)
(* that does not fit what it is waiting for; an ATL client that gave up    *)
(* still waits for atlCloseStatus.                                         *)
(***************************************************************************)
Heard(c, what) ==
  CASE what = "granted" /\ c = "asked" -> "open"
    [] what = "denied" /\ c = "asked" -> "idle"
    [] what = "denied" /\ c = "closing" /\ service = "wifi" -> "idle"
    [] what = "closed" /\ c \in {"open", "closing"} -> "idle"
    [] OTHER -> c

Told(ids, what) ==
  [c \in Ids |-> IF c \in ids THEN Heard(client[c], what) ELSE client[c]]

(***************************************************************************)
(* The first step of every handler: the message leaves the queue, and the  *)
(* handler may post others behind it.                                      *)
(***************************************************************************)
Take(what) == msgs # <<>> /\ First.what = what
Post(more) == msgs' = Tail(msgs) \o more
FallBack(s) == [i \in DOMAIN s |-> Message("RequestATL", s[i].id)]
Ask(n, action) == requests' = [requests EXCEPT ![n] = Append(@, action)]
Keep == UNCHANGED <<service, conn, counters>>

(* Mutant of addSubscriber: the list is not searched first.                *)
addSubscriberAgain(s, id) == <<Subscriber(id, FALSE)>> \o s

addSubscriber(s, id) ==
  IF id \in IdsIn(s) THEN s ELSE <<Subscriber(id, FALSE)>> \o s

Init ==
  /\ service \in Services
  /\ state = [n \in Nifs |-> "Released"]
  /\ subs = [n \in Nifs |-> <<>>]
  /\ mRetries = 0 /\ timers = 0
  /\ msgs = <<>>
  /\ requests = [n \in Nifs |-> <<>>]
  /\ conn = [n \in Nifs |-> "closed"]
  /\ client = [c \in Ids |-> "idle"]
  /\ dropped = {}
  /\ asks = 0 /\ losses = 0 /\ restarts = 0

-----------------------------------------------------------------------------
(* The clients, the connectivity services and the modem (external).        *)

ClientAsks(c) ==
  /\ client[c] = "idle" /\ asks < MaxAsks
  /\ service # "wifi" => Message("EngineUp", "all") \notin ToSet(msgs)
  /\ client' = [client EXCEPT ![c] = "asked"]
  /\ msgs' = Append(msgs, Message(CASE service = "atl" -> "RequestATL"
                                    [] service = "wifi" -> "RequestWifi"
                                    [] service = "es" -> "RequestSuplEs", c))
  /\ asks' = asks + 1
  /\ UNCHANGED <<service, machine, requests, conn, dropped, losses, restarts>>

ClientReleases(c) ==
  /\ client[c] \in {"asked", "open"}
  /\ client' = [client EXCEPT ![c] = "closing"]
  /\ msgs' = Append(msgs, Message(IF service = "wifi" THEN "ReleaseWifi"
                                                      ELSE "ReleaseATL", c))
  /\ UNCHANGED <<service, machine, requests, conn, dropped, counters>>

ServiceTakesRequest(n) ==
  /\ requests[n] # <<>> /\ Head(requests[n]) = "request"
  /\ requests' = [requests EXCEPT ![n] = Tail(@)]
  /\ IF conn[n] = "open"
     THEN msgs' = Append(msgs, Message("Granted", n)) /\ UNCHANGED conn
     ELSE conn' = [conn EXCEPT ![n] = "opening"] /\ UNCHANGED msgs
  /\ UNCHANGED <<service, machine, client, dropped, counters>>

(* What the service calls: each posts a message for the machine, the first *)
(* with the name of the APN.                                               *)
loc_eng_agps_open(n) == msgs' = Append(msgs, Message("Granted", n))
loc_eng_agps_open_failed(n) == msgs' = Append(msgs, Message("Denied", n))
loc_eng_agps_closed(n) == msgs' = Append(msgs, Message("Released", n))

(* The data service client reports a failed call as a closed one.          *)
ServiceAnswers(n, ok) ==
  /\ conn[n] = "opening"
  /\ conn' = [conn EXCEPT ![n] = IF ok THEN "open" ELSE "closed"]
  /\ CASE ok -> loc_eng_agps_open(n)
       [] ~ok /\ n = "ds" -> loc_eng_agps_closed(n)
       [] ~ok /\ n # "ds" -> loc_eng_agps_open_failed(n)
  /\ UNCHANGED <<service, machine, requests, client, dropped, counters>>

ServiceCloses(n) ==
  /\ requests[n] # <<>> /\ Head(requests[n]) = "release"
  /\ requests' = [requests EXCEPT ![n] = Tail(@)]
  /\ conn' = [conn EXCEPT ![n] = "closed"]
  /\ \/ conn[n] # "closed" /\ loc_eng_agps_closed(n)
     \/ /\ conn[n] = "closed"
        /\ UNCHANGED msgs
  /\ UNCHANGED <<service, machine, client, dropped, counters>>

ConnectionLost(n) ==
  /\ conn[n] = "open" /\ losses < MaxLosses
  /\ conn' = [conn EXCEPT ![n] = "closed"]
  /\ loc_eng_agps_closed(n)
  /\ losses' = losses + 1
  /\ UNCHANGED <<service, machine, requests, client, dropped, asks, restarts>>

(* The clients inside the modem are gone with it; the WiFi ones are not.   *)
(* A restarted modem asks again once the engine-up has been handled.       *)
ModemRestarts ==
  /\ restarts < MaxRestarts
  /\ restarts' = restarts + 1
  /\ msgs' = Append(msgs, Message("EngineUp", "all"))
  /\ client' = IF service = "wifi" THEN client ELSE [c \in Ids |-> "idle"]
  /\ UNCHANGED <<service, machine, requests, conn, dropped, asks, losses>>

-----------------------------------------------------------------------------
(* sendRsrcRequest(GPS_REQUEST_AGPS_DATA_CONN) for the list s.             *)

(* AgpsStateMachine: asks if there is an active subscriber; never fails.   *)
SendRequest(n, s) ==
  IF Active(s) # <<>> THEN Ask(n, "request") ELSE UNCHANGED requests

(* DSStateMachine: the call may be refused at once.  Busy is retried after *)
(* a delay until the retries are used up; then, or when no profile is      *)
(* found, the first active subscriber falls back to a normal ATL.          *)
DsRequest(s, outcome) ==
  LET handle == SubSeq(Active(s), 1, 1)
      more == mRetries + 1
  IN  CASE outcome = "SUCCESS" ->
             Ask("ds", "request") /\ Post(<<>>) /\ UNCHANGED <<mRetries, timers>>
        [] outcome = "BUSY" /\ more <= MaxRetries ->
             mRetries' = more /\ timers' = timers + 1 /\ Post(<<>>) /\ UNCHANGED requests
        [] OTHER ->
             mRetries' = 0 /\ Post(FallBack(handle)) /\ UNCHANGED <<requests, timers>>

Outcomes == {"SUCCESS", "BUSY", "UNSUPPORTED"}

(***************************************************************************)
(* subscribeRsrc, one action per state and kind of machine                 *)
(***************************************************************************)
Subscribing(n, id) ==
  /\ \/ Take("RequestATL") /\ n = "agnss"
     \/ Take("RequestWifi") /\ n = "wifi"
     \/ Take("RequestSuplEs") /\ n = "ds"
  /\ id = First.who

SubscribeRefused(n, id) ==
  /\ Subscribing(n, id)
  /\ EnforceSingle(n) /\ subs[n] # <<>>
  /\ client' = Told({id}, "denied")
  /\ Post(<<>>)
  /\ UNCHANGED <<machine, requests, dropped>> /\ Keep

SubscribeReleased(n, id) ==
  /\ Subscribing(n, id)
  /\ state[n] = "Released" /\ n # "ds" /\ ~(EnforceSingle(n) /\ subs[n] # <<>>)
  /\ subs' = [subs EXCEPT ![n] = addSubscriber(@, id)]
  /\ SendRequest(n, subs'[n])
  /\ state' = [state EXCEPT ![n] = "Pending"]
  /\ dropped' = dropped \ {n}
  /\ Post(<<>>)
  /\ UNCHANGED <<mRetries, timers, client>> /\ Keep

(* A data call that could not be started leaves the machine Released, with *)
(* the subscriber in its list.                                             *)
SubscribeDs(id) ==
  /\ Subscribing("ds", id)
  /\ state["ds"] = "Released"
  /\ subs' = [subs EXCEPT !["ds"] = addSubscriber(@, id)]
  /\ \E outcome \in Outcomes :
       /\ DsRequest(subs'["ds"], outcome)
       /\ state' = [state EXCEPT !["ds"] = IF outcome = "SUCCESS" THEN "Pending" ELSE @]
  /\ UNCHANGED <<client, dropped>> /\ Keep

SubscribeWaiting(n, id) ==
  /\ Subscribing(n, id)
  /\ state[n] \in {"Pending", "Releasing"} /\ ~EnforceSingle(n)
  /\ subs' = [subs EXCEPT ![n] = addSubscriber(@, id)]
  /\ dropped' = dropped \ {n}
  /\ Post(<<>>)
  /\ UNCHANGED <<state, mRetries, timers, requests, client>> /\ Keep

SubscribeAcquired(n, id) ==
  /\ Subscribing(n, id)
  /\ state[n] = "Acquired" /\ ~EnforceSingle(n)
  /\ client' = Told({id}, "granted")
  /\ subs' = [subs EXCEPT ![n] = addSubscriber(@, id)]
  /\ dropped' = dropped \ {n}
  /\ Post(<<>>)
  /\ UNCHANGED <<state, mRetries, timers, requests>> /\ Keep

(***************************************************************************)
(* unsubscribeRsrc.  An ATL handle is looked for in agnss, then in ds.     *)
(***************************************************************************)
Unsubscribing(n, id) ==
  /\ \/ /\ Take("ReleaseATL") /\ n \in {"agnss", "ds"}
        /\ n = "ds" => First.who \notin IdsIn(subs["agnss"])
     \/ Take("ReleaseWifi") /\ n = "wifi"
  /\ id = First.who /\ id \in IdsIn(subs[n])

NotSubscribed ==
  /\ \/ /\ Take("ReleaseATL")
        /\ First.who \notin IdsIn(subs["agnss"]) \cup IdsIn(subs["ds"])
        /\ client' = Told({First.who}, "closed")
     \/ /\ Take("ReleaseWifi")
        /\ First.who \notin IdsIn(subs["wifi"])
        /\ UNCHANGED client
  /\ Post(<<>>)
  /\ UNCHANGED <<machine, requests, dropped>> /\ Keep

(* Released: the subscriber is told, and stays in the list.                *)
UnsubscribeReleased(n, id) ==
  /\ Unsubscribing(n, id)
  /\ state[n] = "Released"
  /\ client' = Told({id}, "closed")
  /\ Post(<<>>)
  /\ UNCHANGED <<machine, requests, dropped>> /\ Keep

(* The list after it: a subscriber that waits for the close becomes        *)
(* inactive, any other is deleted.                                         *)
Left(n, id) ==
  IF WaitForClose(n)
  THEN [i \in DOMAIN subs[n] |->
          IF subs[n][i].id = id THEN Subscriber(id, TRUE) ELSE subs[n][i]]
  ELSE Pick(subs[n], {i \in DOMAIN subs[n] : subs[n][i].id # id})

(* The client is told, WiFi when the close completes; an interface nobody  *)
(* wants any more is given back.                                           *)
Leave(n, id, unwanted) ==
  LET giveBack == state[n] # "Releasing" /\ unwanted
  IN  /\ Unsubscribing(n, id)
      /\ state[n] # "Released"
      /\ subs' = [subs EXCEPT ![n] = Left(n, id)]
      /\ client' = IF n = "wifi" THEN client ELSE Told({id}, "closed")
      /\ state' = [state EXCEPT ![n] = CASE subs'[n] = <<>> -> "Released"
                                         [] subs'[n] # <<>> /\ giveBack -> "Releasing"
                                         [] OTHER -> @]
      /\ IF giveBack THEN Ask(n, "release") ELSE UNCHANGED requests
      /\ Post(<<>>)
      /\ UNCHANGED <<mRetries, timers, dropped>> /\ Keep

(* Mutant: the interface is given back whoever else still uses it.         *)
UnsubscribeForAll(n, id) == Leave(n, id, TRUE)

(* Without an active subscriber the interface is given back.               *)
Unsubscribe(n, id) == Leave(n, id, Active(Left(n, id)) = <<>>)

(***************************************************************************)
(* onRsrcEvent with what the connectivity service reports                  *)
(***************************************************************************)
(* Mutant of Granted: the search stops at the first active subscriber.     *)
GrantedFirst(n) ==
  /\ Take("Granted") /\ First.who = n
  /\ IF state[n] = "Pending"
     THEN /\ state' = [state EXCEPT ![n] = "Acquired"]
          /\ client' = Told({c \in Ids : hasActiveSubscribers(n) /\ c = Active(subs[n])[1].id},
                            "granted")
     ELSE UNCHANGED <<state, client>>
  /\ Post(<<>>)
  /\ UNCHANGED <<subs, mRetries, timers, requests, dropped>> /\ Keep

Granted(n) ==
  /\ Take("Granted") /\ First.who = n
  /\ IF state[n] = "Pending"
     THEN /\ state' = [state EXCEPT ![n] = "Acquired"]
          /\ client' = Told(IdsIn(Active(subs[n])), "granted")
     ELSE UNCHANGED <<state, client>>
  /\ Post(<<>>)
  /\ UNCHANGED <<subs, mRetries, timers, requests, dropped>> /\ Keep

(* Mutant of ReleasedAcquired: the subscribers are notified and stay.      *)
ReleasedAcquiredKeeps(n) ==
  /\ Take("Released") /\ First.who = n
  /\ state[n] = "Acquired"
  /\ state' = [state EXCEPT ![n] = "Released"]
  /\ client' = IF n = "ds" THEN client ELSE Told(IdsIn(subs[n]), "closed")
  /\ dropped' = dropped \ {n}
  /\ Post(<<>>)
  /\ UNCHANGED <<subs, mRetries, timers, requests>> /\ Keep

(* A connection that is gone while it was held, whoever closed it: all     *)
(* subscribers are told and deleted.  A DSSubscriber only gives back the   *)
(* handle of the closed call (closeDataCall); its client is sent nothing.  *)
ReleasedAcquired(n) ==
  /\ Take("Released") /\ First.who = n
  /\ state[n] = "Acquired"
  /\ state' = [state EXCEPT ![n] = "Released"]
  /\ client' = IF n = "ds" THEN client ELSE Told(IdsIn(subs[n]), "closed")
  /\ subs' = [subs EXCEPT ![n] = <<>>]
  /\ dropped' = dropped \ {n}
  /\ Post(<<>>)
  /\ UNCHANGED <<mRetries, timers, requests>> /\ Keep

(* The close that was waited for, or a denial that crossed the release.    *)
(* The inactive subscribers are told and deleted; if others came meanwhile *)
(* the interface is asked for again.                                       *)
ReleasedReleasing(n) ==
  /\ (Take("Released") \/ Take("Denied")) /\ First.who = n
  /\ state[n] = "Releasing"
  /\ LET left == Active(subs[n]) IN
       /\ subs' = [subs EXCEPT ![n] = left]
       /\ client' = IF n = "ds" THEN client
                    ELSE Told(IdsIn(Inactive(subs[n])),
                              IF First.what = "Denied" THEN "denied" ELSE "closed")
       /\ IF left = <<>>
          THEN /\ state' = [state EXCEPT ![n] = "Released"]
               /\ Post(<<>>) /\ UNCHANGED <<mRetries, timers, requests>>
          ELSE /\ state' = [state EXCEPT ![n] = "Pending"]
               /\ \/ n = "ds" /\ \E outcome \in Outcomes : DsRequest(left, outcome)
                  \/ n # "ds" /\ Ask(n, "request") /\ Post(<<>>) /\ UNCHANGED <<mRetries, timers>>
  /\ UNCHANGED dropped /\ Keep

(* The refusal.  DSStateMachine::onRsrcEvent turns a RELEASED that changed *)
(* nothing into a DENIED, and a denied DSSubscriber falls back to an ATL.  *)
DeniedPending(n) ==
  /\ Take("Denied") \/ (Take("Released") /\ n = "ds")
  /\ First.who = n
  /\ state[n] = "Pending"
  /\ state' = [state EXCEPT ![n] = "Released"]
  /\ subs' = [subs EXCEPT ![n] = <<>>]
  /\ dropped' = dropped \ {n}
  /\ IF n = "ds" /\ subs[n] # <<>>
     THEN mRetries' = 0 /\ Post(FallBack(subs[n])) /\ UNCHANGED client
     ELSE Post(<<>>) /\ client' = Told(IdsIn(subs[n]), "denied") /\ UNCHANGED mRetries
  /\ UNCHANGED <<timers, requests>> /\ Keep

(* An event the state does not expect is dropped.                          *)
UnexpectedEvent(n) ==
  /\ \/ Take("Released") /\ (state[n] = "Released" \/ (state[n] = "Pending" /\ n # "ds"))
     \/ Take("Denied") /\ state[n] \in {"Released", "Acquired"}
  /\ First.who = n
  /\ Post(<<>>)
  /\ UNCHANGED <<machine, requests, client, dropped>> /\ Keep

(* delay_callback: subscribe the first active subscriber again.            *)
retryCallback ==
  /\ timers > 0
  /\ timers' = timers - 1
  /\ LET s == Active(subs["ds"]) IN
       msgs' = msgs \o (IF s = <<>> THEN <<>> ELSE <<Message("RequestSuplEs", s[1].id)>>)
  /\ UNCHANGED <<state, subs, mRetries, requests, client, dropped>> /\ Keep

(* loc_eng_handle_engine_up: dropAllSubscribers of agnss (and internet);   *)
(* the states, wifi and ds are left as they are.                           *)
loc_eng_handle_engine_up ==
  /\ Take("EngineUp")
  /\ subs' = [subs EXCEPT !["agnss"] = <<>>]
  /\ dropped' = IF state["agnss"] = "Released" THEN dropped ELSE dropped \cup {"agnss"}
  /\ Post(<<>>)
  /\ UNCHANGED <<state, mRetries, timers, requests, client>> /\ Keep

-----------------------------------------------------------------------------
MsgTask ==
  \/ \E id \in Ids :
       \/ SubscribeDs(id)
       \/ \E n \in Nifs : \/ SubscribeRefused(n, id)
                          \/ SubscribeReleased(n, id)
                          \/ SubscribeWaiting(n, id)
                          \/ SubscribeAcquired(n, id)
                          \/ UnsubscribeReleased(n, id)
                          \/ Unsubscribe(n, id)
  \/ NotSubscribed
  \/ \E n \in Nifs : \/ Granted(n)
                     \/ ReleasedAcquired(n)
                     \/ ReleasedReleasing(n)
                     \/ DeniedPending(n)
                     \/ UnexpectedEvent(n)
  \/ loc_eng_handle_engine_up

Service(n) ==
  ServiceTakesRequest(n) \/ (\E ok \in BOOLEAN : ServiceAnswers(n, ok)) \/ ServiceCloses(n)

Next ==
  \/ MsgTask
  \/ retryCallback
  \/ \E n \in Nifs : Service(n) \/ ConnectionLost(n)
  \/ \E c \in Ids : ClientAsks(c) \/ ClientReleases(c)
  \/ ModemRestarts

(* The MsgTask thread loops for ever, timers expire, and a connectivity    *)
(* service answers what it was asked.  Nobody has to ask or to let go.     *)
Fairness ==
  /\ WF_vars(MsgTask)
  /\ WF_vars(retryCallback)
  /\ \A n \in Nifs : WF_vars(Service(n))

Spec == Init /\ [][Next]_vars /\ Fairness

-----------------------------------------------------------------------------
(* Properties                                                              *)

(* The variables have their types; the list of a machine that enforces a   *)
(* single subscriber has at most one, and nobody subscribes twice          *)
(* (addSubscriber, subscribeRsrc).  Part of HeldForSubscriber.             *)
TypeOK ==
  /\ service \in Services
  /\ state \in [Nifs -> {"Released", "Pending", "Acquired", "Releasing"}]
  /\ \A n \in Nifs : /\ \A i \in DOMAIN subs[n] :
                           subs[n][i] \in [id : Ids, inactive : BOOLEAN]
                     /\ \A i, j \in DOMAIN subs[n] :
                           subs[n][i].id = subs[n][j].id => i = j
                     /\ EnforceSingle(n) => Len(subs[n]) <= 1
                     /\ \A i \in DOMAIN requests[n] :
                           requests[n][i] \in {"request", "release"}
  /\ mRetries \in 0..MaxRetries /\ timers \in Nat
  /\ conn \in [Nifs -> {"closed", "opening", "open"}]
  /\ client \in [Ids -> {"idle", "asked", "open", "closing"}]
  /\ dropped \subseteq Nifs
  /\ asks \in 0..MaxAsks /\ losses \in 0..MaxLosses /\ restarts \in 0..MaxRestarts

(* Types; and an interface is waited for or held only for a subscriber     *)
(* that still wants it; without one the machine gives it back at once      *)
(* (the checks after an UNSUBSCRIBE, loc_eng_agps.cpp:352-365 and          *)
(* 451-464). The subscribers flushed by a modem restart are the            *)
(* exception. And what the code calls an error it does not know how to     *)
(* recover from, a machine in Released with subscribers (261-265), cannot  *)
(* happen to agnss and wifi.                                               *)
HeldForSubscriber ==
  /\ TypeOK
  /\ \A n \in Nifs \ dropped :
       state[n] \in {"Pending", "Acquired"} => hasActiveSubscribers(n)
  /\ \A n \in {"agnss", "wifi"} : state[n] = "Released" => subs[n] = <<>>

(* A client that was told its connection is open is an active subscriber   *)
(* of a machine that has it: no event of an earlier request leaves it with *)
(* a connection nobody holds for it.  WiFi waits for the close before it   *)
(* asks again, so once everything sent has arrived its machine and the     *)
(* connection agree.                                                       *)
OpenIsHeld ==
  /\ service # "es" =>
       LET n == NifOf[service] IN
       \A c \in Ids : client[c] = "open" =>
         state[n] = "Acquired" /\ c \in IdsIn(Active(subs[n]))
  /\ requests["wifi"] = <<>> /\ conn["wifi"] # "opening" /\ msgs = <<>> =>
       (state["wifi"] = "Acquired" <=> conn["wifi"] = "open")

(* Whoever asks gets an answer (or gives up): no request of an ATL or WiFi *)
(* client is swallowed by a state that does not expect it.                 *)
Answered ==
  \A c \in Ids : service # "es" /\ client[c] = "asked" ~> client[c] # "asked"

=============================================================================
