--------------------------- MODULE LocEngSession ---------------------------
(***************************************************************************)
(* Sessions of the GPS engine: loc_eng.cpp, LocEngAdapter.cpp, loc.cpp of  *)
(* gps/loc_api/libloc_api_50001, and LocApiBase.cpp, UlpProxyBase.h of     *)
(* gps/core.                                                               *)
(*                                                                         *)
(* The framework's thread turns each call into a message to the MsgTask    *)
(* thread, or gives it to a ULP (a location library) which posts the same  *)
(* messages.  The modem, which may restart, posts its reports to the same  *)
(* queue.  MsgTask runs the handlers one by one; they call the modem.      *)
(***************************************************************************)
EXTENDS Integers, Sequences, FiniteSets

CONSTANTS
  LocModes,     \* position modes the framework asks for
  HasMs,        \* CAPABILITIES has MSB or MSA
  IntermediatePos,  \* gps_conf.INTERMEDIATE_POS is LOC_SESS_INTERMEDIATE
  AidingRequests,   \* sets of kinds of aiding data, to be deleted together
  ConfValues,   \* values of a parameter of gps.conf
  InitialConf,  \* the one the file has
  Servers,      \* addresses of the SUPL server
  Outcomes,     \* what startFix returns when the modem is up
  MaxCalls,     \* bound: sessions, and deletions of aiding data, asked for
  MaxReports,   \* bound: position reports
  MaxRestarts,  \* bound: times the modem goes down
  MaxEvents,    \* bound: everything else that may happen
  MaxQueue      \* bound: posts by other threads find fewer messages waiting

ASSUME ModesAreModes == LocModes \cap {"invalid", "none"} = {}
ASSUME HasMsBoolean == HasMs \in BOOLEAN
ASSUME ValuesAreValues ==
  InitialConf \in ConfValues /\ "none" \notin ConfValues \cup Servers
ASSUME OutcomesKnown == Outcomes \subseteq {"success", "phone_offline", "failure"}

VARIABLES
  adapter,      \* loc_eng_data.adapter # NULL
  gps_loc_cb,   \* the framework listens
  mUlp,         \* the ULP proxy: is it a real one, and what the base recorded
  crossed,      \* a call of the framework's met the change of the proxy
  ulpQ,         \* calls a real ULP has still to forward
  mQ,           \* the queue of the MsgTask thread
  mNavigating, mFixCriteria,   \* LocEngAdapter
  mute_session_state, engine_status, aiding_data_for_deletion,
  gps_conf,     \* the parameter
  supl_host,    \* supl_host_buf, or None: supl_host_set
  agps,         \* agps_status_cb # NULL
  task,         \* MsgTask: where it is, and a value it has read
  hal,          \* the framework's thread: the same
  modem,        \* the modem: external
  asked,        \* what the framework asked for last
  refused,      \* the last startFix did not start anything
  stale,        \* an old parameter was posted after a new one
  undeleted,    \* aiding data asked to be deleted and not deleted yet
  replaced,     \* of it, what waited for the engine when another request came
  count         \* bounds: starts, reports, restarts and other events

engVars == <<mute_session_state, engine_status, aiding_data_for_deletion>>
adapterVars == <<mNavigating, mFixCriteria>>
ulpVars == <<mUlp, ulpQ, crossed>>
aidVars == <<undeleted, replaced>>
confVars == <<gps_conf, supl_host, agps, stale>>
halVars == <<adapter, gps_loc_cb, hal, asked>>
vars == <<adapter, gps_loc_cb, mUlp, ulpQ, crossed, mQ, mNavigating, mFixCriteria,
          mute_session_state, engine_status, aiding_data_for_deletion, gps_conf,
          supl_host, agps, task, hal, modem, asked, refused, stale, undeleted,
          replaced, count>>

AidingData == UNION AidingRequests
None == "none"
INVALID == "invalid"
Unset == [mode |-> INVALID, recurrence |-> "periodic"]
Criteria == [mode : LocModes \cup {"standalone", INVALID}, recurrence : {"periodic", "single"}]
NoFix == [mode |-> None, recurrence |-> None]
Quiescent == [at |-> "idle", v |-> None]

Msg(what) == [what |-> what]
Value(what, v) == [what |-> what, v |-> v]
Mode(criteria) == [what |-> "mode", criteria |-> criteria]
post(msgs) == mQ' = mQ \o msgs
sendMsg(msgs) == (msgs # <<>> => Len(mQ) < MaxQueue) /\ post(msgs)

Init ==
  /\ adapter = FALSE /\ gps_loc_cb = FALSE /\ agps = FALSE
  /\ mUlp = [real |-> FALSE, mPosMode |-> Unset, mFixSet |-> FALSE]
  /\ ulpQ = <<>> /\ mQ = <<>> /\ crossed = FALSE
  /\ mNavigating = FALSE /\ mFixCriteria = Unset
  /\ mute_session_state = "none" /\ engine_status = "none"
  /\ aiding_data_for_deletion = {} /\ undeleted = {} /\ replaced = {}
  /\ gps_conf = InitialConf /\ supl_host = None
  /\ task = Quiescent /\ hal = Quiescent
  /\ modem = [up |-> TRUE, fix |-> NoFix, ni |-> FALSE, told |-> FALSE,
              conf |-> None, server |-> None]
  /\ asked = [command |-> "stop", criteria |-> Unset, ulp |-> FALSE]
  /\ refused = FALSE /\ stale = FALSE
  /\ count = [calls |-> 0, reports |-> 0, restarts |-> 0, events |-> 0]

Event ==
  /\ count.events < MaxEvents
  /\ count' = [count EXCEPT !.events = @ + 1]

-----------------------------------------------------------------------------
(* the framework's thread: loc.cpp and the HAL part of loc_eng.cpp *)

\* the framework initializes the AGPS interface before it goes on
Hal == hal.at = "idle" /\ agps

\* the second time there is nothing to do; the memset forgets a server that was
\* set before
loc_eng_init ==
  /\ adapter' = TRUE
  /\ IF adapter THEN UNCHANGED <<mQ, supl_host>>
     ELSE sendMsg(<<Msg("init")>>) /\ supl_host' = None

loc_init ==
  /\ hal.at = "idle" /\ ~gps_loc_cb
  /\ gps_loc_cb' = TRUE
  /\ asked' = [asked EXCEPT !.ulp = TRUE]
  /\ loc_eng_init
  /\ UNCHANGED <<ulpVars, adapterVars, engVars, gps_conf, agps, stale, task, hal, modem,
                 refused, aidVars, count>>

\* loc_eng_agps_init: the server that is known is posted (again)
SetServer(v) == IF v = None THEN <<>> ELSE <<Value("server", v)>>
agps_init ==
  /\ hal.at = "idle" /\ adapter /\ ~agps
  /\ agps' = TRUE
  /\ sendMsg(IF HasMs THEN SetServer(supl_host) ELSE <<>>)
  /\ UNCHANGED <<halVars, ulpVars, adapterVars, engVars, gps_conf, supl_host, stale, task,
                 modem, refused, aidVars, count>>

\* where MsgTask is while it replaces the base proxy
Swapping == {"told mode", "told fix"}

\* what the framework has asked for once its call has returned
Asks(call) ==
  asked' = CASE call.what = "mode" -> [asked EXCEPT !.criteria = call.criteria]
             [] call.what = "start" -> [asked EXCEPT !.command = "start"]
             [] call.what = "stop" -> [asked EXCEPT !.command = "stop", !.criteria = Unset]

\* Mutant: the base proxy forgets a stop.
RecordedKeepsFixSet(call) ==
  IF call.what = "mode" THEN [mUlp EXCEPT !.mPosMode = call.criteria]
  ELSE [mUlp EXCEPT !.mFixSet = @ \/ call.what = "start"]

Recorded(call) ==
  IF call.what = "mode" THEN [mUlp EXCEPT !.mPosMode = call.criteria]
  ELSE [mUlp EXCEPT !.mFixSet = (call.what = "start")]

\* getUlpProxy()->send...: a real ULP takes the call.  The base class records it
\* and the caller then posts the message itself.  MsgTask, which takes no lock,
\* may replace the base proxy meanwhile.  Reading the pointer and recording are
\* one step: what is recorded after the proxy has been deleted is lost just as
\* what is recorded after the new ULP was told.  (What else a call through a
\* deleted object may do, and a copy of mPosMode taken half-way through its
\* assignment, are not given.)
ToUlp(call) ==
  /\ refused' = (refused /\ call.what # "start")
  /\ IF mUlp.real
     THEN ulpQ' = Append(ulpQ, call) /\ Asks(call) /\ UNCHANGED <<mUlp, crossed, hal>>
     ELSE /\ mUlp' = Recorded(call)
          /\ hal' = [at |-> "send", v |-> call]
          /\ crossed' = (crossed \/ task.at \in Swapping)
          /\ UNCHANGED <<ulpQ, asked>>

SendCall ==
  /\ hal.at = "send"
  /\ sendMsg(<<hal.v>>)
  /\ Asks(hal.v) /\ hal' = Quiescent
  /\ UNCHANGED <<adapter, gps_loc_cb, ulpVars, adapterVars, engVars, confVars, task, modem,
                 refused, aidVars, count>>

\* without MSA and MSB only standalone positioning is left
loc_eng_set_position_mode(mode, recurrence) ==
  ToUlp(Mode([mode |-> IF HasMs THEN mode ELSE "standalone", recurrence |-> recurrence]))

loc_set_position_mode(mode, recurrence) ==
  /\ Hal /\ asked.command = "stop" /\ asked.criteria = Unset
  /\ count.calls < MaxCalls
  /\ loc_eng_set_position_mode(mode, recurrence)
  /\ UNCHANGED <<adapter, gps_loc_cb, mQ, adapterVars, engVars, confVars, task, modem, aidVars,
                 count>>

loc_start ==
  /\ Hal /\ asked.command = "stop" /\ asked.criteria # Unset
  /\ count' = [count EXCEPT !.calls = @ + 1]
  /\ ToUlp(Msg("start"))
  /\ UNCHANGED <<adapter, gps_loc_cb, mQ, adapterVars, engVars, confVars, task, modem, aidVars>>

loc_stop ==
  /\ Hal /\ asked.command = "start"
  /\ ToUlp(Msg("stop"))
  /\ UNCHANGED <<adapter, gps_loc_cb, mQ, adapterVars, engVars, confVars, task, modem, aidVars,
                 count>>

\* a session is stopped if MsgTask has started it by now; nothing is deleted
loc_eng_cleanup ==
  IF mNavigating THEN ToUlp(Msg("stop")) ELSE UNCHANGED <<asked, refused, hal, ulpVars>>

loc_cleanup ==
  /\ Hal /\ gps_loc_cb /\ Event
  /\ gps_loc_cb' = FALSE
  /\ loc_eng_cleanup
  /\ UNCHANGED <<adapter, mQ, adapterVars, engVars, confVars, task, modem, aidVars>>

loc_delete_aiding_data(f) ==
  /\ Hal /\ count.calls < MaxCalls
  /\ count' = [count EXCEPT !.calls = @ + 1]
  /\ undeleted' = undeleted \cup f /\ replaced' = replaced \ f
  /\ sendMsg(<<[what |-> "delete", types |-> f]>>)
  /\ UNCHANGED <<halVars, ulpVars, adapterVars, engVars, confVars, task, modem, refused>>

\* loc_eng_set_server_proxy: before init the address is only kept
loc_agps_set_server(v) ==
  /\ hal.at = "idle" /\ Event
  /\ supl_host' = v
  /\ sendMsg(IF adapter THEN SetServer(v) ELSE <<>>)
  /\ UNCHANGED <<halVars, ulpVars, adapterVars, engVars, gps_conf, agps, stale, task, modem,
                 refused, aidVars>>

\* loc_eng_configuration_update writes gps_conf; it posts what has changed
configuration_update(v) ==
  /\ hal.at = "idle" /\ Event
  /\ gps_conf' = v
  /\ hal' = IF adapter /\ v # gps_conf THEN [at |-> "post", v |-> v] ELSE hal
  /\ UNCHANGED <<adapter, gps_loc_cb, asked, ulpVars, mQ, adapterVars, engVars, supl_host, agps,
                 stale, task, modem, refused, aidVars>>

PostUpdate ==
  /\ hal.at = "post"
  /\ sendMsg(<<Value("conf", hal.v)>>)
  /\ hal' = Quiescent /\ stale' = FALSE
  /\ UNCHANGED <<adapter, gps_loc_cb, asked, ulpVars, adapterVars, engVars, gps_conf, supl_host,
                 agps, task, modem, refused, aidVars, count>>

-----------------------------------------------------------------------------
(* ULP: external but for its registration *)

\* requestUlp is answered with setUlpProxy, a message
requestUlp ==
  /\ asked.ulp /\ Event
  /\ asked' = [asked EXCEPT !.ulp = FALSE]
  /\ sendMsg(<<Msg("ulp")>>)
  /\ UNCHANGED <<adapter, gps_loc_cb, hal, ulpVars, adapterVars, engVars, confVars, task, modem,
                 refused, aidVars>>

\* startFixInt, stopFixInt, setPositionModeInt
ForwardInt ==
  /\ ulpQ # <<>>
  /\ sendMsg(<<Head(ulpQ)>>) /\ ulpQ' = Tail(ulpQ)
  /\ UNCHANGED <<halVars, mUlp, crossed, adapterVars, engVars, confVars, task, modem, refused,
                 aidVars, count>>

-----------------------------------------------------------------------------
(* the MsgTask thread *)

Receive(what) == task.at = "idle" /\ mQ # <<>> /\ Head(mQ).what = what
Taken == mQ' = Tail(mQ)
outside == <<halVars, ulpVars, confVars, count>>

\* LocEngAdapter::setUlpProxy: the new ULP is told the mode that the base proxy
\* recorded,
setUlpProxy ==
  /\ Receive("ulp") /\ Taken
  /\ IF mUlp.real THEN UNCHANGED <<ulpVars, task>>
     ELSE /\ ulpQ' = IF mUlp.mPosMode.mode # INVALID THEN <<Mode(mUlp.mPosMode)>> ELSE <<>>
          /\ crossed' = (crossed \/ hal.at = "send")
          /\ task' = [at |-> "told mode", v |-> None]
          /\ UNCHANGED mUlp
  /\ UNCHANGED <<halVars, confVars, count, modem, refused, aidVars, engVars, adapterVars>>

\* then the start,
setUlpProxyFix ==
  /\ task.at = "told mode"
  /\ ulpQ' = ulpQ \o (IF mUlp.mFixSet THEN <<Msg("start")>> ELSE <<>>)
  /\ task' = [at |-> "told fix", v |-> None]
  /\ UNCHANGED <<halVars, mUlp, crossed, mQ, confVars, count, modem, refused, aidVars, engVars,
                 adapterVars>>

\* and takes the place of the base proxy
setUlpProxyKept ==
  /\ task.at = "told fix"
  /\ mUlp' = [mUlp EXCEPT !.real = TRUE]
  /\ task' = Quiescent
  /\ UNCHANGED <<halVars, ulpQ, crossed, mQ, confVars, count, modem, refused, aidVars, engVars,
                 adapterVars>>

\* setPositionMode: the next startFix takes the criteria to the modem
LocEngPositionMode ==
  /\ Receive("mode") /\ Taken
  /\ mFixCriteria' = Head(mQ).criteria
  /\ UNCHANGED <<outside, task, mNavigating, engVars, modem, refused, aidVars>>

setInSession(inSession) ==
  /\ mNavigating' = inSession
  /\ mFixCriteria' = [mFixCriteria EXCEPT !.mode = IF inSession THEN @ ELSE INVALID]

\* startFix, and the session flag that its result sets
StartSession(criteria) ==
  \E o \in IF modem.up THEN Outcomes ELSE {"engine_down"} :
    /\ modem' = [modem EXCEPT !.fix = IF o = "success" THEN criteria ELSE @]
    /\ refused' = (o \in {"phone_offline", "failure"})
    /\ mNavigating' = (o # "failure")
    /\ mFixCriteria' = criteria

loc_eng_start_handler ==
  /\ Receive("start") /\ Taken
  /\ IF mNavigating THEN UNCHANGED <<adapterVars, modem, refused>>
     ELSE StartSession(mFixCriteria)
  /\ UNCHANGED <<outside, task, engVars, aidVars>>

loc_eng_stop_handler ==
  /\ Receive("stop") /\ Taken
  /\ IF mNavigating
     THEN setInSession(FALSE) /\ modem' = [modem EXCEPT !.fix = NoFix]
     ELSE UNCHANGED <<adapterVars, modem>>
  /\ UNCHANGED <<outside, task, engVars, refused, aidVars>>

\* LocEngReportPosition::proc: a report that reaches the framework ends a
\* single-shot session.  The report's status is not what is compared with
\* LOC_SESS_INTERMEDIATE; the configuration is.
Reported(report) ==
  /\ mute_session_state # "in session"
  /\ \/ report.status = "failure"
     \/ report.status = "success" /\ report.source = "satellite"
     \/ IntermediatePos /\ report.source = "accurate"

LocEngReportPosition ==
  /\ Receive("position") /\ Taken
  /\ LET report == Head(mQ).report
     IN IF Reported(report) /\ mFixCriteria.recurrence = "single"
        THEN /\ setInSession(FALSE)
             /\ modem' = [modem EXCEPT !.fix = IF report.status = "intermediate" THEN NoFix ELSE @]
        ELSE UNCHANGED <<adapterVars, modem>>
  /\ UNCHANGED <<outside, task, engVars, refused, aidVars>>

\* Mutant: deleted only if the engine is not on when that is asked.
deleteAidingDataAtOnce(status, f) ==
  /\ aiding_data_for_deletion' = {}
  /\ undeleted' = IF status # "on" THEN undeleted \ f ELSE undeleted
  /\ replaced' = (replaced \cup aiding_data_for_deletion) \ f

\* update_aiding_data_for_deletion, with f for what waits
deleteAidingData(status, f) ==
  /\ aiding_data_for_deletion' = IF status # "on" THEN {} ELSE f
  /\ undeleted' = IF status # "on" THEN undeleted \ f ELSE undeleted
  /\ replaced' = (replaced \cup aiding_data_for_deletion) \ f

\* a request replaces one that waits, whose aiding data then stays
LocEngDelAidData ==
  /\ Receive("delete") /\ Taken
  /\ deleteAidingData(engine_status, Head(mQ).types)
  /\ UNCHANGED <<outside, task, mute_session_state, engine_status, adapterVars, modem, refused>>

\* Mutant: only SESSION_END ends the muted session.
loc_eng_report_statusSession(status) ==
  /\ mute_session_state' =
       CASE status \in {"begin", "on"} /\ mute_session_state = "wait" -> "in session"
         [] status = "end" /\ mute_session_state = "in session" -> "none"
         [] OTHER -> mute_session_state
  /\ engine_status' = IF status \in {"on", "off"} THEN status ELSE engine_status

loc_eng_report_status(status) ==
  /\ mute_session_state' =
       CASE status \in {"begin", "on"} /\ mute_session_state = "wait" -> "in session"
         [] status \in {"end", "off"} /\ mute_session_state = "in session" -> "none"
         [] OTHER -> mute_session_state
  /\ engine_status' = IF status \in {"on", "off"} THEN status ELSE engine_status

LocEngReportStatus ==
  /\ Receive("status") /\ Taken
  /\ loc_eng_report_status(Head(mQ).v)
  /\ deleteAidingData(engine_status', aiding_data_for_deletion)
  /\ UNCHANGED <<outside, task, adapterVars, modem, refused>>

\* loc_eng_mute_one_session, by a request whose flags override privacy
loc_eng_mute_one_session ==
  /\ Receive("ni") /\ Taken
  /\ mute_session_state' = "wait"
  /\ UNCHANGED <<outside, task, engine_status, aiding_data_for_deletion, adapterVars, modem,
                 refused, aidVars>>

\* setSUPLVersion, setAGLONASSProtocol, setLPPConfig, the sensors' parameters
LocEngConfigure ==
  /\ Receive("conf") /\ Taken
  /\ modem' = IF modem.up THEN [modem EXCEPT !.conf = Head(mQ).v] ELSE modem
  /\ UNCHANGED <<outside, task, adapterVars, engVars, refused, aidVars>>

\* LocEngSetServerUrl, LocEngSetServerIpv4
LocEngSetServer ==
  /\ Receive("server") /\ Taken
  /\ modem' = IF modem.up THEN [modem EXCEPT !.server = Head(mQ).v] ELSE modem
  /\ UNCHANGED <<outside, task, adapterVars, engVars, refused, aidVars>>

\* the deletion that waits is not made here
loc_eng_handle_engine_down ==
  /\ Receive("down") /\ Taken
  /\ loc_eng_report_status("off")
  /\ UNCHANGED <<outside, task, aiding_data_for_deletion, adapterVars, modem, refused, aidVars>>

\* LocSsrMsg: close ends what the old handle runs, then open
LocSsrMsg ==
  /\ Receive("ssr") /\ Taken
  /\ modem' = [modem EXCEPT !.fix = NoFix]
  /\ UNCHANGED <<outside, task, adapterVars, engVars, refused, aidVars>>

\* loc_eng_reinit, for LocEngInit and LocEngUp: the parameter is read and then
\* posted, whatever the framework's thread does in between
loc_eng_reinit ==
  /\ Receive("init") \/ Receive("up")
  /\ Taken
  /\ task' = [at |-> Head(mQ).what, v |-> gps_conf]
  /\ UNCHANGED <<outside, adapterVars, engVars, modem, refused, aidVars>>

PostConf(more) ==
  /\ post(<<Value("conf", task.v)>> \o more)
  /\ stale' = (task.v # gps_conf)
  /\ task' = Quiescent

LocEngInit ==
  /\ task.at = "init"
  /\ PostConf(<<>>)
  /\ UNCHANGED <<halVars, ulpVars, gps_conf, supl_host, agps, count, adapterVars, engVars,
                 modem,
                 refused, aidVars>>

\* Mutant: the session is only taken up again, not started.
loc_eng_handle_engine_upFlagOnly ==
  /\ task.at = "up"
  /\ PostConf(IF agps THEN SetServer(supl_host) ELSE <<>>)
  /\ UNCHANGED <<adapterVars, modem, refused>>
  /\ UNCHANGED <<halVars, ulpVars, gps_conf, supl_host, agps, count, engVars, aidVars>>

\* "If we crashed in the middle of navigating, we restart": with a mode that
\* setInSession(false) has made invalid
loc_eng_handle_engine_up ==
  /\ task.at = "up"
  /\ PostConf(IF agps THEN SetServer(supl_host) ELSE <<>>)
  /\ IF mNavigating THEN StartSession([mFixCriteria EXCEPT !.mode = INVALID])
     ELSE UNCHANGED <<adapterVars, modem, refused>>
  /\ UNCHANGED <<halVars, ulpVars, gps_conf, supl_host, agps, count, engVars, aidVars>>

-----------------------------------------------------------------------------
(* the modem: external.  Its reports are posted by LocApiBase's fan-out. *)

ModemPosts(msgs) ==
  /\ sendMsg(msgs)
  /\ UNCHANGED <<halVars, ulpVars, adapterVars, engVars, confVars, task, refused, aidVars>>

active == modem.fix # NoFix \/ modem.ni

\* LocEngAdapter::reportStatus
reportStatus ==
  /\ modem.up /\ adapter /\ modem.told # active
  /\ modem' = [modem EXCEPT !.told = active]
  /\ ModemPosts(IF active THEN <<Value("status", "begin"), Value("status", "on")>>
                ELSE <<Value("status", "end"), Value("status", "off")>>)
  /\ UNCHANGED count

\* a single-shot session ends with its final position; an intermediate one that
\* is not accurate has no effect and is left out
Reports ==
  [status : {"success"}, source : {"satellite", "cell"}]
  \cup [status : {"intermediate"}, source : {"accurate"}]
  \cup [status : {"failure"}, source : {"cell"}]
reportPosition(r) ==
  /\ active /\ count.reports < MaxReports
  /\ count' = [count EXCEPT !.reports = @ + 1]
  /\ modem' = [modem EXCEPT !.fix =
       IF @.recurrence = "single" /\ r.status # "intermediate" THEN NoFix ELSE @]
  /\ ModemPosts(<<[what |-> "position", report |-> r]>>)

\* a network-initiated session
requestNiNotify ==
  /\ modem.up /\ adapter /\ ~modem.ni /\ Event
  /\ modem' = [modem EXCEPT !.ni = TRUE]
  /\ ModemPosts(<<Msg("ni")>>)

NiEnds ==
  /\ modem.ni
  /\ modem' = [modem EXCEPT !.ni = FALSE]
  /\ UNCHANGED count
  /\ ModemPosts(<<>>)

handleEngineDownEvent ==
  /\ modem.up /\ adapter /\ count.restarts < MaxRestarts
  /\ count' = [count EXCEPT !.restarts = @ + 1]
  /\ modem' = [modem EXCEPT !.up = FALSE, !.fix = NoFix, !.ni = FALSE, !.told = FALSE,
                            !.conf = None, !.server = None]
  /\ ModemPosts(<<Msg("down")>>)

handleEngineUpEvent ==
  /\ ~modem.up
  /\ modem' = [modem EXCEPT !.up = TRUE]
  /\ UNCHANGED count
  /\ ModemPosts(<<Msg("ssr"), Msg("up")>>)

-----------------------------------------------------------------------------
MsgTask ==
  \/ setUlpProxy \/ setUlpProxyFix \/ setUlpProxyKept
  \/ LocEngPositionMode \/ loc_eng_start_handler \/ loc_eng_stop_handler
  \/ LocEngReportPosition \/ LocEngDelAidData \/ LocEngReportStatus
  \/ loc_eng_mute_one_session \/ LocEngConfigure \/ LocEngSetServer
  \/ loc_eng_handle_engine_down \/ LocSsrMsg
  \/ loc_eng_reinit \/ LocEngInit \/ loc_eng_handle_engine_up

Framework ==
  \/ loc_init \/ agps_init \/ loc_start \/ loc_stop \/ loc_cleanup
  \/ \E m \in LocModes, r \in {"periodic", "single"} : loc_set_position_mode(m, r)
  \/ \E f \in AidingRequests : loc_delete_aiding_data(f)
  \/ \E v \in Servers : loc_agps_set_server(v)
  \/ \E v \in ConfValues : configuration_update(v)

Modem ==
  \/ reportStatus \/ requestNiNotify \/ NiEnds \/ handleEngineDownEvent
  \/ \E r \in Reports : reportPosition(r)

\* the rest of a call
HalSteps == PostUpdate \/ SendCall

Next == \/ Framework \/ HalSteps \/ requestUlp \/ ForwardInt
        \/ MsgTask \/ Modem \/ handleEngineUpEvent

Spec == /\ Init /\ [][Next]_vars
        /\ WF_vars(MsgTask) /\ WF_vars(ForwardInt) /\ WF_vars(HalSteps)
        /\ WF_vars(handleEngineUpEvent)

-----------------------------------------------------------------------------
\* what a message carries
Typed(m) ==
  CASE m.what = "mode" -> m.criteria \in Criteria
    [] m.what = "position" -> m.report \in Reports
    [] m.what = "status" -> m.v \in {"begin", "end", "on", "off"}
    [] m.what = "delete" -> m.types \subseteq AidingData
    [] m.what = "conf" -> m.v \in ConfValues
    [] m.what = "server" -> m.v \in Servers
    [] OTHER -> m.what \in {"init", "start", "stop", "ulp", "ni", "down", "ssr", "up"}

\* Every variable has its type, and only a real ULP has calls to forward.
TypeOK ==
  /\ {adapter, gps_loc_cb, agps, mNavigating, refused, stale, crossed} \subseteq BOOLEAN
  /\ mUlp \in [real : BOOLEAN, mPosMode : Criteria, mFixSet : BOOLEAN]
  /\ \A i \in DOMAIN mQ : Typed(mQ[i])
  /\ \A i \in DOMAIN ulpQ : ulpQ[i].what \in {"mode", "start", "stop"} /\ Typed(ulpQ[i])
  /\ mFixCriteria \in Criteria
  /\ mute_session_state \in {"none", "wait", "in session"}
  /\ engine_status \in {"none", "on", "off"}
  /\ aiding_data_for_deletion \subseteq AidingData /\ {undeleted, replaced} \subseteq SUBSET AidingData
  /\ gps_conf \in ConfValues /\ supl_host \in Servers \cup {None}
  /\ task \in [at : {"idle", "init", "up"} \cup Swapping, v : ConfValues \cup {None}]
  /\ IF hal.at = "send"
     THEN hal.v.what \in {"mode", "start", "stop"} /\ Typed(hal.v)
     ELSE hal \in [at : {"idle", "post"}, v : ConfValues \cup {None}]
  /\ modem \in [up : BOOLEAN, fix : Criteria \cup {NoFix}, ni : BOOLEAN,
                told : BOOLEAN,
                conf : ConfValues \cup {None}, server : Servers \cup {None}]
  /\ asked \in [command : {"start", "stop"}, criteria : Criteria, ulp : BOOLEAN]
  /\ ~mUlp.real /\ task.at \notin Swapping => ulpQ = <<>>

\* Nothing is under way between the framework, ULP, MsgTask and modem.
Settled ==
  /\ adapter /\ modem.up /\ mQ = <<>> /\ ulpQ = <<>> /\ task.at = "idle" /\ hal.at = "idle"
  /\ modem.told = active

periodic(criteria) == criteria.recurrence = "periodic"

\* The engine runs what the framework asked for, across modem restarts, updates
\* that cross, and a ULP that is put in between: no periodic session goes on
\* after its stop, one that is taken to run runs or was refused, with the mode
\* asked for unless the modem restarted, and the modem is configured as
\* gps_conf and the server's address say, unless reinit posted what it had
\* read before an update; the address is posted again after a restart only
\* with MSA or MSB.  A single-shot session may outlive its flag: the last
\* report of one before it clears that.  If a call of the framework's meets the
\* change of the proxy, what is asked for later may be overtaken: a stop by the
\* start that the new ULP forwards, and the session goes on.
SessionAgrees ==
  /\ TypeOK
  /\ Settled =>
       /\ ~crossed =>
            /\ asked.command = "stop" => ~mNavigating /\ ~periodic(modem.fix)
            /\ mNavigating /\ periodic(mFixCriteria) => modem.fix # NoFix \/ refused
            /\ periodic(modem.fix) /\ count.restarts = 0 => modem.fix = asked.criteria
       /\ ~stale => modem.conf = gps_conf
       /\ supl_host # None /\ ((agps /\ HasMs) \/ count.restarts = 0)
            => modem.server = supl_host

\* "If the GPS engine is off, the aiding data will be deleted. Otherwise, the
\* actual action will happen when gps engine is turned off", by the modem's
\* report; a modem that goes down makes no such report, and a request that
\* waits is forgotten when another one comes.
AidingDeleted ==
  Settled /\ ~active /\ count.restarts = 0 => undeleted \subseteq replaced

\* "Mutes one session": muting ends with it, even if the modem goes down
\* before it has said so, and does not swallow the reports of all later ones.
MuteEnds == Settled /\ ~active => mute_session_state # "in session"

\* A periodic session that is asked for starts, or is stopped, or the modem
\* refuses it, even if the modem is down at that moment or restarts later.
StartAnswered ==
  asked.command = "start" /\ periodic(asked.criteria)
    ~> modem.fix # NoFix \/ asked.command = "stop" \/ refused \/ crossed
=============================================================================
