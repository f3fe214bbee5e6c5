---------------------------- MODULE RadioRequests ----------------------------
(***************************************************************************)
(* What each method of IRadio does with the heap on its way to the vendor: *)
(* ril_service.cpp's RadioImpl and the dispatch functions it calls, as a   *)
(* table from the method to the programs it may run.  A program is the     *)
(* request's code, the steps that may fail, each with the blocks its error *)
(* path frees, and the blocks freed once onRequest has returned.  RadioInterface *)
(* runs these programs.  A method has several programs where its arguments *)
(* or the vendor's version v choose between them.                          *)
(***************************************************************************)
EXTENDS Integers, TLC, SequencesExt

CONSTANT MaxProfiles  \* profiles in a setDataProfile

ASSUME ProfilesBound == MaxProfiles \in Nat

-----------------------------------------------------------------------------
\* heap blocks: one a variable or field names, and the i-th string of an array
F(name) == <<name, 0>>
E(name, i) == <<name, i>>
Names(s) == {F(n) : n \in s}

\* a step that fails answers with one of errors and frees the blocks of undo
Alloc(b, undo) ==
  [do |-> "alloc", block |-> b, mayBeNull |-> FALSE, undo |-> undo,
   errors |-> {"NO_MEMORY"}]

\* operator new aborts the process instead of failing
New(b) ==
  [do |-> "alloc", block |-> b, mayBeNull |-> FALSE, undo |-> {}, errors |-> {}]

copyHidlStringToRil(b, allowEmpty, undo) ==
  [do |-> "copy", block |-> b, mayBeNull |-> ~allowEmpty, undo |-> undo,
   errors |-> {"NO_MEMORY", "INTERNAL_ERR"}]

Check(e, undo) ==
  [do |-> "check", block |-> F("none"), mayBeNull |-> FALSE, undo |-> undo,
   errors |-> {e}]

\* the arguments leave no way on
Refuse(e) ==
  [do |-> "refuse", block |-> F("none"), mayBeNull |-> FALSE, undo |-> {},
   errors |-> {e}]

\* raw: pointers that hold garbage until a step sets them
\* unchecked: what addRequestToList returned is used without a look at it
Program(code, steps, frees) ==
  [code |-> code, steps |-> steps, frees |-> frees, raw |-> {},
   unchecked |-> FALSE]

-----------------------------------------------------------------------------
\* the dispatch functions
Void(code) == {Program(code, <<>>, {})}

\* a structure on the stack, or the client's own bytes: nothing on the heap
Value(code) == {Program(code, <<>>, {})}

dispatchString(code) ==
  {[Program(code, <<copyHidlStringToRil(F("pString"), FALSE, {})>>, {F("pString")})
      EXCEPT !.raw = {F("pString")}]}

\* the strings before the i-th and their array go when the i-th fails
dispatchStrings(code, allowEmpty, n) ==
  LET upTo(i) == {E("pStrings", j) : j \in 0..i}
  IN {Program(code,
        <<Alloc(E("pStrings", 0), {})>> \o
          [i \in 1..n |-> copyHidlStringToRil(E("pStrings", i), allowEmpty, upTo(i - 1))],
        upTo(n))}

dispatchInts(code) == {Program(code, <<Alloc(F("pInts"), {})>>, {F("pInts")})}

dispatchCallForwardStatus(code) ==
  {[Program(code, <<copyHidlStringToRil(F("number"), FALSE, {})>>, {F("number")})
      EXCEPT !.raw = {F("number")}]}

dispatchIccApdu(code) ==
  {Program(code, <<copyHidlStringToRil(F("data"), FALSE, {})>>, {F("data")})}

BroadcastConfig(code) ==
  {Program(code, <<Check("INVALID_ARGUMENTS", {}), New(F("Bci"))>>, {F("Bci")})}

-----------------------------------------------------------------------------
CardMethods ==
  "getIccCardStatus" :> Void("GET_SIM_STATUS") @@
  "supplyIccPinForApp" :> dispatchStrings("ENTER_SIM_PIN", TRUE, 2) @@
  "supplyIccPukForApp" :> dispatchStrings("ENTER_SIM_PUK", TRUE, 3) @@
  "supplyIccPin2ForApp" :> dispatchStrings("ENTER_SIM_PIN2", TRUE, 2) @@
  "supplyIccPuk2ForApp" :> dispatchStrings("ENTER_SIM_PUK2", TRUE, 3) @@
  "changeIccPinForApp" :> dispatchStrings("CHANGE_SIM_PIN", TRUE, 3) @@
  "changeIccPin2ForApp" :> dispatchStrings("CHANGE_SIM_PIN2", TRUE, 3) @@
  "supplyNetworkDepersonalization" :> dispatchStrings("ENTER_NETWORK_DEPERSONALIZATION", TRUE, 1) @@
  "getCurrentCalls" :> Void("GET_CURRENT_CALLS")

\* the user-to-user data is copied only when the call has some
dial ==
  LET address == copyHidlStringToRil(F("address"), FALSE, {})
      uusData == copyHidlStringToRil(F("uusData"), FALSE, {F("address")})
  IN {Program("DIAL", steps, Names({"address", "uusData"})) :
        steps \in {<<address>>, <<address, uusData>>}}

CallMethods ==
  "getImsiForApp" :> dispatchStrings("GET_IMSI", FALSE, 1) @@
  "hangup" :> dispatchInts("HANGUP") @@
  "hangupWaitingOrBackground" :> Void("HANGUP_WAITING_OR_BACKGROUND") @@
  "hangupForegroundResumeBackground" :> Void("HANGUP_FOREGROUND_RESUME_BACKGROUND") @@
  "switchWaitingOrHoldingAndActive" :> Void("SWITCH_WAITING_OR_HOLDING_AND_ACTIVE") @@
  "conference" :> Void("CONFERENCE") @@ "rejectCall" :> Void("UDUB") @@
  "getLastCallFailCause" :> Void("LAST_CALL_FAIL_CAUSE") @@
  "getSignalStrength" :> Void("SIGNAL_STRENGTH") @@
  "getVoiceRegistrationState" :> Void("VOICE_REGISTRATION_STATE") @@
  "getDataRegistrationState" :> Void("DATA_REGISTRATION_STATE") @@
  "getOperator" :> Void("OPERATOR") @@
  "setRadioPower" :> dispatchInts("RADIO_POWER") @@
  "sendDtmf" :> dispatchString("DTMF") @@
  "sendSms" :> dispatchStrings("SEND_SMS", FALSE, 2) @@
  "sendSMSExpectMore" :> dispatchStrings("SEND_SMS_EXPECT_MORE", FALSE, 2)

\* unknown mvnoType: the request is refused before anything is copied
setupDataCall(v) ==
  IF v =< 14
  THEN dispatchStrings("SETUP_DATA_CALL", TRUE, 7)
  ELSE dispatchStrings("SETUP_DATA_CALL", TRUE, 15) \cup
         {Program("SETUP_DATA_CALL", <<Refuse("INVALID_ARGUMENTS")>>, {})}

\* Mutant: the AID is not freed after the request.
iccIOForAppLeaks ==
  {Program("SIM_IO",
     <<copyHidlStringToRil(F("path"), FALSE, {}),
       copyHidlStringToRil(F("data"), FALSE, Names({"path"})),
       copyHidlStringToRil(F("pin2"), FALSE, Names({"path", "data"})),
       copyHidlStringToRil(F("aidPtr"), FALSE, Names({"path", "data", "pin2"}))>>,
     Names({"path", "data", "pin2"}))}

iccIOForApp ==
  {Program("SIM_IO",
     <<copyHidlStringToRil(F("path"), FALSE, {}),
       copyHidlStringToRil(F("data"), FALSE, Names({"path"})),
       copyHidlStringToRil(F("pin2"), FALSE, Names({"path", "data"})),
       copyHidlStringToRil(F("aidPtr"), FALSE, Names({"path", "data", "pin2"}))>>,
     Names({"path", "data", "pin2", "aidPtr"}))}

UssdToNetworkMethods ==
  "sendUssd" :> dispatchString("SEND_USSD") @@
  "cancelPendingUssd" :> Void("CANCEL_USSD") @@ "getClir" :> Void("GET_CLIR") @@
  "setClir" :> dispatchInts("SET_CLIR") @@
  "getCallForwardStatus" :> dispatchCallForwardStatus("QUERY_CALL_FORWARD_STATUS") @@
  "setCallForward" :> dispatchCallForwardStatus("SET_CALL_FORWARD") @@
  "getCallWaiting" :> dispatchInts("QUERY_CALL_WAITING") @@
  "setCallWaiting" :> dispatchInts("SET_CALL_WAITING") @@
  "acknowledgeLastIncomingGsmSms" :> dispatchInts("SMS_ACKNOWLEDGE") @@
  "acceptCall" :> Void("ANSWER") @@
  "deactivateDataCall" :> dispatchStrings("DEACTIVATE_DATA_CALL", FALSE, 2) @@
  "getFacilityLockForApp" :> dispatchStrings("QUERY_FACILITY_LOCK", TRUE, 4) @@
  "setFacilityLockForApp" :> dispatchStrings("SET_FACILITY_LOCK", TRUE, 5) @@
  "setBarringPassword" :> dispatchStrings("CHANGE_BARRING_PASSWORD", TRUE, 3) @@
  "getNetworkSelectionMode" :> Void("QUERY_NETWORK_SELECTION_MODE") @@
  "setNetworkSelectionModeAutomatic" :> dispatchStrings("SET_NETWORK_SELECTION_AUTOMATIC", FALSE, 0)

setNetworkSelectionModeManual ==
  dispatchStrings("SET_NETWORK_SELECTION_MANUAL", TRUE, 1)

startNetworkScan == {Program("START_NETWORK_SCAN", <<Check("INVALID_ARGUMENTS", {})>>, {})}

DtmfMethods ==
  "stopNetworkScan" :> Void("STOP_NETWORK_SCAN") @@
  "startDtmf" :> dispatchString("DTMF_START") @@ "stopDtmf" :> Void("DTMF_STOP") @@
  "getBasebandVersion" :> Void("BASEBAND_VERSION") @@
  "separateConnection" :> dispatchInts("SEPARATE_CONNECTION") @@
  "setMute" :> dispatchInts("SET_MUTE") @@ "getMute" :> Void("GET_MUTE") @@
  "getClip" :> Void("QUERY_CLIP") @@ "getDataCallList" :> Void("DATA_CALL_LIST") @@
  "setSuppServiceNotifications" :> dispatchInts("SET_SUPP_SVC_NOTIFICATION")

\* Mutant: the first error path frees the second pointer too.
writeSmsToSimFreesBoth ==
  {[Program("WRITE_SMS_TO_SIM",
      <<copyHidlStringToRil(F("pdu"), FALSE, Names({"pdu", "smsc"})),
        copyHidlStringToRil(F("smsc"), FALSE, {F("pdu")})>>,
      Names({"pdu", "smsc"}))
     EXCEPT !.raw = Names({"pdu", "smsc"})]}

\* args is not cleared: both pointers are garbage until they are copied
writeSmsToSim ==
  {[Program("WRITE_SMS_TO_SIM",
      <<copyHidlStringToRil(F("pdu"), FALSE, {}),
        copyHidlStringToRil(F("smsc"), FALSE, {F("pdu")})>>,
      Names({"pdu", "smsc"}))
     EXCEPT !.raw = Names({"pdu", "smsc"})]}

StkMethods ==
  "deleteSmsOnSim" :> dispatchInts("DELETE_SMS_ON_SIM") @@
  "setBandMode" :> dispatchInts("SET_BAND_MODE") @@
  "getAvailableBandModes" :> Void("QUERY_AVAILABLE_BAND_MODE") @@
  "sendEnvelope" :> dispatchString("STK_SEND_ENVELOPE_COMMAND") @@
  "sendTerminalResponseToSim" :> dispatchString("STK_SEND_TERMINAL_RESPONSE") @@
  "handleStkCallSetupRequestFromSim" :> dispatchInts("STK_HANDLE_CALL_SETUP_REQUESTED_FROM_SIM") @@
  "explicitCallTransfer" :> Void("EXPLICIT_CALL_TRANSFER") @@
  "setPreferredNetworkType" :> dispatchInts("SET_PREFERRED_NETWORK_TYPE") @@
  "getPreferredNetworkType" :> Void("GET_PREFERRED_NETWORK_TYPE") @@
  "getNeighboringCids" :> Void("GET_NEIGHBORING_CELL_IDS")

CdmaRoamingMethods ==
  "setLocationUpdates" :> dispatchInts("SET_LOCATION_UPDATES") @@
  "setCdmaSubscriptionSource" :> dispatchInts("CDMA_SET_SUBSCRIPTION_SOURCE") @@
  "setCdmaRoamingPreference" :> dispatchInts("CDMA_SET_ROAMING_PREFERENCE") @@
  "getCdmaRoamingPreference" :> Void("CDMA_QUERY_ROAMING_PREFERENCE") @@
  "setTTYMode" :> dispatchInts("SET_TTY_MODE") @@
  "getTTYMode" :> Void("QUERY_TTY_MODE") @@
  "setPreferredVoicePrivacy" :> dispatchInts("CDMA_SET_PREFERRED_VOICE_PRIVACY_MODE") @@
  "getPreferredVoicePrivacy" :> Void("CDMA_QUERY_PREFERRED_VOICE_PRIVACY_MODE") @@
  "sendCDMAFeatureCode" :> dispatchString("CDMA_FLASH") @@
  "sendBurstDtmf" :> dispatchStrings("CDMA_BURST_DTMF", FALSE, 3)

sendCdmaSms == Value("CDMA_SEND_SMS")
acknowledgeLastIncomingCdmaSms == Value("CDMA_SMS_ACKNOWLEDGE")

BroadcastMethods ==
  "getGsmBroadcastConfig" :> Void("GSM_GET_BROADCAST_SMS_CONFIG") @@
  "setGsmBroadcastConfig" :> BroadcastConfig("GSM_SET_BROADCAST_SMS_CONFIG") @@
  "setGsmBroadcastActivation" :> dispatchInts("GSM_SMS_BROADCAST_ACTIVATION") @@
  "getCdmaBroadcastConfig" :> Void("CDMA_GET_BROADCAST_SMS_CONFIG") @@
  "setCdmaBroadcastConfig" :> BroadcastConfig("CDMA_SET_BROADCAST_SMS_CONFIG") @@
  "setCdmaBroadcastActivation" :> dispatchInts("CDMA_SMS_BROADCAST_ACTIVATION")

RuimMethods ==
  "getCDMASubscription" :> Void("CDMA_SUBSCRIPTION") @@
  "writeSmsToRuim" :> Value("CDMA_WRITE_SMS_TO_RUIM") @@
  "deleteSmsOnRuim" :> dispatchInts("CDMA_DELETE_SMS_ON_RUIM") @@
  "getDeviceIdentity" :> Void("DEVICE_IDENTITY") @@
  "exitEmergencyCallbackMode" :> Void("EXIT_EMERGENCY_CALLBACK_MODE") @@
  "getSmscAddress" :> Void("GET_SMSC_ADDRESS") @@
  "setSmscAddress" :> dispatchString("SET_SMSC_ADDRESS") @@
  "reportSmsMemoryStatus" :> dispatchInts("REPORT_SMS_MEMORY_STATUS") @@
  "reportStkServiceIsRunning" :> Void("REPORT_STK_SERVICE_IS_RUNNING") @@
  "getCdmaSubscriptionSource" :> Void("CDMA_GET_SUBSCRIPTION_SOURCE") @@
  "requestIsimAuthentication" :> dispatchString("ISIM_AUTHENTICATION") @@
  "acknowledgeIncomingGsmSmsWithPdu" :> dispatchStrings("ACKNOWLEDGE_INCOMING_GSM_SMS_WITH_PDU", FALSE, 2) @@
  "sendEnvelopeWithStatus" :> dispatchString("STK_SEND_ENVELOPE_WITH_STATUS") @@
  "getVoiceRadioTechnology" :> Void("VOICE_RADIO_TECH") @@
  "getCellInfoList" :> Void("GET_CELL_INFO_LIST") @@
  "setCellInfoListRate" :> dispatchInts("SET_UNSOL_CELL_INFO_LIST_RATE")

setInitialAttachApn(v) ==
  LET old ==
        <<copyHidlStringToRil(F("apn"), TRUE, {}),
          copyHidlStringToRil(F("protocol"), FALSE, Names({"apn"})),
          copyHidlStringToRil(F("username"), FALSE, Names({"apn", "protocol"})),
          copyHidlStringToRil(F("password"), FALSE,
                              Names({"apn", "protocol", "username"}))>>
      five == {"apn", "protocol", "roamingProtocol", "username", "password"}
      new ==
        <<copyHidlStringToRil(F("apn"), TRUE, {}),
          copyHidlStringToRil(F("protocol"), FALSE, Names({"apn"})),
          copyHidlStringToRil(F("roamingProtocol"), FALSE, Names({"apn", "protocol"})),
          copyHidlStringToRil(F("username"), FALSE,
                              Names({"apn", "protocol", "roamingProtocol"})),
          copyHidlStringToRil(F("password"), FALSE, Names(five \ {"password"})),
          Check("INVALID_ARGUMENTS", Names(five)),
          copyHidlStringToRil(F("mvnoMatchData"), FALSE, Names(five))>>
  IN IF v =< 14
     THEN {Program("SET_INITIAL_ATTACH_APN", old,
                   Names({"apn", "protocol", "username", "password"}))}
     ELSE {Program("SET_INITIAL_ATTACH_APN", new, Names(five \cup {"mvnoMatchData"}))}

dispatchImsGsmSms ==
  LET strings(i) == {E("pStrings", j) : j \in 0..i}
  IN Program("IMS_SEND_SMS",
       <<Check("INVALID_ARGUMENTS", {}), Alloc(E("pStrings", 0), {}),
         copyHidlStringToRil(E("pStrings", 1), FALSE, strings(0)),
         copyHidlStringToRil(E("pStrings", 2), FALSE, strings(1))>>,
       strings(2))

sendImsSms ==
  {dispatchImsGsmSms,
   Program("IMS_SEND_SMS", <<Check("INVALID_ARGUMENTS", {})>>, {}),
   Program("IMS_SEND_SMS", <<Refuse("INVALID_ARGUMENTS")>>, {})}

ChannelMethods ==
  "iccTransmitApduBasicChannel" :> dispatchIccApdu("SIM_TRANSMIT_APDU_BASIC") @@
  "iccOpenLogicalChannel" :> dispatchString("SIM_OPEN_CHANNEL") @@
  "iccCloseLogicalChannel" :> dispatchInts("SIM_CLOSE_CHANNEL") @@
  "iccTransmitApduLogicalChannel" :> dispatchIccApdu("SIM_TRANSMIT_APDU_CHANNEL") @@
  "nvReadItem" :> Value("NV_READ_ITEM") @@
  "nvWriteItem" :> {Program("NV_WRITE_ITEM", <<copyHidlStringToRil(F("value"), FALSE, {})>>, {F("value")})}

ConfigMethods ==
  "nvWriteCdmaPrl" :> Value("NV_WRITE_CDMA_PRL") @@
  "nvResetConfig" :> dispatchInts("NV_RESET_CONFIG") @@
  "setUiccSubscription" :> Value("SET_UICC_SUBSCRIPTION") @@
  "setDataAllowed" :> dispatchInts("ALLOW_DATA") @@
  "getHardwareConfig" :> Void("GET_HARDWARE_CONFIG")

requestIccSimAuthentication ==
  {Program("SIM_AUTHENTICATION",
     <<copyHidlStringToRil(F("authData"), FALSE, {}),
       copyHidlStringToRil(F("aid"), FALSE, {F("authData")})>>,
     Names({"authData", "aid"}))}

\* both blocks and the strings of all the profiles, copied or still NULL
freeSetDataProfileData(num, fields) ==
  Names({"dataProfiles", "dataProfilePtrs"}) \cup {E(f, i) : f \in fields, i \in 1..num}

setDataProfile(v) ==
  LET fields == IF v =< 14 THEN <<"apn", "protocol", "user", "password">>
                ELSE <<"apn", "protocol", "roamingProtocol", "user", "password",
                       "mvnoMatchData">>
      all(num) == freeSetDataProfileData(num, {fields[f] : f \in DOMAIN fields})
      \* version 15 leaves an empty protocol NULL, version 14 copies it
      copies(num, i) ==
        [f \in DOMAIN fields |->
           copyHidlStringToRil(E(fields[f], i), v =< 14 \/ fields[f] # "protocol",
                               all(num))]
          \o (IF v =< 14 THEN <<>> ELSE <<Check("INVALID_ARGUMENTS", all(num))>>)
      perProfile(num) ==
        FlattenSeq([i \in 1..num |-> copies(num, i)])
  IN {Program("SET_DATA_PROFILE",
        <<Alloc(F("dataProfiles"), {}),
          Alloc(F("dataProfilePtrs"), {F("dataProfiles")})>> \o perProfile(num),
        all(num)) : num \in 0..MaxProfiles}

CapabilityMethods ==
  "requestShutdown" :> Void("SHUTDOWN") @@
  "getRadioCapability" :> Void("GET_RADIO_CAPABILITY") @@
  "setRadioCapability" :> Value("SET_RADIO_CAPABILITY") @@
  "startLceService" :> dispatchInts("START_LCE") @@
  "stopLceService" :> Void("STOP_LCE") @@ "pullLceData" :> Void("PULL_LCEDATA") @@
  "getModemActivityInfo" :> Void("GET_ACTIVITY_INFO")

setAllowedCarriers ==
  {Program("SET_CARRIER_RESTRICTIONS",
     <<Alloc(F("allowedCarriers"), {}),
       Alloc(F("excludedCarriers"), {F("allowedCarriers")})>>,
     Names({"allowedCarriers", "excludedCarriers"}))}

\* before version 15 only LOW_DATA_EXPECTED has a request to stand for it
sendDeviceState(v) ==
  IF v < 15
  THEN dispatchInts("SCREEN_STATE") \cup
         {[Program("SEND_DEVICE_STATE", <<Refuse("REQUEST_NOT_SUPPORTED")>>, {})
             EXCEPT !.unchecked = TRUE]}
  ELSE dispatchInts("SEND_DEVICE_STATE")

setIndicationFilter(v) ==
  IF v < 15
  THEN {[Program("SET_UNSOLICITED_RESPONSE_FILTER",
                 <<Refuse("REQUEST_NOT_SUPPORTED")>>, {}) EXCEPT !.unchecked = TRUE]}
  ELSE dispatchInts("SET_UNSOLICITED_RESPONSE_FILTER")

\* only the key is freed after the request
setCarrierInfoForImsiEncryption ==
  {Program("SET_CARRIER_INFO_IMSI_ENCRYPTION",
     <<copyHidlStringToRil(F("mnc"), FALSE, {}),
       copyHidlStringToRil(F("mcc"), FALSE, Names({"mnc"})),
       copyHidlStringToRil(F("keyIdentifier"), FALSE, Names({"mnc", "mcc"})),
       New(F("carrierKey"))>>,
     {F("carrierKey")})}

startKeepalive == {Program("START_KEEPALIVE", <<Check("INVALID_ARGUMENTS", {})>>, {})}
stopKeepalive == Value("STOP_KEEPALIVE")

\* OemHookImpl; any number of strings, here one
OemHookMethods ==
  "sendRequestRaw" :> Value("OEM_HOOK_RAW") @@
  "sendRequestStrings" :> dispatchStrings("OEM_HOOK_STRINGS", FALSE, 1)

-----------------------------------------------------------------------------
\* the programs of every method when the vendor has version v
Methods(v) ==
  CardMethods @@ "dial" :> dial @@ CallMethods @@
  "setupDataCall" :> setupDataCall(v) @@ "iccIOForApp" :> iccIOForApp @@
  UssdToNetworkMethods @@
  "setNetworkSelectionModeManual" :> setNetworkSelectionModeManual @@
  "getAvailableNetworks" :> Void("QUERY_AVAILABLE_NETWORKS") @@
  "startNetworkScan" :> startNetworkScan @@ DtmfMethods @@
  "writeSmsToSim" :> writeSmsToSim @@ StkMethods @@ CdmaRoamingMethods @@
  "sendCdmaSms" :> sendCdmaSms @@
  "acknowledgeLastIncomingCdmaSms" :> acknowledgeLastIncomingCdmaSms @@
  BroadcastMethods @@ RuimMethods @@
  "setInitialAttachApn" :> setInitialAttachApn(v) @@
  "getImsRegistrationState" :> Void("IMS_REGISTRATION_STATE") @@
  "sendImsSms" :> sendImsSms @@ ChannelMethods @@ ConfigMethods @@
  "requestIccSimAuthentication" :> requestIccSimAuthentication @@
  "setDataProfile" :> setDataProfile(v) @@ CapabilityMethods @@
  "setAllowedCarriers" :> setAllowedCarriers @@
  "getAllowedCarriers" :> Void("GET_CARRIER_RESTRICTIONS") @@
  "sendDeviceState" :> sendDeviceState(v) @@
  "setIndicationFilter" :> setIndicationFilter(v) @@
  "setSimCardPower" :> dispatchInts("SET_SIM_CARD_POWER") @@
  "setSimCardPower_1_1" :> dispatchInts("SET_SIM_CARD_POWER") @@
  "setCarrierInfoForImsiEncryption" :> setCarrierInfoForImsiEncryption @@
  "startKeepalive" :> startKeepalive @@ "stopKeepalive" :> stopKeepalive @@
  OemHookMethods
=============================================================================
