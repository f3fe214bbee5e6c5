---------------------------- MODULE RadioResponses ----------------------------
(***************************************************************************)
(* How ril_service.cpp answers a solicited request: s_commands, the table  *)
(* from the request's code to the response function, and for every         *)
(* response function what it asks of the vendor's payload and how much of  *)
(* it it reads.  A payload is a pointer that may be NULL and a length.     *)
(***************************************************************************)
EXTENDS Integers, TLC, SequencesExt, RilTypes

CONSTANTS
  mqanelements,     \* ro.ril.telephony.mqanelements, strings of one network
  kOemHookEnabled   \* whether libril serves IOemHook

ASSUME ElementsPositive == mqanelements \in Nat \ {0}
ASSUME OemHookBuild == kOemHookEnabled \in BOOLEAN

\* the request codes of ril.h that name a response function
s_commands ==
  "GET_SIM_STATUS" :> "getIccCardStatus" @@ "ENTER_SIM_PIN" :> "supplyIccPinForApp" @@
  "ENTER_SIM_PUK" :> "supplyIccPukForApp" @@ "ENTER_SIM_PIN2" :> "supplyIccPin2ForApp" @@
  "ENTER_SIM_PUK2" :> "supplyIccPuk2ForApp" @@ "CHANGE_SIM_PIN" :> "changeIccPinForApp" @@
  "CHANGE_SIM_PIN2" :> "changeIccPin2ForApp" @@
  "ENTER_NETWORK_DEPERSONALIZATION" :> "supplyNetworkDepersonalization" @@
  "GET_CURRENT_CALLS" :> "getCurrentCalls" @@ "DIAL" :> "dial" @@ "GET_IMSI" :> "getIMSIForApp" @@
  "HANGUP" :> "hangupConnection" @@ "HANGUP_WAITING_OR_BACKGROUND" :> "hangupWaitingOrBackground" @@
  "HANGUP_FOREGROUND_RESUME_BACKGROUND" :> "hangupForegroundResumeBackground" @@
  "SWITCH_WAITING_OR_HOLDING_AND_ACTIVE" :> "switchWaitingOrHoldingAndActive" @@
  "CONFERENCE" :> "conference" @@ "UDUB" :> "rejectCall" @@
  "LAST_CALL_FAIL_CAUSE" :> "getLastCallFailCause" @@ "SIGNAL_STRENGTH" :> "getSignalStrength" @@
  "VOICE_REGISTRATION_STATE" :> "getVoiceRegistrationState" @@
  "DATA_REGISTRATION_STATE" :> "getDataRegistrationState" @@ "OPERATOR" :> "getOperator" @@
  "RADIO_POWER" :> "setRadioPower" @@ "DTMF" :> "sendDtmf" @@ "SEND_SMS" :> "sendSms" @@
  "SEND_SMS_EXPECT_MORE" :> "sendSMSExpectMore" @@ "SETUP_DATA_CALL" :> "setupDataCall" @@
  "SIM_IO" :> "iccIOForApp" @@ "SEND_USSD" :> "sendUssd" @@ "CANCEL_USSD" :> "cancelPendingUssd" @@
  "GET_CLIR" :> "getClir" @@ "SET_CLIR" :> "setClir" @@
  "QUERY_CALL_FORWARD_STATUS" :> "getCallForwardStatus" @@ "SET_CALL_FORWARD" :> "setCallForward" @@
  "QUERY_CALL_WAITING" :> "getCallWaiting" @@ "SET_CALL_WAITING" :> "setCallWaiting" @@
  "SMS_ACKNOWLEDGE" :> "acknowledgeLastIncomingGsmSms" @@ "GET_IMEI" :> "NULL" @@
  "GET_IMEISV" :> "NULL" @@ "ANSWER" :> "acceptCall" @@
  "DEACTIVATE_DATA_CALL" :> "deactivateDataCall" @@
  "QUERY_FACILITY_LOCK" :> "getFacilityLockForApp" @@
  "SET_FACILITY_LOCK" :> "setFacilityLockForApp" @@
  "CHANGE_BARRING_PASSWORD" :> "setBarringPassword" @@
  "QUERY_NETWORK_SELECTION_MODE" :> "getNetworkSelectionMode" @@
  "SET_NETWORK_SELECTION_AUTOMATIC" :> "setNetworkSelectionModeAutomatic" @@
  "SET_NETWORK_SELECTION_MANUAL" :> "setNetworkSelectionModeManual" @@
  "QUERY_AVAILABLE_NETWORKS" :> "getAvailableNetworks" @@ "DTMF_START" :> "startDtmf" @@
  "DTMF_STOP" :> "stopDtmf" @@ "BASEBAND_VERSION" :> "getBasebandVersion" @@
  "SEPARATE_CONNECTION" :> "separateConnection" @@ "SET_MUTE" :> "setMute" @@
  "GET_MUTE" :> "getMute" @@ "QUERY_CLIP" :> "getClip" @@ "LAST_DATA_CALL_FAIL_CAUSE" :> "NULL" @@
  "DATA_CALL_LIST" :> "getDataCallList" @@ "RESET_RADIO" :> "NULL" @@
  "OEM_HOOK_RAW" :> "sendRequestRaw" @@ "OEM_HOOK_STRINGS" :> "sendRequestStrings" @@
  "SCREEN_STATE" :> "sendDeviceState" @@
  "SET_SUPP_SVC_NOTIFICATION" :> "setSuppServiceNotifications" @@
  "WRITE_SMS_TO_SIM" :> "writeSmsToSim" @@ "DELETE_SMS_ON_SIM" :> "deleteSmsOnSim" @@
  "SET_BAND_MODE" :> "setBandMode" @@ "QUERY_AVAILABLE_BAND_MODE" :> "getAvailableBandModes" @@
  "STK_GET_PROFILE" :> "NULL" @@ "STK_SET_PROFILE" :> "NULL" @@
  "STK_SEND_ENVELOPE_COMMAND" :> "sendEnvelope" @@
  "STK_SEND_TERMINAL_RESPONSE" :> "sendTerminalResponseToSim" @@
  "STK_HANDLE_CALL_SETUP_REQUESTED_FROM_SIM" :> "handleStkCallSetupRequestFromSim" @@
  "EXPLICIT_CALL_TRANSFER" :> "explicitCallTransfer" @@
  "SET_PREFERRED_NETWORK_TYPE" :> "setPreferredNetworkType" @@
  "GET_PREFERRED_NETWORK_TYPE" :> "getPreferredNetworkType" @@
  "GET_NEIGHBORING_CELL_IDS" :> "getNeighboringCids" @@
  "SET_LOCATION_UPDATES" :> "setLocationUpdates" @@
  "CDMA_SET_SUBSCRIPTION_SOURCE" :> "setCdmaSubscriptionSource" @@
  "CDMA_SET_ROAMING_PREFERENCE" :> "setCdmaRoamingPreference" @@
  "CDMA_QUERY_ROAMING_PREFERENCE" :> "getCdmaRoamingPreference" @@ "SET_TTY_MODE" :> "setTTYMode" @@
  "QUERY_TTY_MODE" :> "getTTYMode" @@
  "CDMA_SET_PREFERRED_VOICE_PRIVACY_MODE" :> "setPreferredVoicePrivacy" @@
  "CDMA_QUERY_PREFERRED_VOICE_PRIVACY_MODE" :> "getPreferredVoicePrivacy" @@
  "CDMA_FLASH" :> "sendCDMAFeatureCode" @@ "CDMA_BURST_DTMF" :> "sendBurstDtmf" @@
  "CDMA_VALIDATE_AND_WRITE_AKEY" :> "NULL" @@ "CDMA_SEND_SMS" :> "sendCdmaSms" @@
  "CDMA_SMS_ACKNOWLEDGE" :> "acknowledgeLastIncomingCdmaSms" @@
  "GSM_GET_BROADCAST_SMS_CONFIG" :> "getGsmBroadcastConfig" @@
  "GSM_SET_BROADCAST_SMS_CONFIG" :> "setGsmBroadcastConfig" @@
  "GSM_SMS_BROADCAST_ACTIVATION" :> "setGsmBroadcastActivation" @@
  "CDMA_GET_BROADCAST_SMS_CONFIG" :> "getCdmaBroadcastConfig" @@
  "CDMA_SET_BROADCAST_SMS_CONFIG" :> "setCdmaBroadcastConfig" @@
  "CDMA_SMS_BROADCAST_ACTIVATION" :> "setCdmaBroadcastActivation" @@
  "CDMA_SUBSCRIPTION" :> "getCDMASubscription" @@ "CDMA_WRITE_SMS_TO_RUIM" :> "writeSmsToRuim" @@
  "CDMA_DELETE_SMS_ON_RUIM" :> "deleteSmsOnRuim" @@ "DEVICE_IDENTITY" :> "getDeviceIdentity" @@
  "EXIT_EMERGENCY_CALLBACK_MODE" :> "exitEmergencyCallbackMode" @@
  "GET_SMSC_ADDRESS" :> "getSmscAddress" @@ "SET_SMSC_ADDRESS" :> "setSmscAddress" @@
  "REPORT_SMS_MEMORY_STATUS" :> "reportSmsMemoryStatus" @@
  "REPORT_STK_SERVICE_IS_RUNNING" :> "reportStkServiceIsRunning" @@
  "CDMA_GET_SUBSCRIPTION_SOURCE" :> "getCdmaSubscriptionSource" @@
  "ISIM_AUTHENTICATION" :> "requestIsimAuthentication" @@
  "ACKNOWLEDGE_INCOMING_GSM_SMS_WITH_PDU" :> "acknowledgeIncomingGsmSmsWithPdu" @@
  "STK_SEND_ENVELOPE_WITH_STATUS" :> "sendEnvelopeWithStatus" @@
  "VOICE_RADIO_TECH" :> "getVoiceRadioTechnology" @@ "GET_CELL_INFO_LIST" :> "getCellInfoList" @@
  "SET_UNSOL_CELL_INFO_LIST_RATE" :> "setCellInfoListRate" @@
  "SET_INITIAL_ATTACH_APN" :> "setInitialAttachApn" @@
  "IMS_REGISTRATION_STATE" :> "getImsRegistrationState" @@ "IMS_SEND_SMS" :> "sendImsSms" @@
  "SIM_TRANSMIT_APDU_BASIC" :> "iccTransmitApduBasicChannel" @@
  "SIM_OPEN_CHANNEL" :> "iccOpenLogicalChannel" @@
  "SIM_CLOSE_CHANNEL" :> "iccCloseLogicalChannel" @@
  "SIM_TRANSMIT_APDU_CHANNEL" :> "iccTransmitApduLogicalChannel" @@
  "NV_READ_ITEM" :> "nvReadItem" @@ "NV_WRITE_ITEM" :> "nvWriteItem" @@
  "NV_WRITE_CDMA_PRL" :> "nvWriteCdmaPrl" @@ "NV_RESET_CONFIG" :> "nvResetConfig" @@
  "SET_UICC_SUBSCRIPTION" :> "setUiccSubscription" @@ "ALLOW_DATA" :> "setDataAllowed" @@
  "GET_HARDWARE_CONFIG" :> "getHardwareConfig" @@
  "SIM_AUTHENTICATION" :> "requestIccSimAuthentication" @@ "GET_DC_RT_INFO" :> "NULL" @@
  "SET_DC_RT_INFO_RATE" :> "NULL" @@ "SET_DATA_PROFILE" :> "setDataProfile" @@
  "SHUTDOWN" :> "requestShutdown" @@ "GET_RADIO_CAPABILITY" :> "getRadioCapability" @@
  "SET_RADIO_CAPABILITY" :> "setRadioCapability" @@ "START_LCE" :> "startLceService" @@
  "STOP_LCE" :> "stopLceService" @@ "PULL_LCEDATA" :> "pullLceData" @@
  "GET_ACTIVITY_INFO" :> "getModemActivityInfo" @@
  "SET_CARRIER_RESTRICTIONS" :> "setAllowedCarriers" @@
  "GET_CARRIER_RESTRICTIONS" :> "getAllowedCarriers" @@ "SEND_DEVICE_STATE" :> "sendDeviceState" @@
  "SET_UNSOLICITED_RESPONSE_FILTER" :> "setIndicationFilter" @@
  "SET_SIM_CARD_POWER" :> "setSimCardPower" @@
  "SET_CARRIER_INFO_IMSI_ENCRYPTION" :> "setCarrierInfoForImsiEncryption" @@
  "START_NETWORK_SCAN" :> "startNetworkScan" @@ "STOP_NETWORK_SCAN" :> "stopNetworkScan" @@
  "START_KEEPALIVE" :> "startKeepalive" @@ "STOP_KEEPALIVE" :> "stopKeepalive"

-----------------------------------------------------------------------------
(***************************************************************************)
(* What a response function asks of its payload.                           *)
(*   sizes  the layouts it knows, in the order it tries them               *)
(*   fits   how the length picks one: the length is the size, a multiple   *)
(*          of it, has as many words, or is not looked at                  *)
(*   word   the size of a word, where words are counted                    *)
(*   null   what NULL means: invalid, nothing when the length is 0 too, or *)
(*          nothing whatever the length                                    *)
(*   one    only the first element of a list is read                       *)
(*   checks the contents can make the payload invalid too                  *)
(*   kept   with such contents it is told all the same, with the error     *)
(*   filled for every kind of record the vendor can name, which of the      *)
(*          vectors of the client's record get an element                  *)
(*   known  a record of a kind without a vector makes it invalid           *)
(***************************************************************************)
Class(fits, sizes, null) ==
  [fits |-> fits, sizes |-> sizes, null |-> null, word |-> 1, one |-> FALSE,
   checks |-> FALSE, kept |-> FALSE, filled |-> "none" :> {}, known |-> FALSE]

Plain == Class("any", <<>>, "nothing")
Exactly(sizes) == Class("size", sizes, "invalid")
ListOf(sizes) == Class("multiple", sizes, "empty")
Words(word, counts) ==
  [Class("words", [i \in DOMAIN counts |-> counts[i] * sizeof(word)], "invalid")
     EXCEPT !.word = sizeof(word)]

\* a C string, or NULL for the empty one
convertCharPtrToHidlString == Class("any", <<>>, "nothing")

responseIntOrEmpty == Class("size", <<sizeof(CInt)>>, "empty")
responseInt == Exactly(<<sizeof(CInt)>>)

\* Mutant: the oldest layout is tried first.
DataCallsOldestFirst ==
  <<sizeof(RIL_Data_Call_Response_v6), sizeof(RIL_Data_Call_Response_v9),
    sizeof(RIL_Data_Call_Response_v11)>>

DataCalls ==
  <<sizeof(RIL_Data_Call_Response_v11), sizeof(RIL_Data_Call_Response_v9),
    sizeof(RIL_Data_Call_Response_v6)>>

\* the kinds of cells, each with a vector of its own in the client's record
RIL_CellInfoType == {"none", "gsm", "cdma", "lte", "wcdma", "tdscdma"}
fillCellIdentityResponse == [cell \in RIL_CellInfoType |-> {cell} \ {"none"}]

RadioTechs ==
  {"none", "GPRS", "EDGE", "GSM", "UMTS", "HSDPA", "HSUPA", "HSPA", "HSPAP", "IS95A", "IS95B",
   "1xRTT", "EVDO_0", "EVDO_A", "EVDO_B", "EHRPD", "LTE", "LTE_CA", "TD_SCDMA", "IWLAN"}

\* Mutant: carrier aggregation has no cell.
CellInfoTypeWithoutCarrierAggregation(rat) ==
  CASE rat \in {"GPRS", "EDGE", "GSM"} -> "gsm"
    [] rat \in {"UMTS", "HSDPA", "HSUPA", "HSPA", "HSPAP"} -> "wcdma"
    [] rat \in {"IS95A", "IS95B", "1xRTT", "EVDO_0", "EVDO_A", "EVDO_B", "EHRPD"} -> "cdma"
    [] rat = "LTE" -> "lte"
    [] rat = "TD_SCDMA" -> "tdscdma"
    [] OTHER -> "none"

getCellInfoTypeRadioTechnology(rat) ==
  CASE rat \in {"GPRS", "EDGE", "GSM"} -> "gsm"
    [] rat \in {"UMTS", "HSDPA", "HSUPA", "HSPA", "HSPAP"} -> "wcdma"
    [] rat \in {"IS95A", "IS95B", "1xRTT", "EVDO_0", "EVDO_A", "EVDO_B", "EHRPD"} -> "cdma"
    [] rat \in {"LTE", "LTE_CA"} -> "lte"
    [] rat = "TD_SCDMA" -> "tdscdma"
    [] OTHER -> "none"

\* a list of cells or of hardware parts is counted by its length
convertRilCellInfoListToHal ==
  [ListOf(<<sizeof(RIL_CellInfo_v12)>>)
     EXCEPT !.filled = [cell \in RIL_CellInfoType |-> {cell} \ {"none"}]]
convertRilHardwareConfigListToHal ==
  [ListOf(<<sizeof(RIL_HardwareConfig)>>)
     EXCEPT !.filled = "modem" :> {"modem"} @@ "sim" :> {"sim"} @@ "none" :> {}]

\* every function of names is of class c
All(names, c) == [f \in names |-> c]

-----------------------------------------------------------------------------
\* an application index beyond num_applications makes it invalid
getIccCardStatus ==
  [Exactly(<<sizeof(RIL_CardStatus_v6)>>) EXCEPT !.checks = TRUE]

PinAnswers ==
  All({"supplyIccPinForApp", "supplyIccPukForApp", "supplyIccPin2ForApp",
      "supplyIccPuk2ForApp", "changeIccPinForApp", "changeIccPin2ForApp",
      "supplyNetworkDepersonalization"}, responseIntOrEmpty)

CallListAnswers ==
  "getCurrentCalls" :> ListOf(<<sizeof(CPtr)>>) @@
  "getIMSIForApp" :> convertCharPtrToHidlString @@
  All({"dial", "hangupConnection"}, Plain)

HoldAnswers ==
  All({"hangupWaitingOrBackground", "hangupForegroundResumeBackground",
      "switchWaitingOrHoldingAndActive", "conference", "rejectCall"}, Plain) @@
  "getLastCallFailCause" :>
    Exactly(<<sizeof(CInt), sizeof(RIL_LastCallFailCauseInfo)>>)

\* of the two layouts the older one is known by its size
convertRilSignalStrengthToHal ==
  Exactly(<<sizeof(RIL_SignalStrength_v8), sizeof(RIL_SignalStrength_v10)>>)

getSignalStrength == convertRilSignalStrengthToHal

\* strings before version 15, a structure since
RegistrationAnswers(v) ==
  LET Classes(voice, data, filled) ==
        "getVoiceRegistrationState" :> [voice EXCEPT !.filled = filled] @@
        "getDataRegistrationState" :> [data EXCEPT !.filled = filled]
  IN IF v =< 14
     THEN Classes(Words(CPtr, <<16>>), Words(CPtr, <<6, 11, 13>>),
                  [rat \in RadioTechs |->
                     fillCellIdentityResponse[getCellInfoTypeRadioTechnology(rat)]])
     ELSE Classes(Exactly(<<sizeof(RIL_VoiceRegistrationStateResponse)>>),
                  Exactly(<<sizeof(RIL_DataRegistrationStateResponse)>>),
                  fillCellIdentityResponse)

OperatorAnswers ==
  "getOperator" :> Words(CPtr, <<3>>) @@
  All({"setRadioPower", "sendDtmf"}, Plain)

makeSendSmsResult ==
  Exactly(<<sizeof(RIL_SMS_Response)>>)

SmsAnswers ==
  All({"sendSms", "sendSMSExpectMore"}, makeSendSmsResult)

\* NULL leaves the status that says the call failed
setupDataCallAnswer ==
  [Class("multiple", DataCalls, "nothing") EXCEPT !.one = TRUE]

responseIccIo ==
  Exactly(<<sizeof(RIL_SIM_IO_Response)>>)

UssdAndClirAnswers ==
  "iccIOForApp" :> responseIccIo @@
  "getClir" :> Words(CInt, <<2>>) @@
  All({"sendUssd", "cancelPendingUssd", "setClir"}, Plain)

CallForwardAnswers ==
  "getCallForwardStatus" :> ListOf(<<sizeof(CPtr)>>) @@
  "getCallWaiting" :> Words(CInt, <<2>>) @@
  All({"setCallForward", "setCallWaiting", "acknowledgeLastIncomingGsmSms"}, Plain)

LockAnswers ==
  All({"acceptCall", "deactivateDataCall", "setBarringPassword"}, Plain) @@
  All({"getFacilityLockForApp", "getNetworkSelectionMode"}, responseInt) @@
  "setFacilityLockForApp" :> responseIntOrEmpty

\* a network whose status has no name makes the list invalid, which the client
\* gets all the same
NetworkAnswers ==
  All({"setNetworkSelectionModeAutomatic", "setNetworkSelectionModeManual",
      "startDtmf", "stopDtmf"}, Plain) @@
  "getAvailableNetworks" :>
    [ListOf(<<mqanelements * sizeof(CPtr)>>) EXCEPT !.checks = TRUE, !.kept = TRUE]

\* four strings are read of each network, however many elements it has of n
networkStrings(n) ==
  {i \in 0..(n + 2) : \E j \in 0..(n \div mqanelements - 1) :
                       i - j * mqanelements \in 0..3}

MuteAndDataListAnswers ==
  "getBasebandVersion" :> convertCharPtrToHidlString @@
  All({"separateConnection", "setMute"}, Plain) @@
  All({"getMute", "getClip"}, responseInt) @@
  "getDataCallList" :> ListOf(DataCalls)

BandAnswers ==
  All({"setSuppServiceNotifications", "deleteSmsOnSim", "setBandMode"}, Plain) @@
  "writeSmsToSim" :> responseInt @@
  "getAvailableBandModes" :> ListOf(<<sizeof(CInt)>>) @@
  "sendEnvelope" :> convertCharPtrToHidlString

StkAnswers ==
  All({"sendTerminalResponseToSim", "handleStkCallSetupRequestFromSim",
      "explicitCallTransfer", "setPreferredNetworkType"}, Plain) @@
  "getPreferredNetworkType" :> responseInt @@
  "getNeighboringCids" :> ListOf(<<sizeof(CPtr)>>)

CdmaRoamingAnswers ==
  All({"setLocationUpdates", "setCdmaSubscriptionSource",
      "setCdmaRoamingPreference", "setTTYMode", "setPreferredVoicePrivacy"}, Plain) @@
  All({"getCdmaRoamingPreference", "getTTYMode"}, responseInt)

CdmaSmsAnswers ==
  "getPreferredVoicePrivacy" :> Words(CInt, <<1>>) @@
  All({"sendCDMAFeatureCode", "sendBurstDtmf",
      "acknowledgeLastIncomingCdmaSms"}, Plain) @@
  "sendCdmaSms" :> makeSendSmsResult

BroadcastAnswers ==
  All({"getGsmBroadcastConfig", "getCdmaBroadcastConfig"}, ListOf(<<sizeof(CPtr)>>)) @@
  All({"setGsmBroadcastConfig", "setGsmBroadcastActivation"}, Plain)

RuimAnswers ==
  All({"setCdmaBroadcastConfig", "setCdmaBroadcastActivation",
      "deleteSmsOnRuim"}, Plain) @@
  "getCDMASubscription" :> Words(CPtr, <<5>>) @@
  "writeSmsToRuim" :> responseInt

DeviceAnswers ==
  "getDeviceIdentity" :> Words(CPtr, <<4>>) @@
  "getSmscAddress" :> convertCharPtrToHidlString @@
  All({"exitEmergencyCallbackMode", "setSmscAddress", "reportSmsMemoryStatus",
      "reportStkServiceIsRunning"}, Plain)

IsimAndCellAnswers ==
  All({"getCdmaSubscriptionSource", "getVoiceRadioTechnology"}, responseInt) @@
  "requestIsimAuthentication" :> convertCharPtrToHidlString @@
  "acknowledgeIncomingGsmSmsWithPdu" :> Plain @@
  "sendEnvelopeWithStatus" :> responseIccIo @@
  "getCellInfoList" :> convertRilCellInfoListToHal

ImsAnswers ==
  All({"setCellInfoListRate", "setInitialAttachApn"}, Plain) @@
  "getImsRegistrationState" :> Words(CInt, <<2>>) @@
  "sendImsSms" :> makeSendSmsResult @@
  "iccTransmitApduBasicChannel" :> responseIccIo

ChannelAnswers ==
  "iccOpenLogicalChannel" :> Class("multiple", <<sizeof(CInt)>>, "nothing") @@
  "iccTransmitApduLogicalChannel" :> responseIccIo @@
  "nvReadItem" :> convertCharPtrToHidlString @@
  All({"iccCloseLogicalChannel", "nvWriteItem", "nvWriteCdmaPrl"}, Plain)

ConfigAnswers ==
  All({"nvResetConfig", "setUiccSubscription", "setDataAllowed",
      "setDataProfile"}, Plain) @@
  "getHardwareConfig" :> convertRilHardwareConfigListToHal @@
  "requestIccSimAuthentication" :> responseIccIo

CapabilityAnswers ==
  "requestShutdown" :> Plain @@
  All({"getRadioCapability",
      "setRadioCapability"}, Exactly(<<sizeof(RIL_RadioCapability)>>)) @@
  All({"startLceService", "stopLceService"}, Exactly(<<sizeof(RIL_LceStatusInfo)>>))

CarrierAnswers ==
  "pullLceData" :> Exactly(<<sizeof(RIL_LceDataInfo)>>) @@
  "getModemActivityInfo" :> Exactly(<<sizeof(RIL_ActivityStatsInfo)>>) @@
  "setAllowedCarriers" :> responseInt @@
  "getAllowedCarriers" :>
    Class("size", <<sizeof(RIL_CarrierRestrictions)>>, "nothing")

DeviceStateAnswers ==
  All({"sendDeviceState", "setCarrierInfoForImsiEncryption", "setIndicationFilter",
      "setSimCardPower", "startNetworkScan", "stopNetworkScan"}, Plain)

KeepaliveAndOemAnswers ==
  "startKeepalive" :> Exactly(<<sizeof(RIL_KeepaliveStatus)>>) @@
  "stopKeepalive" :> Plain @@
  "sendRequestRaw" :> Class("any", <<>>, "invalid") @@
  "sendRequestStrings" :> ListOf(<<sizeof(CPtr)>>)
-----------------------------------------------------------------------------
\* the class of every response function when the vendor has version v
Responses(v) ==
  "getIccCardStatus" :> getIccCardStatus @@ PinAnswers @@ CallListAnswers @@
  HoldAnswers @@ "getSignalStrength" :> getSignalStrength @@
  RegistrationAnswers(v) @@ OperatorAnswers @@ SmsAnswers @@
  "setupDataCall" :> setupDataCallAnswer @@ UssdAndClirAnswers @@
  CallForwardAnswers @@ LockAnswers @@ NetworkAnswers @@
  MuteAndDataListAnswers @@ BandAnswers @@ StkAnswers @@ CdmaRoamingAnswers @@
  CdmaSmsAnswers @@ BroadcastAnswers @@ RuimAnswers @@ DeviceAnswers @@
  IsimAndCellAnswers @@ ImsAnswers @@ ChannelAnswers @@ ConfigAnswers @@
  CapabilityAnswers @@ CarrierAnswers @@ DeviceStateAnswers @@
  KeepaliveAndOemAnswers

(***************************************************************************)
(* The callback of the client a response function calls: its own, but for  *)
(* these.  A client of version 1.0 has no callback for the last five.      *)
(***************************************************************************)
V1_1Only ==
  {"setCarrierInfoForImsiEncryption", "startNetworkScan", "stopNetworkScan",
   "startKeepalive", "stopKeepalive"}
OemHookResponses == {"sendRequestRaw", "sendRequestStrings"}

\* Mutant: the client of the old version gets the new callback.
CallbackSwapped(f, client) ==
  CASE f = "hangupForegroundResumeBackground" -> "hangupWaitingOrBackground"
    [] f = "setSimCardPower" /\ client = "1.0" -> "setSimCardPower_1_1"
    [] OTHER -> f

Callback(f, client) ==
  CASE f = "hangupForegroundResumeBackground" -> "hangupWaitingOrBackground"
    [] f = "setSimCardPower" /\ client = "1.1" -> "setSimCardPower_1_1"
    [] OTHER -> f

\* whether there is someone to answer
Reaches(f, client, oem) ==
  IF f \in OemHookResponses THEN kOemHookEnabled /\ oem
  ELSE client = "1.1" \/ (client = "1.0" /\ f \notin V1_1Only)

-----------------------------------------------------------------------------
\* whether a payload of len bytes is taken to have layout s
Takes(c, len, s) ==
  CASE c.fits = "size" -> len = s
    [] c.fits = "multiple" -> len % s = 0
    [] c.fits = "words" -> len \div c.word = s \div c.word
    [] OTHER -> TRUE

Layouts(c, len) == SelectSeq(c.sizes, LAMBDA s : Takes(c, len, s))

\* what is read of a payload: elements of a layout, and the bytes they take
Nothing == [layout |-> 0, n |-> 0]
Decode(c, len) ==
  LET s == Head(Layouts(c, len))
  IN [layout |-> s,
      n |-> IF c.fits = "multiple" /\ ~c.one THEN len \div s ELSE 1]
BytesRead(d) == d.layout * d.n

NullIsValid(c, len) == c.null = "nothing" \/ (c.null = "empty" /\ len = 0)

\* what a class makes of a payload: whether it is valid, and what it reads
Reading(c, p, sane, kind) ==
  LET unread == [valid |-> FALSE, data |-> Nothing, filled |-> {}]
  IN IF p.null THEN [unread EXCEPT !.valid = NullIsValid(c, p.len)]
     ELSE IF c.fits = "any" THEN [unread EXCEPT !.valid = TRUE]
     ELSE IF \/ Layouts(c, p.len) = <<>> \/ (c.checks /\ ~sane /\ ~c.kept)
             \/ c.known /\ c.filled[kind] = {}
     THEN unread
     ELSE [valid |-> c.checks => sane, data |-> Decode(c, p.len), filled |-> c.filled[kind]]

-----------------------------------------------------------------------------
\* The strings of a registration state before version 15: an entry is looked
\* at only when there are so many, and the radio technology says which ones
\* describe the cell.
convertResponseStringEntryToInt(i, n) == IF n > i THEN {i} ELSE {}

Entries(is, n) == UNION {convertResponseStringEntryToInt(i, n) : i \in is}

fillCellIdentityFromVoiceRegStateResponseString(cell, n) ==
  LET is == "gsm" :> {1, 2} @@ "wcdma" :> {1, 2, 14} @@ "tdscdma" :> {1, 2} @@
            "cdma" :> {4, 5, 6, 8, 9} @@ "lte" :> {1, 2} @@ "none" :> {}
  IN Entries(is[cell], n)

\* Mutant: the entries are looked at however many strings there are.
fillFromDataUnguarded(cell, n) ==
  LET is == "gsm" :> {1, 2} @@ "wcdma" :> {1, 2} @@ "tdscdma" :> {1, 2} @@
            "lte" :> {6, 7, 8} @@ "cdma" :> {} @@ "none" :> {}
  IN is[cell]

fillCellIdentityFromDataRegStateResponseString(cell, n) ==
  LET is == "gsm" :> {1, 2} @@ "wcdma" :> {1, 2} @@ "tdscdma" :> {1, 2} @@
            "lte" :> {6, 7, 8} @@ "cdma" :> {} @@ "none" :> {}
      network == IF n >= 13 /\ is[cell] # {} THEN {11, 12} ELSE {}
  IN Entries(is[cell] \cup network, n)

\* the strings that a list of networks or a registration answer reads, of n
StringsRead(f, n, rat) ==
  LET cell == getCellInfoTypeRadioTechnology(rat)
  IN IF f = "getAvailableNetworks" THEN networkStrings(n)
     ELSE IF f = "getVoiceRegistrationState"
     THEN {0, 3, 7, 10, 11, 12, 13} \cup
            fillCellIdentityFromVoiceRegStateResponseString(cell, n)
     ELSE {0, 3, 4, 5} \cup fillCellIdentityFromDataRegStateResponseString(cell, n)
=============================================================================
