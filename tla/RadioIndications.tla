--------------------------- MODULE RadioIndications ---------------------------
(***************************************************************************)
(* How ril_service.cpp passes an unsolicited message on: s_unsolResponses, *)
(* the table from its code to the indication function, and what each       *)
(* function asks of the vendor's payload.  Unlike an answer, an indication *)
(* whose payload is invalid is dropped: nobody is told.                    *)
(***************************************************************************)
EXTENDS RadioResponses

\* the codes of ril.h that name an indication function
s_unsolResponses ==
  "RESPONSE_RADIO_STATE_CHANGED" :> "radioStateChanged" @@
  "RESPONSE_CALL_STATE_CHANGED" :> "callStateChanged" @@
  "RESPONSE_VOICE_NETWORK_STATE_CHANGED" :> "networkStateChanged" @@
  "RESPONSE_NEW_SMS" :> "newSms" @@ "RESPONSE_NEW_SMS_STATUS_REPORT" :> "newSmsStatusReport" @@
  "RESPONSE_NEW_SMS_ON_SIM" :> "newSmsOnSim" @@ "ON_USSD" :> "onUssd" @@
  "ON_USSD_REQUEST" :> "onUssd" @@ "NITZ_TIME_RECEIVED" :> "nitzTimeReceived" @@
  "SIGNAL_STRENGTH" :> "currentSignalStrength" @@
  "DATA_CALL_LIST_CHANGED" :> "dataCallListChanged" @@ "SUPP_SVC_NOTIFICATION" :> "suppSvcNotify" @@
  "STK_SESSION_END" :> "stkSessionEnd" @@ "STK_PROACTIVE_COMMAND" :> "stkProactiveCommand" @@
  "STK_EVENT_NOTIFY" :> "stkEventNotify" @@ "STK_CALL_SETUP" :> "stkCallSetup" @@
  "SIM_SMS_STORAGE_FULL" :> "simSmsStorageFull" @@ "SIM_REFRESH" :> "simRefresh" @@
  "CALL_RING" :> "callRing" @@ "RESPONSE_SIM_STATUS_CHANGED" :> "simStatusChanged" @@
  "RESPONSE_CDMA_NEW_SMS" :> "cdmaNewSms" @@ "RESPONSE_NEW_BROADCAST_SMS" :> "newBroadcastSms" @@
  "CDMA_RUIM_SMS_STORAGE_FULL" :> "cdmaRuimSmsStorageFull" @@
  "RESTRICTED_STATE_CHANGED" :> "restrictedStateChanged" @@
  "ENTER_EMERGENCY_CALLBACK_MODE" :> "enterEmergencyCallbackMode" @@
  "CDMA_CALL_WAITING" :> "cdmaCallWaiting" @@
  "CDMA_OTA_PROVISION_STATUS" :> "cdmaOtaProvisionStatus" @@ "CDMA_INFO_REC" :> "cdmaInfoRec" @@
  "OEM_HOOK_RAW" :> "oemHookRaw" @@ "RINGBACK_TONE" :> "indicateRingbackTone" @@
  "RESEND_INCALL_MUTE" :> "resendIncallMute" @@
  "CDMA_SUBSCRIPTION_SOURCE_CHANGED" :> "cdmaSubscriptionSourceChanged" @@
  "CDMA_PRL_CHANGED" :> "cdmaPrlChanged" @@
  "EXIT_EMERGENCY_CALLBACK_MODE" :> "exitEmergencyCallbackMode" @@
  "RIL_CONNECTED" :> "rilConnected" @@ "VOICE_RADIO_TECH_CHANGED" :> "voiceRadioTechChanged" @@
  "CELL_INFO_LIST" :> "cellInfoList" @@
  "RESPONSE_IMS_NETWORK_STATE_CHANGED" :> "imsNetworkStateChanged" @@
  "UICC_SUBSCRIPTION_STATUS_CHANGED" :> "subscriptionStatusChanged" @@
  "SRVCC_STATE_NOTIFY" :> "srvccStateNotify" @@
  "HARDWARE_CONFIG_CHANGED" :> "hardwareConfigChanged" @@ "DC_RT_INFO_CHANGED" :> "NULL" @@
  "RADIO_CAPABILITY" :> "radioCapabilityIndication" @@
  "ON_SS" :> "onSupplementaryServiceIndication" @@
  "STK_CC_ALPHA_NOTIFY" :> "stkCallControlAlphaNotify" @@ "LCEDATA_RECV" :> "lceData" @@
  "PCO_DATA" :> "pcoData" @@ "MODEM_RESTART" :> "modemReset" @@
  "CARRIER_INFO_IMSI_ENCRYPTION" :> "carrierInfoForImsiEncryption" @@
  "NETWORK_SCAN_RESULT" :> "networkScanResult" @@ "KEEPALIVE_STATUS" :> "keepaliveStatus"

-----------------------------------------------------------------------------
\* the payload is not looked at; a C string; bytes passed on as they are
Event == Plain
Text == Class("any", <<>>, "invalid")
Bytes == Class("multiple", <<1>>, "invalid")

RadioStateEvents ==
  All({"radioStateChanged", "callStateChanged", "networkStateChanged"}, Event)

\* two hexadecimal digits a byte; any other character makes it invalid
convertHexStringToBytes ==
  [Class("multiple", <<2>>, "invalid") EXCEPT !.checks = TRUE]

NewSmsEvents ==
  All({"newSms", "newSmsStatusReport"}, convertHexStringToBytes) @@
  "newSmsOnSim" :> responseInt @@
  "onUssd" :> Exactly(<<2 * sizeof(CPtr)>>) @@
  "nitzTimeReceived" :> Text

currentSignalStrength == convertRilSignalStrengthToHal

DataCallEvents ==
  "dataCallListChanged" :> ListOf(DataCalls) @@
  "suppSvcNotify" :> Exactly(<<sizeof(RIL_SuppSvcNotification)>>)

StkEvents ==
  All({"stkSessionEnd", "simSmsStorageFull"}, Event) @@
  All({"stkProactiveCommand", "stkEventNotify"}, Text) @@
  "stkCallSetup" :> responseInt @@
  "simRefresh" :> Exactly(<<sizeof(RIL_SimRefreshResponse_v7)>>)

\* no payload: a GSM call
callRing ==
  Class("size", <<sizeof(RIL_CDMA_SignalInfoRecord)>>, "nothing")

SmsEvents ==
  "simStatusChanged" :> Event @@
  "cdmaNewSms" :> Exactly(<<sizeof(RIL_CDMA_SMS_Message)>>) @@
  "newBroadcastSms" :> Bytes

CdmaEvents ==
  All({"cdmaRuimSmsStorageFull", "enterEmergencyCallbackMode"}, Event) @@
  All({"restrictedStateChanged", "cdmaOtaProvisionStatus"}, responseInt) @@
  "cdmaCallWaiting" :> Exactly(<<sizeof(RIL_CDMA_CallWaiting_v6)>>)

\* the vector a record of each name fills
InfoRecords ==
  All({"DISPLAY", "EXTENDED_DISPLAY"}, {"display"}) @@
  All({"CALLED_PARTY_NUMBER", "CALLING_PARTY_NUMBER", "CONNECTED_NUMBER"}, {"number"}) @@
  "SIGNAL" :> {"signal"} @@ "REDIRECTING_NUMBER" :> {"redir"} @@
  "LINE_CONTROL" :> {"lineCtrl"} @@ "T53_CLIR" :> {"clir"} @@
  "T53_AUDIO_CONTROL" :> {"audioCtrl"} @@ All({"T53_RELEASE", "other"}, {})

\* a record without one ends it before the client is told, as one too long does
cdmaInfoRec ==
  [Exactly(<<sizeof(RIL_CDMA_InformationRecords)>>)
     EXCEPT !.checks = TRUE, !.known = TRUE, !.filled = InfoRecords]

RingbackEvents ==
  All({"indicateRingbackTone", "cdmaSubscriptionSourceChanged", "cdmaPrlChanged",
      "voiceRadioTechChanged"}, responseInt) @@
  All({"resendIncallMute", "exitEmergencyCallbackMode", "rilConnected"}, Event)

CellEvents ==
  "cellInfoList" :> convertRilCellInfoListToHal @@
  "imsNetworkStateChanged" :> Event @@
  All({"subscriptionStatusChanged", "srvccStateNotify"}, responseInt)

ConfigEvents ==
  "hardwareConfigChanged" :> convertRilHardwareConfigListToHal @@
  "radioCapabilityIndication" :> Exactly(<<sizeof(RIL_RadioCapability)>>)

SupplementaryEvents ==
  "onSupplementaryServiceIndication" :> Exactly(<<sizeof(RIL_StkCcUnsolSsResponse)>>) @@
  "stkCallControlAlphaNotify" :> Text

ModemEvents ==
  "lceData" :> Exactly(<<sizeof(RIL_LceDataInfo)>>) @@
  "pcoData" :> Exactly(<<sizeof(RIL_PCO_Data)>>) @@
  "modemReset" :> Text

\* the structure is read whatever the length, if it is not zero
networkScanResult ==
  [Class("unchecked", <<sizeof(RIL_NetworkScanResult)>>, "invalid")
     EXCEPT !.filled = convertRilCellInfoListToHal.filled]

ImsiAndKeepaliveEvents ==
  "carrierInfoForImsiEncryption" :> Text @@
  "keepaliveStatus" :> Exactly(<<sizeof(RIL_KeepaliveStatus)>>)

oemHookRaw ==
  Bytes

-----------------------------------------------------------------------------
\* the class of every indication function
Indications ==
  RadioStateEvents @@ NewSmsEvents @@
  "currentSignalStrength" :> currentSignalStrength @@ DataCallEvents @@
  StkEvents @@ "callRing" :> callRing @@ SmsEvents @@ CdmaEvents @@
  "cdmaInfoRec" :> cdmaInfoRec @@ RingbackEvents @@ CellEvents @@
  ConfigEvents @@ SupplementaryEvents @@ ModemEvents @@
  "networkScanResult" :> networkScanResult @@ ImsiAndKeepaliveEvents @@
  "oemHookRaw" :> oemHookRaw

V1_1Indications ==
  {"networkScanResult", "carrierInfoForImsiEncryption", "keepaliveStatus"}

\* whether there is someone to tell
Hears(f, client, oem) ==
  IF f = "oemHookRaw" THEN kOemHookEnabled /\ oem
  ELSE client = "1.1" \/ (client = "1.0" /\ f \notin V1_1Indications)

(***************************************************************************)
(* keepaliveStatusInd casts the callback on the spot.  The cast to a       *)
(* version the client does not have succeeds with a null reference, which  *)
(* is called all the same.                                                 *)
(***************************************************************************)
CallsNull(f, client) == f = "keepaliveStatus" /\ client = "1.0"
=============================================================================
