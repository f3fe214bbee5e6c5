------------------------------ MODULE RilTypes ------------------------------
(***************************************************************************)
(* The layouts of the structures of ril.h and ril_cdma_sms.h that libril   *)
(* tells apart by their size: a field is its size and alignment, a         *)
(* structure the list of its fields.  The vendor's answers carry nothing   *)
(* but a pointer and a length, so these sizes are all a response function  *)
(* has to recognise what it was given.                                     *)
(***************************************************************************)
EXTENDS Integers, Sequences

CONSTANT PtrBytes  \* sizeof(void *)

ASSUME PointerWidth == PtrBytes \in {4, 8}

-----------------------------------------------------------------------------
Scalar(n) == [size |-> n, align |-> n]
CChar == Scalar(1)
CInt == Scalar(4)
CInt64 == Scalar(8)
CPtr == Scalar(PtrBytes)

\* n members of one type, as fields and as an array
Fields(t, n) == [i \in 1..n |-> t]
Ints(n) == Fields(CInt, n)
Ptrs(n) == Fields(CPtr, n)
Arr(t, n) == [size |-> n * t.size, align |-> t.align]

Widest(ts) == CHOOSE a \in {t.align : t \in ts} : \A t \in ts : t.align =< a
Padded(n, a) == ((n + a - 1) \div a) * a

Struct(fs) ==
  LET types == {fs[i] : i \in DOMAIN fs}
      ends[i \in 0..Len(fs)] ==
        IF i = 0 THEN 0 ELSE Padded(ends[i - 1], fs[i].align) + fs[i].size
  IN [size |-> Padded(ends[Len(fs)], Widest(types)), align |-> Widest(types)]

Union(ts) ==
  LET n == CHOOSE s \in {t.size : t \in ts} : \A t \in ts : t.size =< s
  IN [size |-> Padded(n, Widest(ts)), align |-> Widest(ts)]

sizeof(t) == t.size

-----------------------------------------------------------------------------
RIL_RadioCapability == Struct(Ints(4) \o <<Arr(CChar, 64), CInt>>)
RIL_CDMA_SignalInfoRecord == Struct(Fields(CChar, 4))
RIL_Data_Call_Response_v6 == Struct(Ints(4) \o Ptrs(5))
RIL_Data_Call_Response_v9 == Struct(Ints(4) \o Ptrs(6))
RIL_Data_Call_Response_v11 == Struct(Ints(4) \o Ptrs(6) \o <<CInt>>)
RIL_SMS_Response == Struct(<<CInt, CPtr, CInt>>)
RIL_SIM_IO_Response == Struct(<<CInt, CInt, CPtr>>)
RIL_CallForwardInfo == Struct(Ints(4) \o <<CPtr, CInt>>)
RIL_LceStatusInfo == Struct(<<CChar, CInt>>)
RIL_LceDataInfo == Struct(<<CInt, CChar, CChar>>)
RIL_CarrierRestrictions == Struct(<<CInt, CInt, CPtr, CPtr>>)
RIL_LastCallFailCauseInfo == Struct(<<CInt, CPtr>>)
RIL_SuppSvcNotification == Struct(Ints(4) \o <<CPtr>>)
RIL_AppStatus == Struct(Ints(3) \o Ptrs(2) \o Ints(3))
RIL_CARD_MAX_APPS == 8
RIL_CardStatus_v6 == Struct(Ints(6) \o <<Arr(RIL_AppStatus, RIL_CARD_MAX_APPS)>>)
RIL_SimRefreshResponse_v7 == Struct(<<CInt, CInt, CPtr>>)
RIL_CDMA_CallWaiting_v6 ==
  Struct(<<CPtr, CInt, CPtr, RIL_CDMA_SignalInfoRecord, CInt, CInt>>)

\* signal strength: v10 is v8 with TD-SCDMA at its end
RIL_GW_SignalStrength == Struct(Ints(2))
RIL_CDMA_SignalStrength == Struct(Ints(2))
RIL_EVDO_SignalStrength == Struct(Ints(3))
RIL_LTE_SignalStrength_v8 == Struct(Ints(6))
RIL_TD_SCDMA_SignalStrength == Struct(Ints(1))
SignalStrengthFields ==
  <<RIL_GW_SignalStrength, RIL_CDMA_SignalStrength, RIL_EVDO_SignalStrength,
    RIL_LTE_SignalStrength_v8>>
RIL_SignalStrength_v8 == Struct(SignalStrengthFields)
RIL_SignalStrength_v10 ==
  Struct(SignalStrengthFields \o <<RIL_TD_SCDMA_SignalStrength>>)

\* cells: an identity per technology, and the identity with its signal
CellIdentity ==
  [gsm |-> Struct(Ints(5) \o <<CChar>>), wcdma |-> Struct(Ints(6)),
   cdma |-> Struct(Ints(5)), lte |-> Struct(Ints(6)), tdscdma |-> Struct(Ints(5))]
CellSignal ==
  [gsm |-> Struct(Ints(3)), wcdma |-> Struct(Ints(2)),
   cdma |-> Struct(<<RIL_CDMA_SignalStrength, RIL_EVDO_SignalStrength>>),
   lte |-> RIL_LTE_SignalStrength_v8, tdscdma |-> RIL_TD_SCDMA_SignalStrength]
RIL_CellInfo_v12 ==
  Struct(Ints(3) \o
         <<CInt64, Union({Struct(<<CellIdentity[c], CellSignal[c]>>) :
                         c \in DOMAIN CellIdentity})>>)
RIL_CellIdentity_v16 ==
  Struct(<<CInt, Union({CellIdentity[c] : c \in DOMAIN CellIdentity})>>)
RIL_VoiceRegistrationStateResponse == Struct(Ints(7) \o <<RIL_CellIdentity_v16>>)
RIL_DataRegistrationStateResponse == Struct(Ints(4) \o <<RIL_CellIdentity_v16>>)

\* CDMA information records
CDMA_NumberInfo == Struct(<<CChar, Arr(CChar, 81)>> \o Fields(CChar, 4))
RIL_CDMA_InformationRecord ==
  Struct(<<CInt,
           Union({Struct(<<CChar, Arr(CChar, 64)>>), CDMA_NumberInfo,
                  RIL_CDMA_SignalInfoRecord, Struct(<<CDMA_NumberInfo, CInt>>),
                  Struct(Fields(CChar, 4)), Struct(<<CChar>>), Struct(Fields(CChar, 2))})>>)
RIL_CDMA_MAX_NUMBER_OF_INFO_RECS == 10
RIL_CDMA_InformationRecords ==
  Struct(<<CChar, Arr(RIL_CDMA_InformationRecord, RIL_CDMA_MAX_NUMBER_OF_INFO_RECS)>>)

RIL_HardwareConfig ==
  Struct(<<CInt, Arr(CChar, 64), CInt, Union({Struct(Ints(5)), Arr(CChar, 64)})>>)
NUM_SERVICE_CLASSES == 7
RIL_CfData == Struct(<<CInt, Arr(RIL_CallForwardInfo, NUM_SERVICE_CLASSES)>>)
RIL_StkCcUnsolSsResponse == Struct(Ints(5) \o <<Union({Arr(CInt, 4), RIL_CfData})>>)
RIL_ActivityStatsInfo == Struct(Ints(8))
RIL_NetworkScanResult == Struct(<<CInt, CInt, CPtr, CInt>>)
RIL_PCO_Data == Struct(<<CInt, CPtr, CInt, CInt, CPtr>>)
RIL_KeepaliveStatus == Struct(Ints(2))

\* CDMA messages, with the limits of their arrays
RIL_CDMA_SMS_ADDRESS_MAX == 36
RIL_CDMA_SMS_BEARER_DATA_MAX == 255
RIL_CDMA_SMS_Address ==
  Struct(Ints(4) \o <<CChar, Arr(CChar, RIL_CDMA_SMS_ADDRESS_MAX)>>)
RIL_CDMA_SMS_Subaddress == Struct(<<CInt, CChar, CChar, Arr(CChar, 36)>>)
RIL_CDMA_SMS_Message ==
  Struct(<<CInt, CChar, CInt, RIL_CDMA_SMS_Address, RIL_CDMA_SMS_Subaddress, CInt,
           Arr(CChar, RIL_CDMA_SMS_BEARER_DATA_MAX)>>)
=============================================================================
