CONSTANTS
  hidl = hidl
  act1 = act1
  v1 = v1
  v2 = v2
  k1 = k1
  k2 = k2
  Binder = hidl
  Activators <- MCOneActivator
  Vendors <- MCVendors
  Requests <- MCRequests
  SelfSerial = 100
  Manual <- MCManual
  CardStatus <- MCOneCardStatus
  Tokens <- MCTokens
  NoToken = NoToken
  NoResult = NoResult
  MayFailAlloc = TRUE
SPECIFICATION Spec
INVARIANTS
  PointerNamesRequest
  NoLostRequest
PROPERTIES
  Implements
