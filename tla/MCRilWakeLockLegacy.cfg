CONSTANTS
  v1 = v1
  v2 = v2
  hidl = hidl
  p1 = p1
  p2 = p2
  p3 = p3
  NoInfo = NoInfo
  NoThread = NoThread
  Vendors <- MCVendors
  Binder = hidl
  Infos <- MCInfos
  MaxMessages = 3
  MayFailAlloc = FALSE
  PromptSetup = TRUE
SPECIFICATION WakeSpec
INVARIANTS
  LegacyHoldCovered
