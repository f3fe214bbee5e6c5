CONSTANTS
  hidl = hidl
  v1 = v1
  v2 = v2
  Binder = hidl
  Vendors <- MCVendors
  NoThread = NoThread
  MaxClient = 2
  MaxNitz = 1
  MaxCalls = 2
SPECIFICATION Spec
INVARIANTS
  NoAbort
PROPERTIES
  LiveClientKept
  DeadClientDropped
