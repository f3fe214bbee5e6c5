CONSTANTS
  PtrBytes = 8
  MaxProfiles = 1
  mqanelements = 4
  kOemHookEnabled = TRUE
  Versions <- LibraryVersions
  MaxElements = 9
SPECIFICATION Spec
INVARIANTS
  ArgumentsOwned
  AnsweredInKind
  ReadsWithinPayload
CHECK_DEADLOCK FALSE
