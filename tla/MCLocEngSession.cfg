SPECIFICATION Spec
CONSTANTS
  LocModes = {"ms_based"}
  HasMs = TRUE
  IntermediatePos = TRUE
  AidingRequests = {{"ephemeris"}, {"ephemeris", "almanac"}}
  ConfValues = {"old", "new"}
  InitialConf = "old"
  Servers = {"server"}
  Outcomes = {"success", "phone_offline", "failure"}
  MaxCalls = 2
  MaxReports = 1
  MaxEvents = 1
  MaxRestarts = 1
  MaxQueue = 2
INVARIANTS SessionAgrees AidingDeleted MuteEnds
PROPERTY StartAnswered
CHECK_DEADLOCK FALSE
