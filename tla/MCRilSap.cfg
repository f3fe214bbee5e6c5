SPECIFICATION Spec
CONSTANTS
  Requests = {r1, r2}
  Tokens = {t1}
  Methods <- MCMethods
  VendorResults = {"SUCCESS", "SIM_ABSENT"}
  Indications = {"DISCONNECT", "STATUS"}
  MaxClients = 2
INVARIANTS HeapOwned AnsweredOwn
PROPERTY Answered
CHECK_DEADLOCK FALSE
