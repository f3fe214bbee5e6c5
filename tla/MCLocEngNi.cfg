SPECIFICATION Spec
CONSTANTS
  MaxRequests = 2
  MaxRestarts = 1
INVARIANTS
  TypeOK
  InformedOnce
  EmergencyFirst
  PayloadOwned
PROPERTY Settled
CHECK_DEADLOCK FALSE
