SPECIFICATION Spec
CONSTANTS
  Ids = {c1, c2}
  MaxRetries = 1
  MaxAsks = 2
  MaxLosses = 1
  MaxRestarts = 1
CHECK_DEADLOCK FALSE
INVARIANTS
  HeldForSubscriber
  OpenIsHeld
PROPERTY Answered
