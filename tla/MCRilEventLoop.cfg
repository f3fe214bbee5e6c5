SPECIFICATION Spec
CONSTANTS
  Threads = {t1, t2}
  Infos = {i1, i2, i3}
  Wakeup = Wakeup
  Delays = {0, 1, 2}
  MaxTime = 3
INVARIANTS BlocksOwned InOrder
PROPERTIES CallbackRuns
CHECK_DEADLOCK FALSE
