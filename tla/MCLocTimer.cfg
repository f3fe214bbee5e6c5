SPECIFICATION TimerSpec
CONSTANTS
  l1 = l1 l2 = l2 l3 = l3 timers = timers
  d1 = d1 d2 = d2 d3 = d3
  Clients = {l1, l2, l3}
  Containers = {timers}
  Delegates = {d1, d2, d3}
  Delays = {1, 2}
  MaxTime = 2
  MaxStarts = 3
INVARIANTS DelegatesOwned EndsOnce
PROPERTY Expires
CHECK_DEADLOCK FALSE
