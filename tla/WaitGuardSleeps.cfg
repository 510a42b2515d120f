\* A guard condition that is triggered during the wait.
SPECIFICATION FairSpec
CONSTANTS
  t1 = t1
  w1 = w1
  w2 = w2
  g1 = g1
  q1 = q1
  q2 = q2
  Waiters = {w1}
  GuardConditions = {g1}
  Queues = {}
  WaitsOn <- OneWaitsOnGuard
  Triggerers = {t1}
  ReadTask = ReadTask
  NoOne = NoOne
  Depth = 1
  MaxArrivals = 0
  MaxTriggers = 1
  ConcurrentTake = FALSE
PROPERTY TriggerWakes
\* What the run shows is that the waiter sleeps on.
CHECK_DEADLOCK FALSE
