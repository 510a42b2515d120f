\* A wait without a timeout, and one thread that takes between waits.
SPECIFICATION FairSpec
CONSTANTS
  t1 = t1
  w1 = w1
  w2 = w2
  g1 = g1
  q1 = q1
  q2 = q2
  Waiters = {w1}
  GuardConditions = {}
  Queues = {q1}
  WaitsOn <- OneWaitsOnQueue
  Triggerers = {}
  ReadTask = ReadTask
  NoOne = NoOne
  Depth = 2
  MaxArrivals = 2
  MaxTriggers = 0
  ConcurrentTake = FALSE
PROPERTY WaitForeverReturnsReady
