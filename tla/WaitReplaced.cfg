\* A queue of one message, which another one replaces.
SPECIFICATION FairSpec
CONSTANTS
  t1 = t1
  w1 = w1
  w2 = w2
  g1 = g1
  q1 = q1
  q2 = q2
  Waiters = {w1}
  GuardConditions = {}
  Queues = {q1}
  WaitsOn <- OneWaitsOnQueue
  Triggerers = {}
  ReadTask = ReadTask
  NoOne = NoOne
  Depth = 1
  MaxArrivals = 2
  MaxTriggers = 0
  ConcurrentTake = FALSE
PROPERTY NotReadyMeansEmpty
