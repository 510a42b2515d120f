\* One waiter on two queues of two messages; another thread takes.
SPECIFICATION FairSpec
CONSTANTS
  t1 = t1
  w1 = w1
  w2 = w2
  g1 = g1
  q1 = q1
  q2 = q2
  Waiters = {w1}
  GuardConditions = {}
  Queues = {q1, q2}
  WaitsOn <- OneWaitsOnQueues
  Triggerers = {}
  ReadTask = ReadTask
  NoOne = NoOne
  Depth = 2
  MaxArrivals = 4
  MaxTriggers = 0
  ConcurrentTake = TRUE
INVARIANTS
  TypeOK
  NoDanglingAttachment
  SignalsLiveWaitSet
  NoLostWakeup
PROPERTIES
  MessageWakes
  TimedWaitReturns
