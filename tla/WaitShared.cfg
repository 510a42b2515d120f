\* Two waiters that share a guard condition and a queue.
SPECIFICATION Spec
CONSTANTS
  t1 = t1
  w1 = w1
  w2 = w2
  g1 = g1
  q1 = q1
  q2 = q2
  Waiters = {w1, w2}
  GuardConditions = {g1}
  Queues = {q1}
  WaitsOn <- BothWaitOnGuardAndQueue
  Triggerers = {t1}
  ReadTask = ReadTask
  NoOne = NoOne
  Depth = 1
  MaxArrivals = 2
  MaxTriggers = 2
  ConcurrentTake = TRUE
INVARIANTS
  NoDanglingAttachment
  SignalsLiveWaitSet
PROPERTIES
  TriggerIsReported
\* A guard condition that was triggered stops the waiter that finds it so.
CHECK_DEADLOCK FALSE
