\* Two slots, headers that collide, and one with hash 0.
\* The arrivals are bounded, so the service comes to rest.
SPECIFICATION Spec
CONSTANTS
  Uninit = Uninit
  Moved = Moved
  NoRequest = NoRequest
  Depth = 2
  MaxArrivals = 4
  Hash <- CollidingHashes
  Responders = {t1, t2}
INVARIANTS
  TypeOK
  KeysIdentifyQueries
  AnswersMatchingQuery
  QueriesDroppedOnce
PROPERTIES
  AcceptedIsKept
CHECK_DEADLOCK FALSE
