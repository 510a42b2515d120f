\* The hash of the second header is 0.
SPECIFICATION Spec
CONSTANTS
  Uninit = Uninit
  Moved = Moved
  NoRequest = NoRequest
  Depth = 1
  MaxArrivals = 3
  Hash <- CollidingHashes
  Responders = {t1, t2}
INVARIANTS
  ZeroHashFindsNothing
CHECK_DEADLOCK FALSE
