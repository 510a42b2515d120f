\* Requests are handed out that can never be answered.
SPECIFICATION Spec
CONSTANTS
  Uninit = Uninit
  Moved = Moved
  NoRequest = NoRequest
  Depth = 1
  MaxArrivals = 3
  Hash <- DistinctHashes
  Responders = {t1, t2}
INVARIANTS
  TakenIsAnswerable
CHECK_DEADLOCK FALSE
