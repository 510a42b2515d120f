\* The client is destroyed while a query is in flight.
SPECIFICATION Spec
CONSTANTS
  Uninit = Uninit
  Moved = Moved
  Depth = 1
  MaxArrivals = 2
  MaxRequests = 2
  Senders = {t1, t2}
  DestroyInFlight = TRUE
INVARIANTS
  ClosuresPointToClient
\* The client may be destroyed, and the requests are bounded.
CHECK_DEADLOCK FALSE
