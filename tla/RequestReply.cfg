\* Two threads of the client, two of the service, queues of depth one.
SPECIFICATION SystemSpec
CONSTANTS
  Uninit = Uninit
  Moved = Moved
  NoRequest = NoRequest
  Depth = 1
  MaxArrivals = 3
  MaxRequests = 2
  Hash <- DistinctHashes
  Senders = {t1, t2}
  Responders = {r1, r2}
  DestroyInFlight = FALSE
INVARIANTS
  TypeOK
  CountCoversInFlight
  SequenceNumbersUnique
  ResponsesKeepTheirNumber
  ResponseMatchesRequest
PROPERTIES
  CallSpec
\* The client may be destroyed, and the requests are bounded.
CHECK_DEADLOCK FALSE
