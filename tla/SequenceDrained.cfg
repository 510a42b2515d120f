\* A sequence of two, of which one message has arrived.
SPECIFICATION Spec
CONSTANTS
  Uninit = Uninit
  Moved = Moved
  Depth = 1
  MaxArrivals = 3
  MaxCount = 2
PROPERTY DrainedIsNoError
