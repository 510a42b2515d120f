\* The least depth at which the queue should store more than one message.
SPECIFICATION Spec
CONSTANTS
  Uninit = Uninit
  Moved = Moved
  Depth = 2
  MaxArrivals = 3
  MaxCount = 2
INVARIANT CountedMessagesAreStored
