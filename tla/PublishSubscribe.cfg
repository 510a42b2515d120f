\* Two threads publish; a depth of one, with which the queue keeps what it promises.
SPECIFICATION SystemSpec
CONSTANTS
  Uninit = Uninit
  Moved = Moved
  Malformed = Malformed
  Depth = 1
  MaxArrivals = 3
  MaxCount = 1
  Publishers = {p1, p2}
  MaxPublished = 2
  PeerAttachments <- SomePeerAttachments
INVARIANTS
  AttachmentMatchesPayload
  CountedMessagesAreStored
  OrderOfCalls
  InfoMatchesPublication
PROPERTIES
  HistorySpec
  TopicSpec
