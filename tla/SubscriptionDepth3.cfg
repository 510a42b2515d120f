\* A ring of three slots that wraps around: five samples.
SPECIFICATION Spec
CONSTANTS
  Uninit = Uninit
  Moved = Moved
  Depth = 3
  MaxArrivals = 5
  MaxCount = 2
INVARIANTS
  TypeOK
  RingIsConsistent
  DropsWrittenPayload
  OnlyFrontHoldsPayload
  DeliveredInOrder
PROPERTIES
  SequenceReportsTaken
  MailboxSpec
