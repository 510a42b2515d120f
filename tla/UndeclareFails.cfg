\* The destroy functions go on after a failed undeclare.
SPECIFICATION Spec
CONSTANTS
  Profiles <- SomeProfiles
INVARIANT
  CallbacksFindEntity
CHECK_DEADLOCK FALSE
