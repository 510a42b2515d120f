\* What frees the name of the type is not the allocator.
SPECIFICATION Spec
CONSTANTS
  Profiles <- SomeProfiles
INVARIANT
  NeverCrashes
CHECK_DEADLOCK FALSE
