\* rmw_init with each of its steps failing.
SPECIFICATION Spec
CONSTANTS
  Profiles <- SomeProfiles
INVARIANT
  FailuresAreReported
CHECK_DEADLOCK FALSE
