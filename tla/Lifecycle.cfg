\* One entity of each kind, each step of each function failing, shutdown at any time.
\* A process that has crashed takes no further step.
SPECIFICATION Spec
CONSTANTS
  Profiles <- SomeProfiles
INVARIANTS
  TypeOK
  ReleasedOnce
  NothingIsLeft
  DeclaredFindEntity
  TasksRunOnSession
CHECK_DEADLOCK FALSE
