SPECIFICATION Spec
CONSTANTS
  Person = {"ann", "bob"}
  Looks <- SomeLooks
  Match = 1
  Update = 1
  EnrollDuration = 2
  Forgive = 1
  RecentSize = 1
  Page = {"p1", "p2"}
  Patience = 1
  LostTimeout = 2
  SearchTimeout = 5
  CmdVelTimeout = 2
  LoopPeriod = 2
  YawLimit = 1
INVARIANTS GallerySafety GestureEnrols FollowerSafety
PROPERTIES FoundAsEnrolled PagesTold
CHECK_DEADLOCK FALSE
