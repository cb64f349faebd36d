SPECIFICATION FairSpec
CONSTANTS
  Task = {t1, t2}
  Main = main
  Client = {c1}
  Nobody = nobody
  Mode = {"drive", "ball", "person"}
  Drive = "drive"
  Needs <- BothNeeds
  Faults = {"exits", "dies"}
INVARIANTS FollowSafety
PROPERTIES Served FailureShown GoneAfterExit
CHECK_DEADLOCK FALSE
