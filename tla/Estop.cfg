SPECIFICATION FairSpec
CONSTANTS
  page = page
  phone = phone
  button = button
  Web = {page, phone}
  Other = {button}
  Mux = mux
  Setup <- AloneAndShared
INVARIANTS MirrorSafety
PROPERTIES OnlyReleasedByPage EngagedLocks EngagedShown
