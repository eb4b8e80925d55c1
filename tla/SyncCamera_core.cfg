SPECIFICATION FairSpec
CHECK_DEADLOCK FALSE
CONSTANTS
  Cameras = {c1, c2}
  Junk = {TRUE, FALSE}
INVARIANTS TypeOK CleanupIsSafe
PROPERTY DestructorReturns
