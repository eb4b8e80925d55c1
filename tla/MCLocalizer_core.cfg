SPECIFICATION Spec
CHECK_DEADLOCK FALSE
CONSTANTS
  Servers = {s1, s2}
  NumCams = 2
  Wrap = 3
  Rate = 1
  MaxTime = 4
INVARIANTS TypeOK OneServer StopsAfterThisImage PosesHaveTheirTime FramesCounted
SYMMETRY Symmetry
