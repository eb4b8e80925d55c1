\* MaxSocks: two connections and the accept after them.
SPECIFICATION Spec
CHECK_DEADLOCK FALSE
CONSTANTS
  Threads = {t1, t2}
  Main = main
  NumSlots = 2
  MaxSocks = 3
  MaxConns = 2
  MaxData = 1
  MaxOdd = 1
INVARIANTS
  TypeOK
  OneHandlerPerSlot
  
  ThreadsWillEnd
PROPERTY
  AcceptingGoesOn
