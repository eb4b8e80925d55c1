\* Window 2 instead of 100: the counters start again twice.
SPECIFICATION Spec
CHECK_DEADLOCK FALSE
CONSTANTS
  Window = 2
  Junk = {0, 7}
  MaxSeq = 4
  MaxTaken = 5
INVARIANTS
  TypeOK
  DropsAreMissing
  CrashesOnlyEarly
 
