CONSTANTS
  Cases <- ReadingCase
  MaxRun = 2
SPECIFICATION Spec
INVARIANT ReadsAreUnited
CHECK_DEADLOCK FALSE
