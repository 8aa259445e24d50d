SPECIFICATION Spec
CONSTANTS
  MaxRuns = 3
  Lengths = {0, 2, 5}
  WordSize = 16
INVARIANT SaidIsWritten
CHECK_DEADLOCK FALSE
