SPECIFICATION Spec
CONSTANTS
  WordSize = 64
  Bounds <- MCBounds
  Counts = {1, 2, 4, 63}
  MaxGap = 1
CHECK_DEADLOCK FALSE
INVARIANTS TypeOK AllAccounted PercentileHolds TimesNested
