SPECIFICATION Spec
CONSTANTS
  Values = {0, 10, 30, 40}
  MaxOptions = 3
INVARIANT
  BoundsAsGiven
CHECK_DEADLOCK FALSE
