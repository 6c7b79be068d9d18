SPECIFICATION Spec
CONSTANTS
  Start = "epoch"
  DaysBack = 136000
  DaysOn = 12000
  NanoSteps = {499999, 1000000}
  NanoBound = 19999999
CHECK_DEADLOCK FALSE
INVARIANT CivilIsGregorian
PROPERTY Monotonic
