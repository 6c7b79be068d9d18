SPECIFICATION Spec
CONSTANTS
  Start = "era"
  DaysBack = 400
  DaysOn = 400
  NanoSteps = {1000000}
  NanoBound = 0
CHECK_DEADLOCK FALSE
INVARIANT DayOfEraInRange
