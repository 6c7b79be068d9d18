SPECIFICATION FacadeSpec
CONSTANTS
  i1 = i1
  i2 = i2
  i3 = i3
  w = w
  s = s
  None = None
  Initers = {i1, i2, i3}
  Loggers = {i1, i2}
  Supplied = {i1, i2}
  Worker = w
  Shared = s
  Level <- MCLevel
  CallLevels = {2, 4}
  CallbackLevel = 1
  Guarded = FALSE
  BufferSize = 1
  MaxCalls = 1
  MaxDepth = 2
PROPERTIES LogReturns
CHECK_DEADLOCK FALSE
