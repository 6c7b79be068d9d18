SPECIFICATION FacadeSpec
CONSTANTS
  i1 = i1
  i2 = i2
  i3 = i3
  w = w
  s = s
  None = None
  Initers = {i1, i2, i3}
  Loggers = {i1, i2}
  Supplied = {i1, i2}
  Worker = w
  Shared = s
  Level <- MCLevel
  CallLevels = {2, 4}
  CallbackLevel = 1
  Guarded = TRUE
  BufferSize = 1
  MaxCalls = 1
  MaxDepth = 2
INVARIANTS FacadeTypeOK LevelOfInstalled LoserLeavesNothing InstalledOpen CalledUnlocked
PROPERTIES LogReturns
\* a program that no longer logs does nothing
CHECK_DEADLOCK FALSE
