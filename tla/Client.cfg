SPECIFICATION FairClientSpec
CONSTANTS
  Loggers = {l1, l2}
  Flushers = {}
  Closers = {c1, c2}
  Worker = w
  Callbacks = {{l1, l2}, {l2, c2}}
  BufferSize = 0
  MaxLogged = 2
  Unsendable = {2}
  MaxFaults = 1
INVARIANTS ClientTypeOK StreamsWellFormed WithinCapacity
PROPERTIES ImplementsQueue AbandonsOnlyWhenAllowed CloseReturns EventuallySettled
