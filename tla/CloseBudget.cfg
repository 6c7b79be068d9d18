SPECIFICATION BudgetSpec
CONSTANTS
  Loggers = {l1}
  Flushers = {}
  Closers = {c1}
  Worker = w
  Callbacks = {{}}
  BufferSize = 2
  MaxLogged = 3
  Unsendable = {}
  MaxFaults = 0
  Addresses = 2
  ConnectTimeout = 3
  WriteTime = 3
  FlushTimeout = 2
INVARIANTS CloseWithin ConnectWithin LeavesPromptly
